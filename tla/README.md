# Verification of yobi-analytics

TLA+ models of yobi-analytics, the TLC configurations that check them on small
instances, and TLAPS proofs of what matters most for every instance.  Source
paths are relative to the repository's root; `src/` below is its Python package.

The program is a set of AWS Lambda functions over DynamoDB and S3.  They run on
clocks, may overlap, be retried, be cut off by their timeout and lose replies,
and they hand data to each other through stored records that are written one
after the other.  What goes wrong there takes several steps of several actors,
which a unit test hardly reaches; that is what the modules are about.

## Inventory

| Component | State it keeps | Operations | What is hard | Modelled in |
|---|---|---|---|---|
| Execution lock (`execution_lock.py`) | a row per report date: owner, status, lease, completed shards | acquire, renew, mark complete, mark failed | expiry during work, orphans, lost replies | ExecutionLock, ReportDateClaim |
| Daily history (`terraform/history.tf`, `history_worker_handler.py`, `ranking_reducer.py`) | the state of a Step Functions execution, its invocations | acquire, Map of shards with retries and Catch, reduce, mark | invocations outlive their state | HistoryPipeline |
| Shard collection (`history_worker.py`) | a shard of the day in S3 | check, collect, write, update Video Master, patch the manifest | crash between two steps of a sequence that must be retry-safe | HistoryPipeline, TrackingManifest, VideoClassification |
| Tracking manifest (`tracking_manifest.py`) | a Parquet object per shard in S3, with an ETag | read, compare-and-swap patch (5 attempts), publish | workers, discovery and backfills patch one shard | TrackingManifest, DailyCollection, VideoClassification, TopicBackfill |
| Tracking schedule (`tracking_schedule.py`) | class, streak and slot of a video | due today, classify after an observation | a class changes between two slots | TrackingSchedule |
| Discovery (`main.py`, `video_discovery.py`) | Video Master rows, events, manifest entries | three writes in a row, the last best effort | each of them failing alone | TrackingManifest |
| Day's collection (`main.py`, `dynamodb_store.py`) | snapshots and the summary of a day | claim, collect with retries, write, mark COMPLETE | overlapping runs, quota spent half-way | DailyCollection, YoutubeClient |
| Premiere decisions (`premiere_announcements.py`, `_store.py`, `provisional_discoveries.py`) | the decisions, the announcement events | search, decide, record, announce | two discoveries decide about one Premiere | PremiereAnnouncement |
| Backfills (`scripts/backfill/`) | none of their own | fill a classification or topic in Video Master, then mirror it into the manifest | other writers between the two | VideoClassification, TopicBackfill |
| Subscribers (`subscriber_snapshot.py`, `subscriber_ranking.py`) | a snapshot and a result per date | collect, repair, rank | a repair after the result was built | SubscriberLeaderboard |
| Live snapshot (`livestream_lifecycle.py`) | the list, its heartbeat and cooldown | poll Holodex, write, back off; serve | two records, one stored | LiveSnapshot |
| Livestream lifecycle (`livestream_lifecycle.py`) | ENDED and LIVE_SNAPSHOT records, candidates, archive watch | completion cycle: diff, probe, write, hand off | two records written one after the other | LivestreamCompletion |
| Live list (`read_api.py`) | caches of a warm container | merge, classify, drop confirmed ends | caches of different age | LiveList |
| Stream schedule (`notification_dispatcher._load_schedule`) | a system record with a revision | derive from the snapshot, store if newer | overlapping derivations | StreamSchedule |
| Delivery log (`notification_delivery_log_store.py`) | a row per client and notification | claim, confirm, release, suppress | claims that expire; unconditional confirm and release | DeliveryLog |
| Live reminders (`notification_dispatcher.py`) | the marker of a warm container | a run per minute: minutes, clients, claim, push, confirm | overlapping, late and lost runs | ReminderDelivery |
| Premiere reminders (`premiere_reminder.py`) | an item per saved reminder | save, due, push, consume | a Premiere that moves | PremiereReminder |
| Simultaneous notices (`simultaneous_dispatcher.py`) | a ledger row per collision | register, lease, send in chunks, final write | lease shorter than the Lambda, lost final write | SimultaneousNotice |
| New-video delivery (`new_video_dispatcher.py`, `notification_slot_store.py`) | preference, slot index, settled cache | tick, suppress, send; synchronise slots | the index is rewritten in several steps | NewVideoDelivery |
| Settings (`remote_config_store.py`, `client_credential_store.py`, `reminder_candidates.py`) | items of a client, its credential | register, save, delete, look up | a lookup in several queries | ReminderSettings |
| Home (`read_api.py`, `history_ranking.py`) | rankings of a day, archive records | rank, growth, overlay, filter | sources of different age | CreatorVideos |

How they interact.  The history state machine calls the worker and the reducer,
which call the lock; the worker, discovery and the backfills share the manifest
and Video Master.  Discovery records the events that the new-video delivery and
Home read.  The livestream lifecycle writes the snapshot from which the live list
is served and a reminder run derives the stream schedule, and the records of ended
streams that Home overlays on a ranking.  Reminders, notices and new videos all
claim their pushes in the delivery log.  Clients write their settings through
the remote configuration.

What makes each correct, in a line: at most one execution works on a date, a
COMPLETE date is complete and final, and a date never stays locked; a manifest
entry follows the observation in Video Master and no entry is lost; every video is
observed within its cycle; a client sees a notification once, gets what it asked
for at the time it came due, and is not forgotten by a run that was cut short; a
notice that is settled was dealt with for everybody; the stored schedule never goes
back in time; a stream seen live is followed until its end is recorded; what is
served as live was confirmed as such; Home shows each video once and as what it is.

## Modules

    ExecutionLock            the row of a report date and its four operations
      HistoryPipeline        EXTENDS it: executions, Map, invocations, S3
        HistoryPipeline_proofs   TLAPS
    ReportDateClaim          abstract: a date is open, claimed or closed
    TrackingManifest         discovery and history worker over manifest and Video Master
      TrackingManifest_proofs  TLAPS
    DeliveryLog              the rows of the delivery log and their operations
      ReminderDelivery       INSTANCEs it: livestream reminders
        ReminderDelivery_proofs    TLAPS
      PremiereReminder       INSTANCEs it: reminders of a Premiere
      SimultaneousNotice     INSTANCEs it: notices of overlapping streams
        SimultaneousNotice_proofs  TLAPS
      NewVideoDelivery       EXTENDS it: new-video slots
    ReminderSettings         items, credential and lookup of the settings
    StreamSchedule           derivations of the stored schedule
      StreamSchedule_proofs    TLAPS
    LivestreamCompletion     the completion cycle
    LiveSnapshot             the snapshot, its heartbeat and its readers
    LiveList                 the list a request builds
    YoutubeClient            operators: calls, batches, kinds of video
      DailyCollection        a day's collection
      VideoClassification    backfills and worker on one classification
      PremiereAnnouncement   decisions and announcements of Premieres
      CreatorVideos          rankings, growth and Home's overlays
    TrackingSchedule         which videos are due
    SubscriberLeaderboard    snapshots, repairs and leaderboards
    TopicBackfill            topics in Video Master and manifest

    MCHistoryPipeline, MCTrackingManifest, MCReminderDelivery, MCSimultaneousNotice,
    MCStreamSchedule         one component each
    MCLivestreams            LivestreamCompletion, LiveSnapshot, LiveList
    MCNotifications          NewVideoDelivery, PremiereReminder, ReminderSettings
      Notifications_proofs     TLAPS
    MCCollection             TrackingSchedule, DailyCollection, VideoClassification,
                             SubscriberLeaderboard
      Collection_proofs        TLAPS
    MCHome                   TopicBackfill, CreatorVideos, PremiereAnnouncement
      ReadApi_proofs           EXTENDS it and MCLivestreams, TLAPS

The last four instantiate several components in one run.  The components of one run
share no variable, so running them side by side would only multiply their states:
the variable `part` (`page` in MCHome) says which one moves, and the others stay in one of
their initial states.  They are one run because they answer one question ("is what is served sound?").
Their bounds are CONSTANTS with values in the .cfg, so that theorems about them speak of
every instance.

### ExecutionLock and HistoryPipeline

`row` is the DynamoDB item of one report date.  `Acquire`, `Renew`,
`MarkComplete` and `MarkFailed` are the conditional writes with their
conditions as guards; the caller's error path is the negation of the guard.
`Acquire` replaces the item (`put_item`), the others update fields.

`exec` is the ASL state of each execution, `lambdas` the set of running
invocations.  An invocation is separate from the execution because it
survives it: when Step Functions gets an invocation-level error it retries or
goes to the Catch although the Lambda may run on to its timeout.  `Awaited`
tells which invocation an execution listens to; the result of any other is
dropped, its writes are not.  Every access to DynamoDB or S3 is a step, so
`CheckShard`, `PutShard` and `RenewShard` of several invocations interleave.
Losses: `LambdaDies` (any exception, crash or timeout), `ServiceError` (retry
or Catch, the invocation stays), `AbortExecution` (no Catch), and the lost
reply of a conditional write (`AcquireReplyLost`, `MarkReplyLost`): the SDK
repeats the call, which its own first try refuses.  `Renew` needs none of it,
since repeating it is harmless.

`MarkExecutionComplete` has no Catch, so its failure ends the execution as an
abort does.  A failure of the rankings is swallowed (`PutRankings` may leave
them as they were); `rankings` stands for those of one creator, since the
reducer writes creator after creator.  The subscriber snapshot runs in the
acquire invocation after the acquire, swallows its errors, and is left out.
Reading the shards one after the other is one step: `stored` only grows.

`ReportDateClaim` says what the lock promises to its users: a date is open,
claimed by one execution or closed; only the holder works; a claim ends by its
holder, or by expiry while nobody works under it.  `HistoryPipeline` maps
`state`, `holder` and `working` onto the row and the clock (`Claim ==
INSTANCE ReportDateClaim WITH ...`) and checks `ImplementsClaim`.

### DeliveryLog and ReminderDelivery

`DeliveryLog` has the three writes (`Claim`, `Confirm`, `Release`) and the two
reads (`Expired`, `Handled`) the dispatchers are built from.  `Confirm` and
`Release` have no condition because the code's have none.

`ReminderDelivery` is the one-minute run for one stream.  `run[k]` is the
invocation in container `k`: `now` and the schedule `entry` are read once, as
in the code, `todo` are the minutes `_evaluation_instants` gave it, `outcomes`
what `lambda_handler` counts.  `served[k]` is `_last_served_ms`.  `Scan` is an
iteration of the loop over the minutes: it looks up the candidates and starts a
task for each.  A task is a recipient in the thread pool, at `pc`: read the
client's records, guard of the catch-up, claim, push, confirm, release; the
stages advance, catch-up and start follow in the code's order.  The tasks of
one minute interleave with each other and with every other container.
Failures: a store error at any access with or without its effect (`TaskFails`,
`ConfirmFails`, `ClaimReplyLost`, `GuardFails`), a failed lookup (`RunFails`),
a push accepted but reported as failed, and sent twice by the bounded retry
(`Push`), the death of an invocation with its container (`Crash`), a recycled
container (`Recycle`).  The schedule and the clients' records are changed by the
environment (`MoveStream`, `GoLive`, `SaveReminder`, ...), as the derivation of
the schedule and the API do.

What is abstracted: one stream and one reminder setting per client with both
moments (ReminderSettings has the precedence between settings); Premiere reminders
(PremiereReminder) and legacy rows; wording; `already_delivered` before `mark_delivered`, whose
answer is the negation of the claim's condition; the two reads of a client's
records, one step; the eventual consistency of the key index.  A time unit is
a minute, so `Window` is 1 and `Jitter` and `Tolerance`, both less than a
minute, are 0.  Ghosts (`shown`, `unconfirmed`, `misreported`, `tried`,
`wanted`) record what the properties need and no action reads them.

### TrackingManifest

`manifest[s]` is the S3 object of shard `s`, `master` the Video Master rows,
`daily` the stored day shards, `events` the recorded new-video events,
`uploads` the creator's uploads playlist.  A run of discovery goes through
`record`, `upsert` and then `read`/`write` for each shard it found videos for;
a worker run through `check`, `put`, `classify`, `upsert`, `read`/`write`.
Every access to a store is a step.  `Unchanged` is S3's If-Match or
If-None-Match: an ETag is a digest of the object, so the version a run has seen
is the contents it has seen.  Both users call `patch_shard`; they differ in what
they do when it fails: discovery prints a warning and takes the next shard
(`AddFails`, `NextShard`), the worker fails (`PatchConflicts`, `WorkerFails`).
Batches (`upsert_videos`, events) may be cut short after any part of them, and
any run may die, with or without the effect of the write in flight.

What is abstracted: one creator; a video's scheduler state is the observation
it was last classified from and their number, and a manifest entry carries the
state its `activity_state` was computed from; any tracked video may be due, and
YouTube may answer for any of the due ones; the reads of a batch (the shards of
the known ids, the rows to classify) are one step; `clock` numbers the worker
runs and is their `observed_at`.  Malformed playlist items are left out;
Premiere announcements are PremiereAnnouncement's, `publish_tracking_manifest` and `main()`
are DailyCollection's.  `observed` is a ghost: the observations that were made.

### SimultaneousNotice

One collision (streams of different creators with one start), its ledger and the
passes over it.  `pass[k]` is the pass of container `k`: it read the ledger, took
the lease (`Swaps` is the compare-and-set on the version), found the recipients and
serves them chunk by chunk, each recipient a `task` that reads, claims, pushes and
confirms like a reminder; `Collected` folds the results of a chunk into the work list.  Retries and deferrals go into the ledger's work list
(`MaxWork` is `MAX_WORK_ITEMS`); the second compare-and-set records cursor, work and
settlement.  The lease may end before the Lambda, so passes overlap.  The environment
edits a client's settings, delists the streams and makes the collision vanish.
Ghosts keep the fates of pushes, attempts, and who was dealt with.

### StreamSchedule

A run reads heartbeat, snapshot, stored record and ledgers one after the other, and
writes the record if its revision is newer (`IfNewer`).  A schedule is the set of
streams present at the one start, so a set of two or more is a collision and its own
id.  `Refresh` is a display refresh of the snapshot between any two reads.  `Step(k)`
is the next store call of container `k`, which may fail; `Crash` ends it.  `owed`
(a ghost) holds the notices a stored record announced; what the code gives up on
purpose or cannot keep leaves it and is listed below.

### LivestreamCompletion, LiveSnapshot and LiveList

The two jobs of the lifecycle are one Lambda with a reserved concurrency of one, so a
run is one action that chooses what Holodex and YouTube answer and how far its writes
come.  `LivestreamCompletion!CompletionCycle` is the whole completion cycle: diff
against the previous observation, pending candidates with their age and attempts,
probes of the candidates and of the streams listed as live (in batches), ends, archive lookups, hand-off to
the daily task, the two records in their order, the row of Video Master, the event
and the time of an archived Premiere.  `Losses` are the writes that fail.
`LiveSnapshot` is the display refresh: poll, rewrite only when the list changed or is
old, heartbeat, cooldown with back-off; the completion cycle that takes its list or
fetches a backup; and a request that reads the records one by one.  `LiveList` is what
such a request makes of the list: the lookahead of its own moment, confirmed ends out
of a cached record, classification out of Video Master or by asking YouTube, which is
cached and stored on condition.  Time is in completion intervals of five minutes.

### NewVideoDelivery

One client and its PUT of the preference: read the index, add the missing slots, delete
the stale ones, store the preference, in the order the API has for ON and OFF, each
call fallible.  A tick of the schedule starts a run in a container, which queries the
slot, reads the preference, the handled ids (with the container's cache `memory`), and
claims, pushes and settles each event, the announcement and the archive of a Premiere.
A push is accepted, or fails, or was accepted and is reported as failed (a read
timeout, `push_sender.py:196-203`); there is no bounded retry here, and a failed push gives its
claim up, so that the next slot tries again.  An event is pending for `EventLookback` calendar
days (`Pending`).  A run may be served up to `MaxLag` after its tick.  `missed` and `cut` are
ghosts, `unsure` counts the accepted pushes reported as failed or left unconfirmed.  The
index is queried as it is, though it is a GSI.  Mute and quiet hours are a free choice.

### PremiereReminder and ReminderSettings

`PremiereReminder` follows a client's one saved choice: the listing of the Premiere moves or
disappears (`Relist`), the schedule derives its start from it, the run scans the minutes
its container has not served, claims, pushes, confirms and consumes the item.  Each
save has a number, so that a push belongs to what was saved.  `ReminderSettings` has the
routes of the API (register, put, delete) for two devices, and the dispatcher's lookup,
which queries key after key and resolves creator, topic and all-topics settings.

### DailyCollection, TrackingSchedule, VideoClassification, SubscriberLeaderboard

`DailyCollection` is `main()` for one date: creators in turn (disabled ones skipped),
Video Master, events and the published manifest, what is due, statistics with the
partial results of a spent quota, the claim of the day, the snapshots and COMPLETE.
Runs overlap and die anywhere.  `TrackingSchedule` is one step per day: every due video
is observed, or nothing is collected of it, and its class, streak and cycle follow.
`VideoClassification` has every writer of contentType and liveStatus: the
classification backfill (scan, plan, Video Master first, manifest second, verification),
the Shorts backfill, requests, the lifecycle and the history worker, which observes,
reads, puts whole rows and patches.  `SubscriberLeaderboard` collects the missing
creators of a date, rebuilds the leaderboards from what is stored, with anchors in
earlier snapshots.  Its executions hold the date's lock and do not overlap.
`YoutubeClient` holds the operators they share: how a call with retries ends, what a
batch returns, and what an item says of an upload, a Short, a livestream or a Premiere.

### PremiereAnnouncement, TopicBackfill, CreatorVideos

`PremiereAnnouncement` is two overlapping discoveries and the announcements after them:
uploads that became visible, announced ids, events, Video Master, manifest; then the
candidates of the live snapshot, YouTube's answer, the event, and the decision in one
compare-and-set write with its limit.  `TopicBackfill` is a run in one of the modes of
the command line, with its conditional writes, the rows it cannot classify, and its status.  `CreatorVideos` puts the
sources of Home together: the day's shard (observed or carried forward), the ranking
with its growth over the anchors, the lifecycle's verified archives, the durable archive
times and the discoveries since the ranking, and the filters of the ranking.  Time is
in quarters of a day; the lifecycle and the lock are one step each.

## Runs

| Run | Instance | Shows |
|---|---|---|
| `history_lock` | 2 executions, one a repair, 2 parallel shards, 1 attempt, 2 faults | `LeaseOutlivesRun`, `CompleteMeansCollected`, `RankingsCoverRun`, `ImplementsClaim`, types |
| `history_liveness` | fair, 2 executions, one slot for two shards, 2 attempts, 1 fault | `ExecutionEnds`, `LockIsFreed`, `CompleteIsFrozen` |
| `reminder_once` | 2 containers, 1 client, 2 runs, 2 faults, 1 edit | `OnePushPerOutcome`, `SenderOwnsClaim`, `RecoveredWasWanted`, `DeliveredIsFinal`, `MarkerPassesServed` |
| `reminder_reschedule` | 2 containers, 2 starts, 2 edits | `NoSecondAdvance`, types |
| `manifest` | fair, 2 workers, 2 dates, a discovery that repeats, 1 shard, 2 videos, 2 faults | `ObservedOnce`, `EventsFirst`, `TrackedStays`, `EveryVideoTracked`, types |
| `manifest_lost` | fair, 1 discovery, 2 shards, 1 fault | `EveryVideoTracked` is violated |
| `notice_delivery` | 2 containers, 2 clients, 3 streams, chunks of 1, 3 passes, 1 fault | `OneNoticePerOutcome`, `AttemptsBounded` (and types), `SettledMeansServed`, `SettledIsFinal` |
| `stream_schedule` | fair, 2 containers, 3 streams, 3 refreshes, 1 fault | `NeverClaimsNewer` (and types), `NeverGoesBack`, `NoticeNotForgotten`, `CatchesUp` |
| `livestreams` | 1 or 2 streams each, 1 or 2 faults | `FollowedToTheEnd`, `ServedListIsSound`, `SettledStands` |
| `notifications` | 1 client, 2 containers, 2 PUTs; 2 starts; 2 devices; 1 fault each | `OnePushPerConfirmation`, `NoBacklog`, `NoVideoIsLost`, `RemindersAreSound`, `MarkerPassesPremieres` |
| `collection` | 16 days; 2 runs of a day; 3 videos; 2 dates of leaderboards; 1 fault each | `CollectionIsSound`, `CompleteDayIsFinal` |
| `home` | 1 video of any kind over two rankings; 2 discoveries; 3 modes of the backfill; 1 fault each | `HomeIsSound`, `ShownStands` |

The properties of a run of several components are conjunctions of the named properties
of the modules, one for each question:

- `FollowedToTheEnd`: `NotForgotten`, what a stored cycle saw live stays followed until
  its end is recorded or it was dropped for its age.
- `ServedListIsSound`: `FreshMeansConfirmed` and `ServedWithinBound` of the snapshot;
  `WindowIsExact`, `ListAgreesWithEnds` and `RunningIsListed` of the list.
- `SettledStands`: `EndIsFinal`, `HandedOffAfterLookups`, `ClassificationStands`.
- `NoVideoIsLost`: `SyncKeepsSlots`, `NothingLostByEdits`, `RememberedIsSettled`.
- `RemindersAreSound`: `SentOnce` of a Premiere reminder; `SecretsStand` and
  `LookupIsExact` of the settings.
- `CollectionIsSound`: `WaitsOneCycle` and `QuietIsEarned` of the schedule;
  `CompleteMeansStored`, `EverySkipExplained`, `NothingAsked` and `PaidForIsKept` of a day;
  `TheTwoAgree`, `CompleteMeansDone`, `FiledByKind` and `ShortsStay` of the classification;
  `AnswersKept`, `RepairsReachTheResult`, `NothingInvented` and `RanksAreRight` of the
  leaderboards.
- `HomeIsSound`: `NoViewsCountedTwice`, `ListedOnceAsItIs` and `FilterKeepsOrder` of a
  creator's videos; `NothingLost`, `OneEvent`, `OnlyPremieresAnnounced` and
  `ShownFromUploads` of the Premieres; `CompleteLeavesNoWork` of the topics.
- `ShownStands`: `NewTimesHold` and `DecisionsStand`.

Bounds and why they are enough.  Times are scaled: only the order of the
limits matters (the leases exceed the attempts, waits and timeouts they must
cover, and a claim's expiry exceeds the Lambda's timeout); `LeaseMarginAssumption`
and `ExpiryAssumption` state the relations the real values satisfy (63.5
minutes of attempts against a lease of 90 and 45; 300 s against 20 minutes)
and TLC evaluates them on each instance.  `SnapshotAssumption` and
`ScheduleAssumption` do the same for their modules.  `MaxClock` (`MaxNow`, `LastDay`,
`MaxRefreshes`) reaches past every lease, expiry, cycle and retention, so that each
of them happens, except `EventLookback`: the horizon of two scaled days does not reach the
three days of the code, and the theorems about new videos hold for every value of it.
Two executions of a date, two containers, two workers or two
discoveries are enough for every two-actor hazard, and a third adds only a repetition
of the second; the second shard is what a Map does beyond one.  In `manifest` one
discovery process repeats, as the windows are hours apart and a Lambda lives minutes;
overlapping discoveries are the subject of `home`.  `MaxFaults` counts what goes
wrong; one or two failures reach every error path, since every path handles one
failure.  `MaxEdits`, `MaxPuts` let the schedule or a client change between any two
steps of a run.  `PatchAttempts` is 2 instead of 5: the first conflict is followed by
another attempt and the second gives up, and a third would repeat the first; the
`MaxRetries`, `BatchSize` and `MaxAttempts` of the other modules are scaled alike.
`MaxWork` is 1 so that the work list of a notice is full when the second client fails too.  In
`MCCollection` each video of the classification starts in a state that another writer
disagrees with.  Symmetry is used for containers and clients in runs of invariants and
action properties, never for liveness.  CHECK_DEADLOCK is off where time stops at its
bound with nothing left to run.

Fairness.  `history_liveness` assumes weak fairness of three things: an
invocation makes its next access (or the clock reaches its deadline and it is
killed), the Map starts a shard while it has a slot, and time passes.  The
first is Lambda's timeout, the second Step Functions' scheduler.  No failure is
fair, and nothing is asked of retries.  `manifest` and `manifest_lost`
assume weak fairness of the steps of discovery: five windows a day start it,
and a started Lambda makes its next access or dies, which is a fault.  The
worker and the uploads need none.  `stream_schedule` assumes weak fairness of each
container's steps: a run starts every minute and makes its next store call or is
killed.  The other runs check safety only.

## What the code does differently from its documentation

Shown by a run, `manifest_lost`: discovery walks the uploads from the newest down to
the first known one, and the shards of a run are patched independently.  A video
whose shard could not be patched, below a newer one whose shard was, is never
found again: it has a Video Master row and an event, but nothing ever
observes it, until somebody republishes the manifest by hand.  The docstring
says a later patch fixes it.  With a single shard the docstring is right
(`manifest`).

Behaviours the models have and no run is spent on, or that a property excuses (a
property says so in its comment).  File names are those of the sources.

History and tracking:

- `MarkExecutionFailed` frees the date while invocations of the failed Map still
  collect; the next execution collects beside them, which the docstring of
  `execution_lock.py` says the lock prevents.  Their late calls harm nothing
  (`CompleteIsFrozen`, `CompleteMeansCollected`).
- Whether an ingestion is the first is read from the manifest (`main.py:316`), so one
  that was patched in part is not the first the next time, and the rest of the backlog
  is announced, against "everything except first-ingestion backlog" (`main.py:512`).
- Video Master rows are read, classified and put without a condition: of two
  overlapping workers the older observation may be put last, and a discovery
  that overlaps another may blank a row that was observed in between; a worker's
  whole-item put can also turn a completed stream back to live.  `ObservedOnce` holds
  all the same.
- A worker cut off between Video Master and the manifest is retried, finds
  every row applied, and does not patch the manifest: the entry stays behind
  until the video is observed again.
- A day that fails makes a Cold video wait another whole cycle.

A day's collection and the backfills:

- Two runs of one date can mark it COMPLETE while the other's snapshots are still
  missing, which `_claim_run_summary` accepts; `met` excuses it.  A retry that collects
  fewer videos leaves snapshots the COMPLETE summary names as skipped, although
  `save_daily_collection` says a rerun "reconciles" them.  Overlapping runs publish
  the whole manifest, and one may drop the other's videos until the next publication.
- `_patch_manifest_with_new_videos` does not set a content type, so the entry of a new
  Short is unclassified until the worker observes it; the lifecycle completes Video
  Master only, so the manifest differs until the next observation, although the backfill
  says "master and manifest cannot diverge".  `unsettled` excuses both.
- The topic backfill leaves a manifest entry that carries a topic alone when its Video
  Master row has none, and still reports COMPLETE.

Reminders:

- After a failed confirm the claim expires and the next run pushes again while the
  reminder is still due, against the comment "the safe side, never a resend"
  (`notification_dispatcher.py:1161`).
- The catch-up asks the current preference about the original fire time
  (`notification_dispatcher.py:1000`); a mute that covered it and is lifted since does
  not hold it back, against `docs/late-discovery-advance-catch-up.md:48`.
- The lifetime of a push is counted from the start of the run, so an advance
  reminder outlives the scheduled start by as much as the run has lasted (at
  most its 300 s); `push_ttl.py` says it lives until the start.
- A Premiere reminder whose item could not be consumed is sent again when the Premiere
  moves, although the comment says "an unconsumed item only stays inert"
  (`notification_dispatcher.py:956`).  Runs that hold the item for two starts both push.
  A choice saved between the lookup and the consumption is deleted with the old one, and
  a choice changed after delivery for the same start is suppressed by the same id.
- The queries of a lookup are no snapshot: a client that sets all topics after their
  query and deletes a topic before its query gets no reminder though one applied at every
  moment.  A lost reply to the registration locks the client out, as documented.

Notices and the schedule:

- When a collision disappears and comes back its ledger is created anew and its
  versions repeat, so that a pass of the old one may write into the new one.
- A pass that overlaps another after the client narrowed its creators sends two notices
  with different keys.  A lost progress write adds an attempt beyond `MAX_ATTEMPTS`.
  `now` is read once, so a notice may go out after the start.
- A notice is forgotten when the write of its ledger failed and the next derivation finds
  no ledger (`simultaneous_dispatcher.py:168` says it "can never lose a notice"), when a warm
  container still remembers a returned collision as settled, or when an overlapping
  run compares with another base.
- With an unreadable heartbeat the revision is the run's own clock, and content of an
  older refresh may replace a newer one.

New videos:

- A claim is dated with the tick: a run served more than 20 minutes late makes claims
  that are born expired, and overlapping runs push twice, although the comment calls the claim
  "the atomic gate" (`new_video_dispatcher.py:337`).  The instance keeps `MaxLag` below the expiry.
- "An event still waiting is delivered normally", says the module's docstring, but
  `is_new_video_after_activation` suppresses one from before the activation.
- When the preference write fails after the slots changed, slots of the stored preference are
  not indexed; overlapping PUTs of two devices can leave the switch ON with an empty index.
- The plain announcement may follow the archive message when the first was held back or failed
  (`new_video_dispatcher.py:267`), although its comment calls it stale by then.
- A push that was accepted and whose answer timed out counts as failed: its claim is
  released (`new_video_dispatcher.py:371-374`) and the next slot shows the video again.  The sender's
  comment (`push_sender.py:201-202`) rules out only the immediate resend.  `unsure` counts it.
- A confirm that fails ends the run for the recipients after it, and its video is pushed again
  once the claim has expired.

Livestreams:

- A live stream that Holodex loses while its probe fails is not watched until it is listed again.
- Holodex may lag: an end older than `RECENTLY_ENDED_EXPOSE` (24 h) that is still listed is
  shown live again, and one it still lists after the retention is recorded again.
- A cached answer (an hour) may be stored after a Premiere has started; the running Premiere
  is then dropped from the list as an upload.
- A request that reads the heartbeat before a refresh and the list after it serves a list
  by the age of the older one.

Home:

- An announced Premiere is not listed between the ranking after its announcement and the
  ranking after its upload (`provisional_discoveries.py:46`).
- The lifecycle forgets an end after 36 h (`livestream_lifecycle.py:158`): one verified in the
  evening and followed by a failed daily run is shown live again until the next run,
  although the comment there allows for "a missed day".  `missed` excuses it, and `unsettled`
  a failed manifest patch.
- A video of the backlog that was published before the anchor and discovered after it
  gets its lifetime's views as growth; one discovered between the daily run and
  midnight has no growth in its first ranking.
- Overlapping discoveries, a failed or a dropped decision may record a second event on another
  date (`excused`); the dispatcher tells them by the video and sends one message.

## Proofs

`HistoryPipeline_proofs` proves, for every set of executions and shards, every
number of attempts and slots, and all lease lengths that satisfy the assumptions
of the two modules:

- `TypeCorrect`: `Spec => []TypeOK`;
- `LeaseSafe`: `Spec => []LeaseOutlivesRun`;
- `CompleteFrozen`: `Spec => CompleteIsFrozen`.

`LeaseOutlivesRun` (whoever collects or reduces owns a live lease) is not
inductive: it does not say why the lease is still alive.  `LeaseInv` adds five
things: no invocation is older than its limit (`Timely`), no lease
reaches further than the longest one (`LeaseBounded`), which invocations an
execution in a given state may have (`LambdasFollowExec`, `RunningHaveLambda`,
`ReduceHasLambda`, `MapUnfinished`), the row belongs to whoever works
(`WorkingOwnsRow`), and the lease reaches past the deadline of every awaited
invocation plus all the attempts its shard has left (`LeaseAhead`).  The last is
where the margins of the comment above `ACQUIRE_LEASE_SECONDS` enter, as
`LeaseMarginAssumption`.  The proof has a step per action for each part.

A second part goes on from `LeaseInv`:

- `CompleteCollected`: `Spec => []CompleteMeansCollected`;
- `RankingsCover`: `Spec => []RankingsCoverRun`;
- `ClaimImplemented`: `Spec => ImplementsClaim`, the refinement of `ReportDateClaim`.

`CollectInv` says how far an invocation has come (`StepsInOrder`), that the row of
an execution has every shard the execution was told is done (`RowRecords`), that
those are stored, and that the acquire comes before everything else, so that the
row it writes forgets nothing (`AcquireComesFirst`).  In the refinement every step
of the pipeline claims, begins, leaves, releases, closes or stutters; that a lapse
or a failure of the lock never happens under a working execution is `LeaseInv`.

`TrackingManifest_proofs` proves, for every number of videos, shards, workers,
discoveries, dates and failures:

- `TypesHold`: `Spec => []TypeOK`;
- `NeverAppliedTwice`: `Spec => []ObservedOnce`;
- `EventsComeFirst`: `Spec => []EventsFirst`;
- `TrackedForGood`: `Spec => TrackedStays`.

`ObservedOnce` bounds a row's count by the observations of its video, and the
row comes from a worker's `updates`, which come from a daily shard that may have
been written by another run.  `CountInv` therefore says that daily shards and the
rows a worker holds were really observed (`DailyReal`, `RunsReal`) and that every
update in flight is counted (`RunsReal`), and it carries the types along,
because that a count stays in its range is a consequence.  The heart of it is
`CountOneMore`: a row classified from an observation newer than the row has one
observation more behind it.

`CatalogInv` adds that the videos a discovery upserts were announced or belong to
the backlog, and that the updates of a worker are observed states: so neither an
upsert nor a patch, applied to whatever the shard has become, can lose what the
properties protect.

`ReminderDelivery_proofs` proves, for every number of clients, containers,
starts, runs, edits and faults:

- `TypesHold`, `ClaimsAreOwned`, `RemindedOnce`: `TypeOK`, `SenderOwnsClaim` and
  `OnePushPerOutcome` always hold;
- `DeliveredStays`: `Spec => DeliveredIsFinal`;
- `RecoveredOnlyIfWanted`: `Spec => []RecoveredWasWanted`;
- `AdvancedOnce`: `Spec /\ StartsRemembered => []NoSecondAdvance`, and
  `AdvancedOnceWithRoom`: the same without the hypothesis when `MaxEdits <= MaxPrior`.

A claim is dated with the start of the run, a run is gone after `LambdaLimit`
(`RunsInTime`), and `LambdaLimit < ClaimExpiry`: so the claim of a task that still
sends has not expired, nobody else can take it, and each push is accounted for by the
row or by the task about to confirm it (`PushesCounted`).  `WantedInv` reads a
client's past wishes off the dates of the records: an edit dates its record with the
current minute, so a record that asks for an earlier minute asked for it then
(`RecordsWanted`), and so does the mixture of reads a task decides by
(`TasksWanted`).  `StartsRemembered` says that the schedule forgets no start of the
stream; the code keeps the last eight (`MAX_PRIOR_START_MINUTES`,
`live_reminder.py:187`) and says that it may announce a stream moved more often
than that again.  `KnownInv` is then that a row tells of a start the schedule knows,
and that a start a run does not know of was delivered while the run was under way.

`StreamSchedule_proofs` proves, for every set of streams, listings, containers and
refreshes, `EntriesAreAsNew` (`[]NeverClaimsNewer`), `EntriesGoForward`
(`NeverGoesBack`) and `NoticeStaysListed` (`[]NoticeNotForgotten`).  `DerivedInv` bounds
the revision of a stored or derived schedule by the refresh its entries are from
(`Sound`), and says what a run knows at each of its steps (`Fits`); `OwedKept` says that
every run that may still write has an announced notice among its pending ids or
finds it new, and that no container remembers it as settled.

`SimultaneousNotice_proofs` proves, for every number of clients, containers, chunk
and work-list sizes, lease lengths, attempts, passes and faults:

- `TypesHold`, `NotifiedOnce`, `SettledServed`, `AttemptsAreBounded`: `TypeOK`,
  `OneNoticePerOutcome`, `SettledMeansServed` and `AttemptsBounded` always hold;
- `SettledStays`: `Spec => SettledIsFinal`.

The lease may end before the pass that took it, so what keeps two passes apart is
the version: a pass at work whose version is the ledger's is the only one, and its
copy is the ledger (`VersionsTell`).  `OwedInv` says that no copy of the ledger, stored or held
by a pass, owes anything to somebody it does not list: whoever wants the notice was dealt
with, is in its work list or is beyond its cursor.  `TriedInv` counts a client's attempts: those the
ledger tells of, one for each lost write, and one for each pass at work that may have
tried the client.

`Notifications_proofs` proves about the three parts of MCNotifications, for every set of
containers, starts, devices, streams and settings and every number of edits and faults.  Of
the new-video delivery, for every set of events and slots:

- `NoBacklogEver`: `Spec => []NoBacklog`;
- `PushedOnce`: `Spec => []OnePushPerConfirmation`, if `MaxLag <= ClaimExpiry`;
- `CacheIsSettled`: `Spec => []RememberedIsSettled`, if `MaxLag <= ClaimExpiry`.

`NewsInv` bounds what was found before the switch was on by the activation that the stored
preference, the PUT in flight and each run carry.  `OwnerInv` says that whoever sends
owns the claim, alone, and that an event was pushed no more often than `unsure` counts unless
it is delivered or about to be confirmed; the hypothesis is needed because a claim is dated with the
tick, and a run that is later than a claim lasts makes claims that are born expired
(see "New videos" among the divergences above).  `NoEditLosesVideos`
(`Spec => [](SyncKeepsSlots /\ NothingLostByEdits)`) needs no hypothesis: `EditInv` says that
no activation in the index, nor one a PUT or a run carries, is later than the discovery of a
video that was wanted ever since, and that a PUT has its new slots in the index before it
removes any other.

Of the three parts together:

- `VideosReachTheClient`: `MCSpec => []NoVideoIsLost`, if `MaxLag <= ClaimExpiry`;
- `RemindersHold`: `MCSpec => []RemindersAreSound`;
- `NoMarkerSkipsAPremiere`: `MCSpec => MarkerPassesPremieres`.

`SentOnce` relates the pushes of a save to what became of it, and says nothing of the runs in
between.  `ReminderInv` follows one save from the stored item through the runs that hold
a copy of it to its delivery row: copies of a save agree (`SavesAgree`), a run that pushes
or consumes owns the row (`RowsOwned`), and a save that was pushed is consumed, or is being
consumed, and its row takes no other claim as long as somebody holds it (`PushesSettled`).
`DuesFaced` says that a run whose end would move the marker past a due minute still has it
before itself.  The arithmetic enters through `ReminderAssumption`: two lives of the Lambda fit
into a claim's expiry (2 * 5 <= 20 minutes), the grace of a start is at most the time the
schedule carries a start forward (5 <= 15), and something is sent only while some of the
run's time remains.  `SettingsInv` says that what a lookup has read and nobody
changed since is what is stored, so that `resolve` answers from the stored settings.

`ReadApi_proofs` proves about the three parts of MCLivestreams, for every set of streams,
answers, clocks, caches and faults:

- `EveryStreamIsFollowed`: `MCSpec => []FollowedToTheEnd`;
- `TheServedListIsSound`: `MCSpec => []ServedListIsSound`;
- `WhatIsSettledStands`: `MCSpec => SettledStands`.

`CompletionInv` adds to `NotForgotten` where a stream that was followed is to be found after each
half of a cycle's two writes, and what the ended map, the archive entries and the watches
hold of it.  `SnapInv` says that a request no refresh overtook holds the stored list
(`ReaderConfirmed`), so that the heartbeat it read confirms it.  `ListInv` says of each step of a request
what it has already hidden, fetched or taken from a cache (`WindowOK`, `HiddenOK`, `AgreesOK`,
`RunningOK`).

It proves about the three parts of MCHome, for every set of videos, kinds, counts, periods,
discoveries, runs and shards, every mode of the backfill, every clock, store size and number of
attempts and faults:

- `HomeShowsWhatIs`: `HomeSpec => []HomeIsSound`;
- `WhatHomeShowedStands`: `HomeSpec => ShownStands`.

The three parts, each with an invariant of its own:

- `CatInv`: the properties speak of what a request answers from five sources, so the invariant
  relates the sources.  No view is counted twice because each video has a curve of what it had gained
  by the end of each day (`Curve`): it never falls, it ends at what was gained, a shard that
  was not observed lags behind it by no more than the row in Video Master does, and the growth a ranking shows is at most what the
  curve rises in that period.  The curve is a witness, not a variable; each step gives a new one (`CatCounts`).  Periods that do
  not overlap are then disjoint stretches of one curve, and `ShownViews` maps into it one to one.  No broadcast that
  is over is listed as in progress because whatever still says so is of a daily run before the
  archive was verified (`CatRelapse`), and days between a ranking and today have one, or were missed
  (`CatDays`).  A request's list is described row by row (`RowIs`, `ListIs`); when a video counts as NEW
  then follows from the stored records alone (`NewTime`), whichever source its row came from, and no
  step moves it back.  That a ranking and its filtered form are in one order needs an order to exist,
  which `RanksExist` shows as `OrderExists` does below.
- `FoundInv` says of every discovery what it has read and worked out (`FoundRunOK`), and of every
  video that nothing has excused (`FoundVideo`): only one discovery is on its way, what that one
  takes for undecided is undecided (`FoundClaims`), and an event without an entry or a decision is in
  the hand of a discovery that is about to make it known (`Holds`).
- `TopicInv` says of every row and entry that nobody else wrote what has become of it: it waits as
  the run read it, it is settled, or the run has counted it as left over, and each shard a run is
  done with is reconciled.

The assumptions are `CatalogAssumption`, `PremiereAssumption` and `TopicAssumption`: constants of
the right types; a day has at least two moments, and the lifecycle remembers an end for at least a day
(36 hours); a video without a row has no manifest entry.

`Collection_proofs` proves about the four parts of MCCollection, for every set of videos,
creators, runs and dates, all lengths of cycles, streaks, batches and retries, every answer of
YouTube and every number of faults:

- `WhatIsCollectedIsAccountedFor`: `MCSpec => []CollectionIsSound`;
- `ACompleteDayStands`: `MCSpec => CompleteDayIsFinal`.

None of the four parts' properties is inductive, since each speaks of an end and not of the way:

- `CycleInv`: no day of its cycle has come since a video was last asked (`NotDueSince`), and the
  streak of a video is what its refreshes have earned (`Earned`).  `WaitsOneCycle` follows by
  division: a cycle's length after the day a video was asked there was a day of its slot.
- `DayInv`: what a run carries accounts for everything it was asked to collect, at every step and
  through both passes (`DayRunOK`); it marks the day only after it has stored what it will name
  (`Stores`); and unless two runs met, the summary is that of the run that saves (`SavesAlone`).
- `FillInv`: what a plan or a shard that was read still has to do with the two stored copies, which
  others have written since (`FillRunOK`).  A classification is only ever filled in, never taken
  back (`Moves`), so a read that is old is poorer, but not wrong.
- `BoardInv`: who is known, asked, found and skipped are different creators (`BoardRunOK`); every
  answer is stored, lost with a failed write, or in hand (`AnswersOK`); and a result is what the
  snapshots said when it was built, which still holds of later ones because a snapshot only gains
  rows (`ResultOK`).  That ranks count the creators ahead needs an order to exist, which
  `OrderExists` shows by giving each creator the place after those ahead of it.

The assumptions are `CollectionAssumption`, the conjunction of those of the modules: constants of
the right types, cycles of at least a day, no more snapshots asked of a quiet video than its
streak leaves (3 against 2 quiet refreshes), and stores in which, at first, no classification contradicts another (the backfills fill in what is
missing and say that they settle no disagreement).

Only model-checked:

- `MarkerPassesServed`: it speaks of every minute between two markers, cut up by `%` in `Instants`,
  and of all the stages of all the tasks of a run at once;
- liveness (`EveryVideoTracked`, `CatchesUp` and the others), which the prover cannot do.

## Plan

Most important behaviour first; each module is written with CONSTANTS and named
assumptions, one action per operation and no RECURSIVE operator.

1. *Done*: ExecutionLock, ReportDateClaim, HistoryPipeline, TrackingManifest and their proofs.
2. *Done*: DeliveryLog and its users ReminderDelivery, SimultaneousNotice, NewVideoDelivery,
   PremiereReminder; ReminderSettings.
3. *Done*: StreamSchedule, LivestreamCompletion, LiveSnapshot, LiveList.
4. *Done*: DailyCollection, TrackingSchedule, VideoClassification, SubscriberLeaderboard,
   PremiereAnnouncement, TopicBackfill, CreatorVideos over YoutubeClient.
5. *Done*: the proofs of ReminderDelivery, the claim of a report date, StreamSchedule,
   SimultaneousNotice, NewVideoDelivery, and of the composed runs `livestreams`,
   `notifications`, `collection` and `home`.

## Not modelled

Content stores, video search, notification wording, the heartbeat and the emergency
stop, deployment, one-off scripts and the dashboard: they are pure, or read and write
whole documents with no protocol, and their tests reach what can go wrong.  Of the
components that are modelled in part: HTTP, parsing, signing and encryption; validation of
request bodies; formats of the stored files; the order of ties; mute and quiet hours of
new videos, which are a free choice; Shorts in the new-video delivery; API responses
that are returned as stored; and the quota's retry intervals and cost model, which no
deployed code calls.  Eventually consistent reads of the indexes are modelled as current.
Liveness under fairness is checked by TLC only.
