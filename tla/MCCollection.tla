----------------------------- MODULE MCCollection -----------------------------
\* What the daily collection stores: which videos are due (TrackingSchedule), the
\* day's run (DailyCollection), the classification the backfills and the workers leave
\* (VideoClassification) and the leaderboards (SubscriberLeaderboard). The models share
\* no variable, so the steps of one say nothing about another: "part" moves and the
\* others stay in one of their initial states.
EXTENDS Integers

CONSTANTS
    \* the schedule (TrackingSchedule)
    CycleVideos, Hash, PublishedOn, RecentMaxAge, CycleDays, MinSnapshots, QuietHot, QuietWarm, LastDay,
    \* the run of a day (DailyCollection)
    DayRuns, DayVideos, Creators, Uploads, Enabled, Backlog, KnownAtFirst, DayRetries, DayBatch,
    LegacyDate, DayFaults,
    \* the classification (VideoClassification)
    FillRuns, ShortsRuns, FillVideos, Kind, MasterAtFirst, ManifestAtFirst, FillRetries, FillBatch,
    MaxObserved, FillFaults,
    \* the leaderboards (SubscriberLeaderboard)
    BoardCreators, Org, Rosters, Counts, Hidden, Dates, Anchors, BoardBatch, BoardRetries, Lookback,
    MaxRuns, BoardFaults

\* One video is published on the first day and one long before; the digests put
\* them into different slots of every cycle.
MCHash == <<7, 4>>
MCPublishedOn == <<0, -9>>
MCCycleDays == [Unknown |-> 2, Warm |-> 3, Cold |-> 5]

\* Three creators, one of whom shows nothing and one of whom is not enabled.
MCCreators == <<1, 2, 3>>
MCUploads == <<{1}, {}, {2}>>

\* A livestream that the manifest has not classified, a new Short, and a Premiere
\* that its entry calls a broadcast.
MCKind == <<"stream", "short", "premiere">>
MCMasterAtFirst == <<{"live"}, {"none"}, {"none"}>>
MCManifestAtFirst == <<{"none"}, {"none"}, {"bare", "live"}>>

MCOrg == <<"vspo", "hololive", "vspo">>

VARIABLES
    part,
    day, video, seen,
    master, events, manifest, row, stored, run, met, faults,
    phase, fillMaster, fillManifest, fillRun, shorts, worker, unsettled, observed, fillFaults,
    today, snapshots, results, boardRun, answers, lost, runs, boardFaults

cycleVars == <<day, video, seen>>
dayVars == <<master, events, manifest, row, stored, run, met, faults>>
fillVars == <<phase, fillMaster, fillManifest, fillRun, shorts, worker, unsettled, observed,
              fillFaults>>
boardVars == <<today, snapshots, results, boardRun, answers, lost, runs, boardFaults>>

Cycle == INSTANCE TrackingSchedule WITH Videos <- CycleVideos

Collection == INSTANCE DailyCollection WITH
    Runs <- DayRuns, Videos <- DayVideos, MaxRetries <- DayRetries, BatchSize <- DayBatch,
    MaxFaults <- DayFaults

Backfill == INSTANCE VideoClassification WITH
    master <- fillMaster, manifest <- fillManifest, run <- fillRun, faults <- fillFaults,
    Runs <- FillRuns, Videos <- FillVideos, MaxRetries <- FillRetries, BatchSize <- FillBatch,
    MaxFaults <- FillFaults

Leaderboard == INSTANCE SubscriberLeaderboard WITH
    run <- boardRun, faults <- boardFaults,
    Creators <- BoardCreators, BatchSize <- BoardBatch, MaxRetries <- BoardRetries,
    MaxFaults <- BoardFaults

ASSUME CollectionAssumption ==
    /\ Cycle!ScheduleAssumption /\ Collection!DayAssumption /\ Backfill!ClassificationAssumption
    /\ Leaderboard!LeaderboardAssumption

MCInit ==
    /\ Cycle!Init /\ Collection!Init /\ Backfill!Init /\ Leaderboard!Init
    /\ part \in {"cycle", "day", "backfill", "board"}
    /\ part # "day" => row = Collection!NoRow
    /\ part # "backfill" => \A v \in FillVideos : phase[v] = "upcoming"

MCNext ==
    \/ part = "cycle" /\ Cycle!Day /\ UNCHANGED <<part, dayVars, fillVars, boardVars>>
    \/ part = "day" /\ Collection!Next /\ UNCHANGED <<part, cycleVars, fillVars, boardVars>>
    \/ part = "backfill" /\ Backfill!Next /\ UNCHANGED <<part, cycleVars, dayVars, boardVars>>
    \/ part = "board" /\ Leaderboard!Next /\ UNCHANGED <<part, cycleVars, dayVars, fillVars>>

MCSpec == MCInit /\ [][MCNext]_<<part, cycleVars, dayVars, fillVars, boardVars>>

\* What is collected is accounted for: every video waits at most its cycle
\* (is_due_today), the summary of a day explains every video and the quota
\* (save_daily_collection), the leaderboards show what YouTube answered, repaired or
\* not (collect_subscriber_snapshot, build_subscriber_leaderboards), and the two copies
\* of a classification agree after the backfills (backfill_video_classification).
CollectionIsSound ==
    /\ part = "cycle" => Cycle!ScheduleIsSound
    /\ part = "day" => Collection!DayIsSound
    /\ part = "backfill" => Backfill!ClassificationIsSound
    /\ part = "board" => Leaderboard!LeaderboardsAreSound

\* No later or slower run changes the summary of a COMPLETE day (_claim_run_summary).
CompleteDayIsFinal == Collection!CompleteDayIsFinal
===============================================================================
