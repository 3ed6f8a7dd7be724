-------------------------------- MODULE MCHome --------------------------------
\* What Home shows of a creator: the lists of videos (CreatorVideos), the Premieres
\* that are announced before they are uploads (PremiereAnnouncement) and the topics
\* (TopicBackfill). The models share no variable, so the steps of one say nothing about
\* another: "page" moves and the others stay in one of their initial states.
EXTENDS Integers, FiniteSets

CONSTANTS
    \* the lists (CreatorVideos)
    HomeVideos, RankedVideos, HomeKinds, ViewCounts, Periods, PerDay, ReportLookback, HomeEventDates,
    EndedRetention, HomeMaxNow, HomeFaults,
    \* the Premieres (PremiereAnnouncement)
    Discoveries, FoundVideos, FoundKind, FirstTimes, WindowsPerDay, MaxAttempts, MaxEntries, FoundEventDates,
    FoundMaxNow, FoundFaults,
    \* the topics (TopicBackfill)
    TopicRuns, TopicVideos, Topics, Title, Shards, ShardOf, FirstMaster, FirstEntry, Modes, MaxErrors,
    TopicFaults

\* One video, of any kind.
MCHomeKinds == {<<k>> : k \in {"premiere", "stream", "upload", "short"}}
MCFoundKind == <<"premiere", "stream">>

\* The topic backfill: a plain run, a reclassification of one topic and a dry run; a
\* row without a valid topic, and one that is classified or not there yet.
Mode(execute, reclassify, only) ==
    [execute |-> execute, reclassify |-> reclassify, manifest |-> TRUE, only |-> only]
MCModes == {Mode(TRUE, FALSE, "any"), Mode(TRUE, TRUE, "mv"), Mode(FALSE, TRUE, "any")}
MCTitle == <<"mv", "game">>
MCShardOf == <<0, 1>>
MCFirstMaster == <<{"none", "bad", "malformed"}, {"mv", "absent"}>>
MCFirstEntry == <<{"none"}, {"mv", "absent"}>>

VARIABLES
    page,
    homeNow, homeKind, homePhase, homeMaster, homeManifest, homeEvents, shards, rankings, archives,
    archiveTimes, verified, gained, missed, unsettled, homeLost,
    foundNow, foundStart, foundMaster, foundManifest, foundEvents, decisions, version, ranking,
    discovery, excused, premieresAnnounced, foundLost,
    topicMaster, topicManifest, topicRun, held, topicLost

homeVars == <<homeNow, homeKind, homePhase, homeMaster, homeManifest, homeEvents, shards, rankings,
              archives, archiveTimes, verified, gained, missed, unsettled, homeLost>>
foundVars == <<foundNow, foundStart, foundMaster, foundManifest, foundEvents, decisions, version,
               ranking, discovery, excused, premieresAnnounced, foundLost>>
topicVars == <<topicMaster, topicManifest, topicRun, held, topicLost>>

Home == INSTANCE CreatorVideos WITH
    now <- homeNow, kind <- homeKind, phase <- homePhase, master <- homeMaster, manifest <- homeManifest,
    events <- homeEvents, results <- rankings, times <- archiveTimes, ended <- verified, faults <- homeLost,
    Videos <- HomeVideos, Kinds0 <- HomeKinds, Counts <- ViewCounts, Lookback <- ReportLookback,
    MaxEventDates <- HomeEventDates, Retention <- EndedRetention, MaxNow <- HomeMaxNow, MaxFaults <- HomeFaults

Announcement == INSTANCE PremiereAnnouncement WITH
    now <- foundNow, start <- foundStart, master <- foundMaster, manifest <- foundManifest,
    events <- foundEvents, run <- discovery, announced <- premieresAnnounced, faults <- foundLost,
    Runs <- Discoveries, Videos <- FoundVideos, Kind <- FoundKind, FirstStart <- FirstTimes,
    MaxEventDates <- FoundEventDates, MaxNow <- FoundMaxNow, MaxFaults <- FoundFaults

Topic == INSTANCE TopicBackfill WITH
    master <- topicMaster, manifest <- topicManifest, run <- topicRun, faults <- topicLost,
    Runs <- TopicRuns, Videos <- TopicVideos, MaxFaults <- TopicFaults

ASSUME HomeAssumption ==
    Home!CatalogAssumption /\ Announcement!PremiereAssumption /\ Topic!TopicAssumption

HomeInit ==
    /\ Home!Init /\ Announcement!Init /\ Topic!Init
    /\ page \in {"list", "premiere", "topic"}
    /\ page # "list" => homeKind = CHOOSE k \in HomeKinds : TRUE
    /\ page # "topic" => \A v \in TopicVideos :
          /\ topicMaster[v] = CHOOSE topic \in FirstMaster[v] : TRUE
          /\ topicMaster[v] # "absent" => topicManifest[v] = CHOOSE topic \in FirstEntry[v] : TRUE

HomeNext ==
    \/ page = "list" /\ Home!Next /\ UNCHANGED <<page, foundVars, topicVars>>
    \/ page = "premiere" /\ Announcement!Next /\ UNCHANGED <<page, homeVars, topicVars>>
    \/ page = "topic" /\ Topic!Next /\ UNCHANGED <<page, homeVars, foundVars>>

HomeSpec == HomeInit /\ [][HomeNext]_<<page, homeVars, foundVars, topicVars>>

\* Home lists each video once and as what it is, with its views counted once
\* (read_api.py); a Premiere is recorded once, and what is announced is shown
\* (premiere_announcements.py); a topic backfill that says COMPLETE leaves no work
\* (backfill_video_topics.py).
HomeIsSound ==
    /\ page = "list" => Home!CatalogIsSound
    /\ page = "premiere" => Announcement!PremieresAreSound
    /\ page = "topic" => Topic!TopicsAreSound

\* What was shown or decided stands: the NEW time of a video
\* (_with_durable_premiere_archive_times) and the decision about a Premiere
\* (record_decisions).
ShownStands == Home!NewTimesHold /\ Announcement!DecisionsStand
===============================================================================
