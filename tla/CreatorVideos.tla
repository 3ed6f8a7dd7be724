--------------------------- MODULE CreatorVideos ---------------------------
(***************************************************************************)
(* The videos of one creator as Home shows them: the daily run observes    *)
(* them or carries their last counts forward (collection/history_worker),  *)
(* builds one ranking per report date (analytics/ranking_reducer,          *)
(* video_ranking, history_ranking), and the read API (api/read_api) serves *)
(* the newest one, topped up with the archives the livestream lifecycle    *)
(* has verified and with what discovery found since.                       *)
(*                                                                         *)
(* Time is counted in quarters of a day; the daily run is in the last one. *)
(* What is modelled elsewhere is one step here: the lock and the shards of *)
(* the run (HistoryPipeline), the other writers of a classification        *)
(* (VideoClassification), the completion cycle (LivestreamCompletion) and  *)
(* the announcement of Premieres (PremiereAnnouncement).  The API's caches *)
(* of minutes are left out.                                                *)
(***************************************************************************)
EXTENDS Integers, YoutubeClient

CONSTANTS
    Videos,
    RankedVideos,   \* the videos of the rankings that are compared, numbered in the order of their ids
    Kinds0,         \* what the videos may be: functions from Videos to kinds
    Counts,         \* view counts
    Periods,        \* EXACT_ANCHOR_DAYS
    PerDay,         \* moments of a day; the daily run is in the last
    Lookback,       \* LATEST_REPORT_LOOKBACK_DAYS
    MaxEventDates,  \* _MAX_EVENT_DATES
    Retention,      \* RECENTLY_ENDED_RETENTION
    MaxNow,         \* bound of the time
    MaxFaults       \* missed days, and writes to the manifest that fail

CatalogAssumption ==
    /\ IsFiniteSet(Videos) /\ IsFiniteSet(RankedVideos) /\ RankedVideos \subseteq Int
    /\ Kinds0 # {} /\ Kinds0 \subseteq [Videos -> Kinds]
    /\ Counts \subseteq Nat /\ Periods \subseteq Nat \ {0}
    /\ PerDay \in Nat \ {0, 1} /\ Lookback \in Nat \ {0} /\ MaxEventDates \in Nat \ {0}
    /\ Retention \in Nat /\ Retention >= PerDay     \* 36 hours, and a day
    /\ MaxNow \in Nat /\ MaxNow >= PerDay - 1 /\ MaxFaults \in Nat

None == -1
Date(t) == t \div PerDay
DailyRunAt(t) == t % PerDay = PerDay - 1
Days == 0..Date(MaxNow)

VARIABLES
    now,
    kind, phase,    \* what YouTube shows
    master,         \* Video Master: video -> [class, found, views], for those discovered
    manifest,       \* the tracking manifest: video -> [class, found]
    events,         \* discovery events: [v, date, found, announced]
    shards,         \* date -> the rows of its daily shard, video -> views
    results,        \* date -> its video ranking, a set of rows
    archives,       \* the lifecycle's verified archives: video -> when
    times,          \* premiereArchiveTimes: video -> when
    ended,          \* history: the broadcasts whose archive was verified
    gained,         \* history: the views YouTube has shown each video to gain
    missed,         \* history: the days without a ranking
    unsettled,      \* history: the videos whose manifest entry a failed write left behind
    faults

world == <<kind, phase>>
catalog == <<master, manifest, events>>
daily == <<shards, results, gained, missed, unsettled>>
lifecycle == <<archives, times, ended>>
vars == <<now, world, catalog, daily, lifecycle, faults>>

\* contentType and liveStatus in one value, as in VideoClassification.
InProgressStatuses == {"upcoming", "live"}
Classes == {"none", "upload", "short", "completed"} \cup InProgressStatuses
Premiere(v) == kind[v] = "premiere"
Broadcast(v) == kind[v] \in {"stream", "premiere"}
Observed(v) == Classification(Item(kind[v], phase[v]))

With(f, g) == [v \in DOMAIN f \cup DOMAIN g |-> IF v \in DOMAIN g THEN g[v] ELSE f[v]]
NoMap == [v \in {} |-> 0]

Init ==
    /\ now = PerDay - 1
    /\ kind \in Kinds0
    /\ phase = [v \in Videos |-> "upcoming"]
    /\ \E legacy \in SUBSET {v \in Videos : kind[v] = "upload"} :     \* no time of discovery was kept
        /\ master = [v \in legacy |-> [class |-> "none", found |-> None, views |-> None]]
        /\ manifest = [v \in legacy |-> [class |-> "none", found |-> None]]
    /\ events = {}
    /\ shards = NoMap /\ results = NoMap
    /\ archives = NoMap /\ times = NoMap /\ ended = {}
    /\ gained = [v \in Videos |-> 0]
    /\ missed = {} /\ unsettled = {}
    /\ faults = 0

-----------------------------------------------------------------------------
(***************************************************************************)
(* Broadcasts, their announcement and their discovery                      *)
(***************************************************************************)
Broadcasts(v) ==
    /\ Broadcast(v) /\ phase[v] # "ended"
    /\ phase' = [phase EXCEPT ![v] = IF @ = "upcoming" THEN "running" ELSE "ended"]
    /\ UNCHANGED <<now, kind, catalog, daily, lifecycle, faults>>

Event(v, announced) == [v |-> v, date |-> Date(now), found |-> now, announced |-> announced]
Recorded(v) == \E e \in events : e.v = v

Announce(v) ==
    /\ Premiere(v) /\ phase[v] = "upcoming" /\ v \notin DOMAIN manifest /\ ~Recorded(v)
    /\ events' = events \cup {Event(v, TRUE)}
    /\ UNCHANGED <<now, world, master, manifest, daily, lifecycle, faults>>

\* A Short is known by the Shorts shelf; the others are not classified yet.
Discover(v) ==
    /\ v \notin DOMAIN manifest
    /\ Broadcast(v) => phase[v] # "upcoming"
    /\ LET class == IF kind[v] = "short" THEN "short" ELSE "none" IN
        /\ master' = With(master, [w \in {v} |-> [class |-> class, found |-> now, views |-> None]])
        /\ manifest' = With(manifest, [w \in {v} |-> [class |-> class, found |-> now]])
    /\ events' = IF Recorded(v) THEN events ELSE events \cup {Event(v, FALSE)}
    /\ UNCHANGED <<now, world, daily, lifecycle, faults>>

-----------------------------------------------------------------------------
(***************************************************************************)
(* The history worker of the day                                           *)
(***************************************************************************)
SelectClassificationDueIds(entries) ==
    {v \in DOMAIN entries : entries[v].class \in InProgressStatuses \cup {"none"}}

\* Yesterday's row, or the last count Video Master holds.
PreviousShard == IF Date(now) - 1 \in DOMAIN shards THEN shards[Date(now) - 1] ELSE NoMap
LastKnown(v) == IF v \in DOMAIN PreviousShard THEN PreviousShard[v] ELSE master[v].views
CarryForwardNonDueRows(nonDue) == [v \in {w \in nonDue : LastKnown(w) # None} |-> LastKnown(v)]

\* A view count grows, and is now and then corrected downwards.
NextCounts(v) == IF master[v].views = None THEN Counts
                 ELSE {c \in Counts : c >= master[v].views - 1 /\ c <= master[v].views + 1}

\* What the observation of v makes of its classification: a Short stays one, and so
\* does an upload that runs as a Premiere.
Settled(v) == IF \/ master[v].class = "short" /\ Observed(v) = "upload"
                 \/ master[v].class = "upload" /\ Observed(v) = "live"
              THEN master[v].class ELSE Observed(v)

Gain(v, count) == IF master[v].views = None THEN count
                  ELSE IF count > master[v].views THEN count - master[v].views ELSE 0

CollectHistoryShard ==
    /\ DailyRunAt(now) /\ Date(now) \notin DOMAIN shards
    /\ \E due \in SUBSET DOMAIN manifest :
        /\ SelectClassificationDueIds(manifest) \subseteq due
        /\ LET carried == CarryForwardNonDueRows(DOMAIN manifest \ due)
               asked == DOMAIN manifest \ DOMAIN carried      \* due, or nothing to carry
           IN \E got \in SUBSET asked : \E counts \in [got -> Counts] : \E patched \in BOOLEAN :
                /\ \A v \in got : counts[v] \in NextCounts(v)
                /\ shards' = With(shards, [d \in {Date(now)} |-> With(carried, counts)])
                /\ master' = With(master, [v \in got |->
                     [master[v] EXCEPT !.class = Settled(v), !.views = counts[v]]])
                /\ gained' = [v \in Videos |-> gained[v] + (IF v \in got THEN Gain(v, counts[v]) ELSE 0)]
                /\ IF patched
                   THEN /\ manifest' = With(manifest, [v \in got |-> [manifest[v] EXCEPT !.class = Settled(v)]])
                        /\ UNCHANGED <<unsettled, faults>>
                   ELSE /\ got # {}
                        /\ faults < MaxFaults /\ faults' = faults + 1
                        /\ unsettled' = unsettled \cup got
                        /\ UNCHANGED manifest
    /\ UNCHANGED <<now, world, events, results, missed, lifecycle>>

-----------------------------------------------------------------------------
(***************************************************************************)
(* The ranking of the day                                                  *)
(***************************************************************************)
\* UNKNOWN_DISCOVERED_DATE, None here, is after no date.
DiscoveredDate(v) == IF v \in DOMAIN manifest /\ manifest[v].found # None THEN Date(manifest[v].found) ELSE None

\* Mutant: a missing anchor is a baseline of zero.
PeriodValueOfAnything(latest, anchor, anchorDate, discovered) ==
    IF anchor # None THEN [known |-> TRUE, gain |-> latest - anchor] ELSE [known |-> TRUE, gain |-> latest]
PeriodValue(latest, anchor, anchorDate, discovered) ==
    IF anchor # None THEN [known |-> TRUE, gain |-> latest - anchor]
    ELSE IF discovered # None /\ discovered > anchorDate THEN [known |-> TRUE, gain |-> latest]
    ELSE [known |-> FALSE, gain |-> 0]

AnchorCount(d, v) == IF d \in DOMAIN shards /\ v \in DOMAIN shards[d] THEN shards[d][v] ELSE None

\* The anchor each period counts from, None for a gap.
ExactAnchors(d, v) == [p \in Periods |->
    LET value == PeriodValue(shards[d][v], AnchorCount(d - p, v), d - p, DiscoveredDate(v))
    IN IF value.known THEN shards[d][v] - value.gain ELSE None]

BuildCreatorVideoCatalog(d) ==
    {[v |-> v, class |-> IF v \in DOMAIN manifest THEN manifest[v].class ELSE "none",
      found |-> IF v \in DOMAIN manifest THEN manifest[v].found ELSE None,
      views |-> shards[d][v], anchors |-> ExactAnchors(d, v)] : v \in DOMAIN shards[d]}

\* A creator without a row today gets no result.
BuildAndPersistVideoRankings ==
    /\ DailyRunAt(now) /\ Date(now) \in DOMAIN shards \ DOMAIN results
    /\ DOMAIN shards[Date(now)] # {}
    /\ results' = With(results, [d \in {Date(now)} |-> BuildCreatorVideoCatalog(d)])
    /\ UNCHANGED <<now, world, catalog, shards, gained, missed, unsettled, lifecycle, faults>>

-----------------------------------------------------------------------------
(***************************************************************************)
(* The lifecycle verifies the archive of a broadcast that is over, keeps   *)
(* it for a while, and the time of a Premiere's for good.                  *)
(***************************************************************************)
VerifyArchive(v) ==
    /\ Broadcast(v) /\ phase[v] = "ended" /\ v \notin ended
    /\ ended' = ended \cup {v}
    /\ archives' = With(archives, [w \in {v} |-> now])
    /\ master' = IF v \in DOMAIN master /\ master[v].class \in InProgressStatuses
                 THEN [master EXCEPT ![v].class = IF Premiere(v) THEN @ ELSE "completed"] ELSE master
    /\ UNCHANGED <<now, world, manifest, events, daily, times, faults>>

RecordPremiereArchiveTime(v) ==
    /\ Premiere(v) /\ v \in DOMAIN archives \ DOMAIN times
    /\ times' = With(times, [w \in {v} |-> archives[w]])
    /\ UNCHANGED <<now, world, catalog, daily, archives, ended, faults>>

\* Every cycle retries the times; a day that ends without a ranking is missed.
Tick ==
    /\ now < MaxNow
    /\ \A v \in DOMAIN archives : Premiere(v) => v \in DOMAIN times
    /\ now' = now + 1
    /\ IF Date(now + 1) # Date(now) /\ Date(now) \notin DOMAIN results /\ DOMAIN manifest # {}
       THEN /\ faults < MaxFaults /\ faults' = faults + 1
            /\ missed' = missed \cup {Date(now)}
       ELSE UNCHANGED <<faults, missed>>
    /\ archives' = [v \in {w \in DOMAIN archives : now + 1 - archives[w] <= Retention} |-> archives[v]]
    /\ UNCHANGED <<world, catalog, shards, results, gained, unsettled, times, ended>>

Next ==
    \/ \E v \in Videos : \/ Broadcasts(v) \/ Announce(v) \/ Discover(v)
                         \/ VerifyArchive(v) \/ RecordPremiereArchiveTime(v)
    \/ CollectHistoryShard \/ BuildAndPersistVideoRankings \/ Tick

Spec == Init /\ [][Next]_vars

-----------------------------------------------------------------------------
(***************************************************************************)
(* GET /creators/{creatorId}/videos/recent: the newest result, topped up.  *)
(***************************************************************************)
ReportDates == {d \in DOMAIN results : d > Date(now) - Lookback}
Ready == ReportDates # {}
ReportDate == Max(ReportDates)

Row(v, class, found) ==
    [v |-> v, class |-> class, found |-> found, archived |-> None, provisional |-> FALSE, announced |-> FALSE]

PersistedRows(d) == {Row(row.v, row.class, row.found) : row \in results[d]}
Listed(rows) == {row.v : row \in rows}

\* The time of an archive counts for a Premiere only.
AvailableAt(v) == IF Premiere(v) THEN archives[v] ELSE None

Overlaid(row) ==
    IF row.v \notin DOMAIN archives THEN row
    ELSE IF row.class \in {"completed", "upload", "short"} THEN [row EXCEPT !.archived = AvailableAt(row.v)]
    ELSE [row EXCEPT !.class = IF Premiere(row.v) THEN "upload" ELSE "completed",
                     !.provisional = TRUE, !.archived = AvailableAt(row.v)]

\* What the catalog lacks is added; when it was discovered, Video Master knows.
AddedRow(v) == [Row(v, IF Premiere(v) THEN "upload" ELSE "completed",
                    IF v \in DOMAIN master THEN master[v].found ELSE None)
                EXCEPT !.provisional = TRUE, !.archived = AvailableAt(v)]

WithVerifiedCompletedStreams(rows) ==
    {Overlaid(row) : row \in rows} \cup {AddedRow(v) : v \in DOMAIN archives \ Listed(rows)}

\* The record of a discovered video, once there, is the authority.
ProvisionalRow(e) == [(IF e.v \in DOMAIN master THEN Row(e.v, master[e.v].class, master[e.v].found)
                                                ELSE Row(e.v, "none", e.found))
                      EXCEPT !.provisional = TRUE, !.announced = e.announced]

EventDates(d) == {date \in d..Date(now) : date > Date(now) - MaxEventDates}
WithProvisionalDiscoveries(rows, d) ==
    rows \cup {ProvisionalRow(e) : e \in {f \in events : f.date \in EventDates(d) /\ f.v \notin Listed(rows)}}

WithDurablePremiereArchiveTimes(rows) ==
    {IF row.v \in DOMAIN times /\ row.archived = None THEN [row EXCEPT !.archived = times[row.v]] ELSE row
        : row \in rows}

RecentCreatorVideos ==
    WithDurablePremiereArchiveTimes(
        WithProvisionalDiscoveries(WithVerifiedCompletedStreams(PersistedRows(ReportDate)), ReportDate))

\* NEW counts from the archive of a Premiere, else from the discovery; an announced
\* Premiere is not there to be watched.
Unwatchable(row) == row.provisional /\ row.announced /\ row.class = "none" /\ row.archived = None
NewAt(row) == IF Unwatchable(row) THEN None ELSE IF row.archived # None THEN row.archived ELSE row.found

\* topic, contentType and liveStatus are filters alike: "archived" stands for them.
RowMatchesLiveStatus(row, scope) == scope = "all" \/ row.class \notin InProgressStatuses

-----------------------------------------------------------------------------
(***************************************************************************)
(* GET .../videos/ranking and .../oshi-status, over the same result        *)
(***************************************************************************)
Growth(row, p) == row.views - row.anchors[p]
ViewGrowth(row, p) == IF row.anchors[p] = None \/ Growth(row, p) < 0 THEN 0 ELSE Growth(row, p)

RanksBefore(a, b, p) == Growth(a, p) > Growth(b, p) \/ (Growth(a, p) = Growth(b, p) /\ a.v < b.v)
Rankable(rows, p, scope) == {row \in rows : RowMatchesLiveStatus(row, scope) /\ row.anchors[p] # None}
RankVideoRows(rows, p, scope) ==
    CHOOSE order \in [1..Cardinality(Rankable(rows, p, scope)) -> Rankable(rows, p, scope)] :
        \A i, j \in DOMAIN order : i < j => RanksBefore(order[i], order[j], p)

OshiStatusKind(row) == CASE row.class = "upload" -> "upload"
                         [] row.class = "completed" -> "livestream"
                         [] OTHER -> "none"

-----------------------------------------------------------------------------
(***************************************************************************)
(* Properties                                                              *)
(***************************************************************************)
TypeOK ==
    /\ now \in 0..MaxNow
    /\ DOMAIN manifest = DOMAIN master /\ DOMAIN master \subseteq Videos
    /\ \A v \in DOMAIN master :
        master[v].class \in Classes /\ manifest[v].class \in Classes /\ master[v].found = manifest[v].found
    /\ DOMAIN results \subseteq DOMAIN shards /\ DOMAIN shards \subseteq Days
    /\ \A d \in DOMAIN results : {row.v : row \in results[d]} = DOMAIN shards[d]
    /\ DOMAIN archives \subseteq ended /\ DOMAIN times \subseteq ended

\* Views are counted once: over reports that lie a period or more apart, what they
\* show a video to have gained is no more than YouTube showed it to gain, however many
\* days it was carried forward, was not returned, or had no run (_period_value).
Shown(v, d, p) == LET row == CHOOSE r \in results[d] : r.v = v IN ViewGrowth(row, p)
Apart(dates, p) == \A d, e \in dates : d = e \/ d - e >= p \/ e - d >= p
ShownViews(v, dates, p) == UNION {{d} \X (1..Shown(v, d, p)) : d \in dates}
NoViewsCountedTwice ==
    \A v \in Videos, p \in Periods : \A dates \in SUBSET {d \in DOMAIN results : v \in DOMAIN shards[d]} :
        Apart(dates, p) => Cardinality(ShownViews(v, dates, p)) <= gained[v]

\* A video is on Home's list once, and as what it is: never a Premiere as a livestream
\* that is over, nor a broadcast as live or upcoming once its archive was verified, also
\* when the lifecycle has forgotten it, while no day is missed and no manifest write fails.
Relapsed == {r.v : r \in {s \in RecentCreatorVideos : s.v \in ended /\ s.class \in InProgressStatuses}}
ListedOnceAsItIs == Ready =>
    /\ \A r, s \in RecentCreatorVideos : r.v = s.v => r = s
    /\ \A r \in RecentCreatorVideos : r.class = "completed" => kind[r.v] = "stream"
    /\ Relapsed \cap DOMAIN archives = {}
    /\ missed = {} => Relapsed \subseteq unsettled
    /\ \A r \in results[ReportDate] : OshiStatusKind(r) = "livestream" => kind[r.v] = "stream"

\* A filter takes rows out of a ranking and leaves the order of the others: it is applied
\* before the ranks are given (rank_video_rows), and no row without an anchor has one.
RankableRows == [class : {"live", "upload"}, views : Counts, anchors : [Periods -> Counts \cup {None}]]
FilterKeepsOrder == \A f \in [RankedVideos -> RankableRows], p \in Periods :
    LET rows == {[v |-> v, class |-> f[v].class, views |-> f[v].views, anchors |-> f[v].anchors] : v \in RankedVideos}
        order == RankVideoRows(rows, p, "all")
        filtered == RankVideoRows(rows, p, "archived")
        Places(row) == {i \in DOMAIN order : order[i] = row}
    IN /\ \A row \in rows : Cardinality(Places(row)) = IF row.anchors[p] = None THEN 0 ELSE 1
       /\ \A i, j \in DOMAIN order : i < j => Growth(order[i], p) >= Growth(order[j], p)
       /\ {filtered[i] : i \in DOMAIN filtered} =
             {row \in {order[i] : i \in DOMAIN order} : RowMatchesLiveStatus(row, "archived")}
       /\ \A i, j \in DOMAIN filtered : i < j => \A k \in Places(filtered[i]), l \in Places(filtered[j]) : k < l

\* (FilterKeepsOrder speaks of no variable: the first moment is enough to ask it.)
CatalogIsSound ==
    /\ TypeOK /\ NoViewsCountedTwice /\ ListedOnceAsItIs
    /\ now = PerDay - 1 /\ DOMAIN shards = {} /\ phase = [v \in Videos |-> "upcoming"] => FilterKeepsOrder

\* From answer to answer, what counted as NEW still does, and from the same time on, but
\* for a Premiere, which counts anew from its archive; whether its row comes from the
\* ranking, from the lifecycle's record, or from the discovery.
RowOf(v) == CHOOSE row \in RecentCreatorVideos : row.v = v
NewTimesHold == [][Ready /\ Ready' =>
    \A v \in Listed(RecentCreatorVideos) \cap Listed(RecentCreatorVideos)' :
        LET old == RowOf(v) new == RowOf(v)' IN
        NewAt(old) # None =>
             \/ NewAt(new) = NewAt(old)
             \/ Premiere(v) /\ NewAt(new) = new.archived /\ new.archived >= NewAt(old)]_vars
=============================================================================
