-------------------------- MODULE DailyCollection --------------------------
(***************************************************************************)
(* The collection run of one day (collection/main.py main): it discovers   *)
(* the videos of each creator in turn, tracks them, asks YouTube for the   *)
(* statistics of those that are due, and saves the day as one run summary  *)
(* and one snapshot per video (stores/dynamodb_store.py).  Runs overlap,   *)
(* die anywhere, and are repeated on the same date.                        *)
(***************************************************************************)
EXTENDS Integers, YoutubeClient

CONSTANTS
    Runs,            \* invocations for the date, a positive number each
    Videos,          \* numbers: the order of their ids
    Creators,        \* a sequence: the active creators in roster order
    Uploads,         \* what YouTube lists of each creator
    Enabled,         \* the creators whose discovery is enabled
    Backlog,         \* videos too old to be announced on a first ingestion
    KnownAtFirst,    \* Video Master before the first run
    MaxRetries,      \* attempts of a call
    BatchSize,       \* MAX_IDS_PER_REQUEST
    LegacyDate,      \* the date is one of KNOWN_INCOMPLETE_LEGACY_DATES
    MaxFaults        \* lost writes and crashes

DayAssumption ==
    /\ Runs \subseteq Nat \ {0} /\ Videos \subseteq Int
    /\ Creators \in Seq(DOMAIN Uploads) /\ Creators # <<>>
    /\ \A c \in DOMAIN Uploads : Uploads[c] \subseteq Videos
    /\ KnownAtFirst \subseteq Videos
    /\ MaxRetries \in Nat \ {0} /\ BatchSize \in Nat \ {0} /\ MaxFaults \in Nat
    /\ LegacyDate \in BOOLEAN

VARIABLES
    master,          \* Video Master: the known videos
    events,          \* videos with a notification event
    manifest,        \* the tracking manifest as last published
    row,             \* the run summary of the date
    stored,          \* the snapshots of the date: video -> the run that wrote it, or 0
    run,             \* the state of each run
    met,             \* history: the day was claimed while another run was saving it
    faults

vars == <<master, events, manifest, row, stored, run, met, faults>>

Of(c) == Uploads[c]
NoRow == [status |-> "none", by |-> 0, requested |-> {}, collected |-> {}, reasons |-> <<>>]

Init ==
    /\ master = KnownAtFirst
    /\ events = {}
    /\ manifest = {}
    /\ row \in {NoRow, [NoRow EXCEPT !.status = "unset"]}   \* a row of before the status was kept
    /\ stored = [v \in Videos |-> 0]
    /\ run = [r \in Runs |->
                [at |-> "start", creator |-> 1, known |-> {}, found |-> {}, tracked |-> {},
                 first |-> {}, due |-> {}, asked |-> {}, results |-> {}, left |-> {}, reasons |-> <<>>,
                 wall |-> FALSE, wasted |-> FALSE]]
    /\ met = FALSE
    /\ faults = 0

Fails == faults < MaxFaults /\ faults' = faults + 1
Works == faults' = faults

CallOutcomes == {CallYoutubeApi(answers) : answers \in [1..MaxRetries -> Answers]}

\* A request of run r that YouTube answered with outcome.
Requested(s, outcome) ==
    [s EXCEPT !.wasted = @ \/ s.wall, !.wall = s.wall \/ outcome = "QuotaExhaustedError"]

(***************************************************************************)
(* Discovery                                                               *)
(***************************************************************************)
Start(r) ==
    /\ run[r].at = "start"
    /\ run' = [run EXCEPT ![r].at = "discover", ![r].known = master]
    /\ UNCHANGED <<met, master, events, manifest, row, stored, faults>>

\* What follows the last creator: new videos are written before anything else.
AfterDiscovery(s) == IF s.found = {} THEN "publish" ELSE "upsert"
NextCreator(s) ==
    IF s.creator < Len(Creators) THEN [s EXCEPT !.creator = @ + 1]
    ELSE [s EXCEPT !.creator = @ + 1, !.at = AfterDiscovery(s)]

KnownOf(s, c) == s.known \cap Of(c)

SkipDisabled(r) ==
    /\ run[r].at = "discover"
    /\ LET c == Creators[run[r].creator] IN
        /\ c \notin Enabled
        /\ run' = [run EXCEPT ![r] = NextCreator([run[r] EXCEPT !.tracked = @ \cup KnownOf(run[r], c)])]
    /\ UNCHANGED <<met, master, events, manifest, row, stored, faults>>

Asks(s, c, outcome) ==
    Requested([s EXCEPT !.first = IF KnownOf(s, c) = {} THEN @ \cup Of(c) ELSE @], outcome)

\* Mutant: the quota error, a YouTubeAPIError itself, is caught as one.
DiscoveredAnyway(s, c, outcome) ==
    IF outcome = "response"
    THEN NextCreator([Asks(s, c, outcome) EXCEPT !.found = @ \cup (Of(c) \ s.known), !.tracked = @ \cup Of(c)])
    ELSE NextCreator([Asks(s, c, outcome) EXCEPT !.tracked = @ \cup KnownOf(s, c)])

\* _discover_creator, and how main() answers what it raises.
Discovered(s, c, outcome) ==
    LET new == Of(c) \ s.known
        t == Asks(s, c, outcome)
    IN CASE outcome = "response" ->
              NextCreator([t EXCEPT !.found = @ \cup new, !.tracked = @ \cup Of(c)])
         [] outcome = "YouTubeAPIError" ->
              NextCreator([t EXCEPT !.tracked = @ \cup KnownOf(s, c)])
         [] outcome = "QuotaExhaustedError" ->
              [t EXCEPT !.at = IF s.found = {} THEN "stopped" ELSE "salvage"]

DiscoverCreator(r) ==
    /\ run[r].at = "discover"
    /\ LET c == Creators[run[r].creator] IN
        /\ c \in Enabled
        /\ \E outcome \in CallOutcomes : run' = [run EXCEPT ![r] = Discovered(run[r], c, outcome)]
    /\ UNCHANGED <<met, master, events, manifest, row, stored, faults>>

\* upsert_videos writes in batches, and may fail after some of them.
UpsertVideos(r) ==
    /\ run[r].at \in {"upsert", "salvage"}
    /\ \/ /\ master' = master \cup run[r].found
          /\ Works
          /\ run' = [run EXCEPT ![r].at = IF @ = "upsert" THEN "record" ELSE "salvagePublish"]
       \/ /\ Fails
          /\ \E part \in SUBSET run[r].found : master' = master \cup part
          /\ run' = [run EXCEPT ![r].at = "failed"]
    /\ UNCHANGED <<met, events, manifest, row, stored>>

VideosToNotify(s) == s.found \ (s.first \cap Backlog)

RecordBestEffort(r) ==
    /\ run[r].at \in {"record", "salvageRecord"}
    /\ \/ /\ events' = events \cup VideosToNotify(run[r])
          /\ Works
       \/ /\ Fails
          /\ UNCHANGED events
    /\ run' = [run EXCEPT ![r].at = IF @ = "record" THEN "publish" ELSE "stopped"]
    /\ UNCHANGED <<met, master, manifest, row, stored>>

PublishManifest(r) ==
    /\ run[r].at \in {"publish", "salvagePublish"}
    /\ \/ /\ manifest' = run[r].known \cup run[r].found
          /\ Works
       \/ /\ Fails
          /\ UNCHANGED manifest
    /\ run' = [run EXCEPT ![r].at = IF @ = "publish" THEN "select" ELSE "salvageRecord"]
    /\ UNCHANGED <<met, master, events, row, stored>>

(***************************************************************************)
(* Statistics                                                              *)
(***************************************************************************)
\* Which tracked videos are due is TrackingSchedule's business.
SelectDue(r) ==
    /\ run[r].at = "select"
    /\ \E due \in SUBSET run[r].tracked :
        run' = [run EXCEPT ![r].due = due, ![r].at = IF due = {} THEN "done" ELSE "fetch"]
    /\ UNCHANGED <<met, master, events, manifest, row, stored, faults>>

\* The ids the loop has not come to yet, and the batch it asks for next.
Rest(s) == s.due \ s.asked
Batch(s) == {v \in Rest(s) : Cardinality({x \in Rest(s) : x < v}) < BatchSize}

AfterBatch(s) ==
    [s EXCEPT !.asked = @ \cup Batch(s),
              !.at = IF Batch(s) = Rest(s) THEN "summarise" ELSE "fetch"]

\* The reasons join, and replace, those a run already has.
WithReasons(s, reasons) ==
    [s EXCEPT !.reasons = [v \in DOMAIN reasons \cup DOMAIN @ |->
                              IF v \in DOMAIN reasons THEN reasons[v] ELSE @[v]]]

\* get_video_statistics, one batch; main() adds the reason of the ids a spent quota left over.
GetVideoStatistics(r) ==
    /\ run[r].at = "fetch"
    /\ \E outcome \in CallOutcomes : \E missing \in SUBSET Batch(run[r]) :
       \E malformed \in SUBSET (Batch(run[r]) \ missing) :
        LET s == Requested(run[r], outcome)
            got == FetchBatch(Batch(s), missing, malformed)
        IN /\ outcome # "response" => missing = {} /\ malformed = {}
           /\ run' = [run EXCEPT ![r] =
                CASE outcome = "response" ->
                       AfterBatch(WithReasons([s EXCEPT !.results = @ \cup got.results], got.reasons))
                  [] outcome = "YouTubeAPIError" ->
                       AfterBatch(WithReasons(s, [v \in Batch(s) |-> "apiError"]))
                  [] outcome = "QuotaExhaustedError" ->
                       [WithReasons(s, [v \in Rest(s) |-> "quota"]) EXCEPT !.at = "summarise"]]
    /\ UNCHANGED <<met, master, events, manifest, row, stored, faults>>

(***************************************************************************)
(* Saving the day                                                          *)
(***************************************************************************)
Skipped(s) == s.due \ s.results
Summary(r) ==
    [status |-> "IN_PROGRESS", by |-> r, requested |-> run[r].due, collected |-> run[r].results,
     reasons |-> [v \in Skipped(run[r]) |->
                    IF v \in DOMAIN run[r].reasons THEN run[r].reasons[v] ELSE "unknown"]]

\* Mutant: the claim asks for nothing.
ClaimableAlways(status) == TRUE
Claimable(status) == status \in {"none", "IN_PROGRESS"} \/ (LegacyDate /\ status = "unset")

Saving == {"write", "mark"}

ClaimRunSummary(r) ==
    /\ run[r].at = "summarise"
    /\ \/ /\ Claimable(row.status)
          /\ Works
          /\ row' = Summary(r)
          /\ run' = [run EXCEPT ![r].at = IF run[r].results = {} THEN "mark" ELSE "write",
                               ![r].left = run[r].results]
       \/ /\ ~Claimable(row.status)
          /\ Works
          /\ run' = [run EXCEPT ![r].at = "failed"]
          /\ UNCHANGED row
       \/ /\ Fails
          /\ run' = [run EXCEPT ![r].at = "failed"]
          /\ row' \in IF Claimable(row.status) THEN {row, Summary(r)} ELSE {row}
    /\ met' = (met \/ (row' # row /\ \E p \in Runs \ {r} : run[p].at \in Saving))
    /\ UNCHANGED <<master, events, manifest, stored>>

WriteSnapshot(r) ==
    /\ run[r].at = "write"
    /\ \/ \E v \in run[r].left :
            /\ stored' = [stored EXCEPT ![v] = r]
            /\ Works
            /\ run' = [run EXCEPT ![r].left = @ \ {v}, ![r].at = IF run[r].left = {v} THEN "mark" ELSE @]
       \/ /\ Fails
          /\ run' = [run EXCEPT ![r].at = "failed"]
          /\ UNCHANGED stored
    /\ UNCHANGED <<met, master, events, manifest, row>>

MarkRunSummaryComplete(r) ==
    /\ run[r].at = "mark"
    /\ \/ /\ row' = [row EXCEPT !.status = "COMPLETE"]
          /\ Works
          /\ run' = [run EXCEPT ![r].at = IF run[r].results = {} THEN "failed" ELSE "done"]
       \/ /\ Fails
          /\ row' \in {row, [row EXCEPT !.status = "COMPLETE"]}
          /\ run' = [run EXCEPT ![r].at = "failed"]
    /\ UNCHANGED <<met, master, events, manifest, stored>>

Over == {"done", "failed", "stopped"}

Dies(r) ==
    /\ run[r].at \notin Over \cup {"start"}
    /\ Fails
    /\ run' = [run EXCEPT ![r].at = "failed"]
    /\ UNCHANGED <<met, master, events, manifest, row, stored>>

Next == \E r \in Runs :
    \/ Start(r) \/ SkipDisabled(r) \/ DiscoverCreator(r) \/ UpsertVideos(r) \/ RecordBestEffort(r)
    \/ PublishManifest(r) \/ SelectDue(r) \/ GetVideoStatistics(r) \/ ClaimRunSummary(r)
    \/ WriteSnapshot(r) \/ MarkRunSummaryComplete(r) \/ Dies(r)

Spec == Init /\ [][Next]_vars
(***************************************************************************)
(* Properties                                                              *)
(***************************************************************************)
Places == {"start", "discover", "upsert", "salvage", "record", "salvagePublish", "salvageRecord",
           "publish", "select", "fetch", "summarise"} \cup Saving \cup Over
TypeOK ==
    /\ master \subseteq Videos /\ events \subseteq master /\ manifest \subseteq master
    /\ row.status \in {"none", "unset", "IN_PROGRESS", "COMPLETE"} /\ row.by \in Runs \cup {0}
    /\ row.collected \subseteq row.requested /\ row.requested \subseteq master
    /\ stored \in [Videos -> Runs \cup {0}]
    /\ \A r \in Runs : run[r].at \in Places /\ run[r].results \subseteq run[r].due

\* A day is COMPLETE only once every video its summary counts as collected has
\* its snapshot, unless two runs saved the day at the same time
\* (_claim_run_summary accepts that race).
CompleteMeansStored ==
    row.status = "COMPLETE" /\ ~met => \A v \in row.collected : stored[v] # 0

\* The summary of a day accounts for every video that was due: it was collected
\* or the reason it was not is known, whichever batch failed, was not answered
\* or was never asked.
EverySkipExplained ==
    /\ row.requested = row.collected \cup DOMAIN row.reasons
    /\ \A v \in DOMAIN row.reasons : row.reasons[v] # "unknown"

\* Once YouTube says the quota is spent, a run sends it no further request.
NothingAsked == \A r \in Runs : ~run[r].wasted

\* What the quota paid for is kept: a run the quota stopped during discovery has
\* written what it found, and one that ends well has stored what it collected.
PaidForIsKept == \A r \in Runs :
    /\ run[r].at = "stopped" => run[r].found \subseteq master
    /\ run[r].at = "done" => \A v \in run[r].results : stored[v] # 0

DayIsSound == TypeOK /\ CompleteMeansStored /\ EverySkipExplained /\ NothingAsked /\ PaidForIsKept

\* The summary of a COMPLETE day is never changed again: no later or slower run
\* claims it.
CompleteDayIsFinal == [][row.status = "COMPLETE" => row' = row]_row
=============================================================================
