------------------------ MODULE PremiereAnnouncement ------------------------
(***************************************************************************)
(* How a broadcast becomes a new-video event, once.  The discovery windows *)
(* (collection/main.py run_discovery) find it in the creator's uploads     *)
(* once it has started; a Premiere is announced before that, from the      *)
(* shared live snapshot (collection/premiere_announcements.py), and a      *)
(* record of decisions (stores/premiere_announcements_store.py) tells the  *)
(* windows what was decided.  Home lists what the daily ranking does not   *)
(* hold yet from the events (api/provisional_discoveries.py).  One creator *)
(* that was ingested before, so every video found is notified.             *)
(***************************************************************************)
EXTENDS Integers, YoutubeClient

CONSTANTS
    Runs,          \* discovery runs, each a positive number
    Videos,
    Kind,          \* "premiere" or "stream"
    FirstStart,    \* the times a broadcast may be scheduled for
    WindowsPerDay, \* a date has that many moments
    MaxAttempts,   \* MAX_WRITE_ATTEMPTS
    MaxEntries,    \* MAX_ENTRIES of the decisions
    MaxEventDates, \* _MAX_EVENT_DATES
    MaxNow,        \* bound on the time
    MaxFaults      \* lost writes, failed reads, crashes

PremiereAssumption ==
    /\ IsFiniteSet(Videos) /\ Kind \in [Videos -> {"premiere", "stream"}]
    /\ FirstStart \subseteq 0..MaxNow
    /\ WindowsPerDay \in Nat \ {0} /\ MaxAttempts \in Nat \ {0}
    /\ MaxEntries \in Nat \ {0} /\ MaxEventDates \in Nat \ {0}
    /\ MaxNow \in Nat /\ MaxFaults \in Nat

VARIABLES
    now,
    start,         \* when each broadcast starts, as YouTube has it
    master,        \* Video Master
    manifest,      \* the tracking manifest: what the next run knows
    events,        \* rows of the events table: <<date, video>>
    decisions,     \* video -> [premiere, at]
    version,       \* of the decisions
    ranking,       \* the last daily ranking: its date and its videos
    run,
    excused,       \* history: videos a fault, an overlap or a dropped decision may have recorded twice
    announced,     \* history: videos announced from the snapshot
    faults

vars == <<now, start, master, manifest, events, decisions, version, ranking,
          run, excused, announced, faults>>
world == <<now, start, ranking>>
tables == <<master, manifest, events, decisions, version>>

Date(t) == t \div WindowsPerDay
Started(v) == start[v] <= now
Decided == DOMAIN decisions

Idle == [at |-> "start", time |-> 0, known |-> {}, found |-> {}, record |-> {}, quota |-> FALSE,
         asked |-> {}, facts |-> <<>>, new |-> <<>>, seen |-> <<>>, version |-> 0, attempt |-> 0]

Init ==
    /\ now = 0
    /\ start \in [Videos -> FirstStart]
    /\ master = {} /\ manifest = {} /\ events = {}
    /\ decisions = <<>> /\ version = 0
    /\ ranking = [date |-> 0, videos |-> {}]
    /\ run = [r \in Runs |-> Idle]
    /\ excused = {} /\ announced = {}
    /\ faults = 0

Fails == faults < MaxFaults /\ faults' = faults + 1
Works == faults' = faults

InFlight == {r \in Runs : run[r].at \notin {"start", "over"}}
Goes(r, s) == run' = [run EXCEPT ![r] = IF s.at = "over" THEN [Idle EXCEPT !.at = "over"] ELSE s]
\* A run that fails may leave what it worked on to be found again.
Touched(s) == s.found \cup s.asked
FailsRun(r) ==
    /\ Fails
    /\ Goes(r, [run[r] EXCEPT !.at = "over"])
    /\ excused' = excused \cup Touched(run[r])

(***************************************************************************)
(* The discovery of a window: uploads, events, Video Master, manifest, in  *)
(* this order.                                                             *)
(***************************************************************************)
Start(r) ==
    /\ run[r].at = "start"
    /\ Goes(r, [run[r] EXCEPT !.at = "discover", !.time = now, !.known = manifest])
    /\ excused' = IF InFlight = {} THEN excused ELSE Videos
    /\ UNCHANGED <<world, tables, announced, faults>>

\* The uploads playlist lists a broadcast once it has started.
Uploads == {v \in Videos : Started(v)}

Discover(r) ==
    /\ run[r].at = "discover"
    /\ \E found \in SUBSET (Uploads \ run[r].known) : \E quota \in BOOLEAN :
        Goes(r, [run[r] EXCEPT !.found = found, !.quota = quota,
                    !.at = IF found # {} THEN "announced" ELSE IF quota THEN "over" ELSE "select"])
    /\ UNCHANGED <<world, tables, excused, announced, faults>>

AnnouncedVideoIds(record) == {v \in DOMAIN record : record[v].premiere}

ReadAnnounced(r) ==
    /\ run[r].at = "announced"
    /\ \/ /\ Works
          /\ Goes(r, [run[r] EXCEPT !.at = "record", !.record = run[r].found \ AnnouncedVideoIds(decisions)])
          /\ UNCHANGED excused
       \/ /\ Fails
          /\ Goes(r, [run[r] EXCEPT !.at = "record", !.record = run[r].found])
          /\ excused' = excused \cup run[r].found
    /\ UNCHANGED <<world, tables, announced>>

\* A row that exists already stays as it is.
Rows(s, videos) == events \cup {<<Date(s.time), v>> : v \in videos}

RecordEvents(r) ==
    /\ run[r].at = "record"
    /\ \/ /\ Works
          /\ events' = Rows(run[r], run[r].record)
          /\ Goes(r, [run[r] EXCEPT !.at = "upsert"])
          /\ UNCHANGED excused
       \/ /\ FailsRun(r)
          /\ \E part \in SUBSET run[r].record : events' = Rows(run[r], part)
    /\ UNCHANGED <<world, master, manifest, decisions, version, announced>>

UpsertVideos(r) ==
    /\ run[r].at = "upsert"
    /\ \/ /\ Works
          /\ master' = master \cup run[r].found
          /\ Goes(r, [run[r] EXCEPT !.at = "patch"])
          /\ UNCHANGED excused
       \/ /\ FailsRun(r)
          /\ \E part \in SUBSET run[r].found : master' = master \cup part
    /\ UNCHANGED <<world, manifest, events, decisions, version, announced>>

PatchManifest(r) ==
    /\ run[r].at = "patch"
    /\ \/ Works /\ manifest' = manifest \cup run[r].found /\ UNCHANGED excused
       \/ Fails /\ UNCHANGED manifest /\ excused' = excused \cup run[r].found
    /\ Goes(r, [run[r] EXCEPT !.at = IF run[r].quota THEN "over" ELSE "select"])
    /\ UNCHANGED <<world, master, events, decisions, version, announced>>

(***************************************************************************)
(* The Premiere step.  Whatever goes wrong in it ends it.                  *)
(***************************************************************************)
\* The snapshot shows as upcoming what has not started; it may be too old to show a
\* broadcast at all, or its new start.
Candidates(s) == SUBSET {v \in Videos \ (s.known \cup s.found) : start[v] > s.time}

\* The lifecycle has recorded the archive of some Premieres that are over.
ArchiveTimes == SUBSET {v \in Videos : Kind[v] = "premiere" /\ Started(v)}

ReadDecisions(r) ==
    /\ run[r].at = "select"
    /\ \E candidates \in Candidates(run[r]) : \E archived \in ArchiveTimes :
        LET undecided == candidates \ (Decided \cup archived) IN
        Goes(r, [run[r] EXCEPT !.asked = undecided, !.at = IF undecided = {} THEN "over" ELSE "ask"])
    /\ UNCHANGED <<world, tables, excused, announced, faults>>

\* Definitive is what YouTube says of a broadcast that has not started.
UpcomingFact(v) == [premiere |-> IsUpcomingPremiere(Item(Kind[v], "upcoming")), start |-> start[v]]

AskYouTube(r) ==
    /\ run[r].at = "ask"
    /\ \E answer \in Answers :
        IF CallYoutubeApi(<<answer>>) = "response"      \* max_attempts=1
        THEN \E told \in SUBSET {v \in run[r].asked : ~Started(v)} :
                Goes(r, [run[r] EXCEPT !.facts = [v \in told |-> UpcomingFact(v)], !.at = "announce"])
        ELSE Goes(r, [run[r] EXCEPT !.at = "over"])
    /\ UNCHANGED <<world, tables, excused, announced, faults>>

ToAnnounce(s) == {v \in DOMAIN s.facts : s.facts[v].premiere /\ s.facts[v].start > s.time}

RecordAnnouncements(r) ==
    /\ run[r].at = "announce"
    /\ LET to == ToAnnounce(run[r]) IN
        \/ /\ Works
           /\ events' = Rows(run[r], to)
           /\ announced' = announced \cup to
           /\ Goes(r, [run[r] EXCEPT !.new = [v \in DOMAIN run[r].facts |-> v \in to],
                          !.at = IF run[r].facts = <<>> THEN "over" ELSE "read"])
           /\ UNCHANGED excused
        \/ /\ FailsRun(r)
           /\ \E part \in SUBSET to : events' = Rows(run[r], part) /\ announced' = announced \cup part
    /\ UNCHANGED <<world, master, manifest, decisions, version>>

ReadState(r) ==
    /\ run[r].at = "read"
    /\ \/ /\ Works
          /\ Goes(r, [run[r] EXCEPT !.seen = decisions, !.version = version,
                         !.at = IF DOMAIN run[r].new \subseteq Decided THEN "over" ELSE "write"])
          /\ UNCHANGED excused
       \/ FailsRun(r)
    /\ UNCHANGED <<world, tables, announced>>

\* Mutant: the last run to decide wins.
MergeLastWins(s) == [v \in DOMAIN s.seen \cup DOMAIN s.new |->
                       IF v \in DOMAIN s.new THEN [premiere |-> s.new[v], at |-> s.time] ELSE s.seen[v]]
\* First write wins; beyond MaxEntries the newest are kept.
Merge(s) == [v \in DOMAIN s.seen \cup DOMAIN s.new |->
               IF v \in DOMAIN s.seen THEN s.seen[v] ELSE [premiere |-> s.new[v], at |-> s.time]]
Newest(merged) == {keep \in SUBSET DOMAIN merged :
    /\ Cardinality(keep) = (IF Cardinality(DOMAIN merged) < MaxEntries THEN Cardinality(DOMAIN merged) ELSE MaxEntries)
    /\ \A v \in keep, w \in DOMAIN merged \ keep : merged[v].at >= merged[w].at}

\* The stored version decides who wrote first.
Writes(s) == \E keep \in Newest(Merge(s)) :
    /\ decisions' = [v \in keep |-> Merge(s)[v]]
    /\ version' = version + 1
    /\ excused' = excused \cup (DOMAIN Merge(s) \ keep)

RecordDecisions(r) ==
    /\ run[r].at = "write"
    /\ \/ /\ version = run[r].version
          /\ Works
          /\ Writes(run[r])
          /\ Goes(r, [run[r] EXCEPT !.at = "over"])
       \/ /\ version # run[r].version
          /\ Works
          /\ Goes(r, [run[r] EXCEPT !.attempt = @ + 1, !.at = IF run[r].attempt + 1 < MaxAttempts THEN "read" ELSE "over"])
          /\ excused' = IF run'[r].at = "over" THEN excused \cup run[r].asked ELSE excused
          /\ UNCHANGED <<decisions, version>>
       \/ FailsRun(r) /\ UNCHANGED <<decisions, version>>
       \/ /\ version = run[r].version       \* written, but the answer is lost
          /\ Fails
          /\ Writes(run[r])
          /\ Goes(r, [run[r] EXCEPT !.at = "over"])
    /\ UNCHANGED <<world, master, manifest, events, announced>>

Dies(r) ==
    /\ r \in InFlight
    /\ FailsRun(r)
    /\ UNCHANGED <<world, tables, announced>>

(***************************************************************************)
(* The rest of the world                                                   *)
(***************************************************************************)
\* The reducer ranks every video of the manifest (CreatorVideos looks into how).
\* A Lambda is over long before the next day's ranking.
DailyRanking ==
    /\ \A r \in InFlight : Date(run[r].time) = Date(now)
    /\ ranking' = [date |-> Date(now), videos |-> manifest]
    /\ ranking' # ranking
    /\ UNCHANGED <<now, start, tables, run, excused, announced, faults>>

Tick ==
    /\ now < MaxNow
    /\ now' = now + 1
    /\ UNCHANGED <<start, ranking, tables, run, excused, announced, faults>>

Delay(v) ==
    /\ ~Started(v) /\ start[v] < MaxNow
    /\ start' = [start EXCEPT ![v] = @ + 1]
    /\ UNCHANGED <<now, ranking, tables, run, excused, announced, faults>>

Next ==
    \/ \E r \in Runs :
        \/ Start(r) \/ Discover(r) \/ ReadAnnounced(r) \/ RecordEvents(r) \/ UpsertVideos(r) \/ PatchManifest(r)
        \/ ReadDecisions(r) \/ AskYouTube(r) \/ RecordAnnouncements(r) \/ ReadState(r) \/ RecordDecisions(r)
        \/ Dies(r)
    \/ DailyRanking \/ Tick
    \/ \E v \in Videos : Delay(v)

Spec == Init /\ [][Next]_vars

(***************************************************************************)
(* Home's list of a creator                                                *)
(***************************************************************************)
EventDates == {d \in ranking.date..Date(now) : d > Date(now) - MaxEventDates}
WithProvisionalDiscoveries == ranking.videos \cup {v \in Videos : \E d \in EventDates : <<d, v>> \in events}

(***************************************************************************)
(* Properties                                                              *)
(***************************************************************************)
HasEvent(v) == \E row \in events : row[2] = v
EventsOf(v) == {row \in events : row[2] = v}

TypeOK ==
    /\ now \in 0..MaxNow /\ start \in [Videos -> 0..MaxNow]
    /\ master \subseteq Videos /\ manifest \subseteq master
    /\ events \subseteq (0..Date(MaxNow)) \X Videos
    /\ Cardinality(Decided) <= MaxEntries

\* No video is known without its event: it was recorded before the video was
\* written, or when the Premiere was announced, and then before the decision that
\* keeps the windows from recording it again.
NothingLost ==
    /\ \A v \in master : HasEvent(v)
    /\ \A v \in AnnouncedVideoIds(decisions) : HasEvent(v)

\* One event per video, on one date, although the window that announces a
\* Premiere and the windows that find it in the uploads are days apart; unless a
\* call failed, two runs overlapped or its decision made room for newer ones.
OneEvent == \A v \in Videos \ excused : Cardinality(EventsOf(v)) <= 1

\* A livestream is never announced as a Premiere.
OnlyPremieresAnnounced == \A v \in announced : Kind[v] = "premiere"

\* A video that a window found in the uploads is on Home's list at once, and stays
\* there while rankings of before and after it come in.
Behind == Date(now) - ranking.date
ShownFromUploads == \A v \in manifest \ (excused \cup announced) :
    Behind < MaxEventDates => v \in WithProvisionalDiscoveries

PremieresAreSound == TypeOK /\ NothingLost /\ OneEvent /\ OnlyPremieresAnnounced /\ ShownFromUploads

\* A decision stands until newer ones need its room, whichever runs overlap.
DecisionsStand == [][\A v \in Decided :
    \/ v \in DOMAIN decisions' /\ decisions'[v] = decisions[v]
    \/ /\ v \notin DOMAIN decisions'
       /\ Cardinality(DOMAIN decisions') = MaxEntries
       /\ \A w \in DOMAIN decisions' : decisions'[w].at >= decisions[v].at]_decisions
=============================================================================
