------------------------------ MODULE LiveList ------------------------------
(***************************************************************************)
(* GET /live-streams (api/read_api.py get_live_streams): the streams of    *)
(* the shared snapshot, cut to the lookahead of the moment of the request, *)
(* without the broadcasts the livestream lifecycle has seen end and        *)
(* without the videos Video Master knows to be no livestream.  A stream    *)
(* that is not classified is asked about (api/livestream_classification);  *)
(* an upcoming Premiere is shown as one, and the answer is stored.         *)
(*                                                                         *)
(* The refresh of the snapshot (LiveSnapshot) and the confirmation of an   *)
(* end (LivestreamCompletion) are one step each here.  Requests are those  *)
(* of one warm container, which caches the answers and the ends; the       *)
(* collector (VideoClassification) writes Video Master beside it.          *)
(***************************************************************************)
EXTENDS Integers, YoutubeClient

CONSTANTS
    Videos,
    FirstStart,     \* the starts that may be scheduled
    Lookahead,      \* _HOLODEX_MAX_UPCOMING_HOURS
    Buffer,         \* _LOOKAHEAD_STORAGE_BUFFER, at least MaxAge
    MaxAge,         \* MAX_SNAPSHOT_AGE_SECONDS
    EndedCache,     \* ENDED_CACHE_SECONDS
    Expose,         \* RECENTLY_ENDED_EXPOSE
    AnswerTtl,      \* _ANSWER_TTL_SECONDS
    FailureTtl,     \* _FAILURE_TTL_SECONDS
    MaxNow,         \* bound of the time
    MaxFaults       \* reads, lookups and writes that fail

\* A snapshot that is still served holds the whole window of the moment.
ListAssumption ==
    /\ MaxAge <= Buffer /\ {Lookahead, Buffer, MaxAge, EndedCache, Expose, AnswerTtl, FailureTtl,
                              MaxNow, MaxFaults} \subseteq Nat
    /\ EndedCache > 0 /\ FirstStart \subseteq Nat

Never == -1

VARIABLES
    now,
    kind,           \* "stream" or "premiere"
    phase, start,   \* what YouTube shows of each video
    snapshot,       \* the shared list: when it was fetched, and the streams it holds
    ends,           \* the ended record: video -> [at, state]
    endsCache,      \* what the container remembers of it
    stored,         \* the classification in Video Master, or "absent" or "none"
    answers,        \* the container's answers: video -> [until, class]
    request,        \* the request under way, and the last list that was served
    listed,         \* history: all that Holodex listed when the snapshot was fetched
    faults

world == <<kind, phase, start>>
records == <<snapshot, ends, listed>>
container == <<endsCache, answers, request>>
vars == <<now, world, records, stored, container, faults>>

NoMap == [v \in {} |-> 0]
Class(v) == Classification(Item(kind[v], phase[v]))

Init ==
    /\ now = 0
    /\ kind \in [Videos -> {"stream", "premiere"}]
    /\ phase = [v \in Videos |-> "upcoming"]
    /\ start \in [Videos -> FirstStart]
    /\ snapshot = [at |-> Never, streams |-> {}]
    /\ listed = {}
    /\ ends = NoMap
    /\ endsCache = [at |-> Never, ends |-> NoMap]
    /\ stored = [v \in Videos |-> "absent"]
    /\ answers = [v \in Videos |-> [until |-> 0, class |-> "unknown"]]
    /\ request = [pc |-> "idle"]
    /\ faults = 0

Fails == faults < MaxFaults /\ faults' = faults + 1
Works == faults' = faults

Tick ==
    /\ now < MaxNow
    /\ now' = now + 1
    /\ UNCHANGED <<world, records, stored, container, faults>>

\* A broadcast starts when it likes, and ends.
Broadcasts(v) ==
    /\ phase[v] # "ended"
    /\ phase' = [phase EXCEPT ![v] = IF @ = "upcoming" THEN "running" ELSE "ended"]
    /\ UNCHANGED <<now, kind, start, records, stored, container, faults>>

-----------------------------------------------------------------------------
(***************************************************************************)
(* The other jobs                                                          *)
(***************************************************************************)
Stream(v, status) == [v |-> v, status |-> status, start |-> start[v]]

\* Holodex cannot tell a Premiere from a stream, and may lag behind by one phase.
Reported(v, lags) ==
    CASE phase[v] = "upcoming" -> {Stream(v, "upcoming")}
      [] phase[v] = "running"  -> {Stream(v, IF lags THEN "upcoming" ELSE "live")}
      [] phase[v] = "ended"    -> IF lags THEN {Stream(v, "live")} ELSE {}

IsWithinLookahead(stream, moment, extra) == stream.start <= moment + Lookahead + extra

\* fetch_live_streams_from_holodex
Kept(streams) ==
    {s \in streams : s.status = "upcoming" => IsWithinLookahead(s, now, Buffer)}

Refresh ==
    /\ \E late \in SUBSET Videos :
        LET streams == UNION {Reported(v, v \in late) : v \in Videos} IN
        /\ snapshot' = [at |-> now, streams |-> Kept(streams)]
        /\ listed' = streams
    /\ UNCHANGED <<now, world, ends, stored, container, faults>>

\* The completion cycle records an end; YouTube may also not return the video.
RecordEnd(v) ==
    /\ v \notin DOMAIN ends
    /\ \E state \in {"ended", "unavailable"} :
        /\ phase[v] = (IF state = "ended" THEN "ended" ELSE "running")
        /\ ends' = [w \in DOMAIN ends \cup {v} |->
                        IF w = v THEN [at |-> now, state |-> state] ELSE ends[w]]
    /\ UNCHANGED <<now, world, snapshot, listed, stored, container, faults>>

\* The uploads playlist lists a broadcast once it has started.
Discover(v) ==
    /\ stored[v] = "absent" /\ phase[v] # "upcoming"
    /\ stored' = [stored EXCEPT ![v] = "none"]
    /\ UNCHANGED <<now, world, records, container, faults>>

\* The worker observes it; a Premiere stored as an upload stays one while it runs.
Observe(v) ==
    /\ stored[v] \notin {"absent", Class(v)}
    /\ ~(stored[v] = "upload" /\ Class(v) = "live")
    /\ stored' = [stored EXCEPT ![v] = Class(v)]
    /\ UNCHANGED <<now, world, records, container, faults>>

-----------------------------------------------------------------------------
(***************************************************************************)
(* The request                                                             *)
(***************************************************************************)
Served == snapshot.at # Never /\ now - snapshot.at <= MaxAge

\* read_ended_streams; None is a read that failed.
CachedEnds == endsCache.at # Never /\ now - endsCache.at < EndedCache

\* read_recently_ended
RecentlyEnded(map, moment) == {v \in DOMAIN map : moment - map[v].at <= Expose}

WithoutConfirmedEnded(streams, map) ==
    {s \in streams : ~(s.status = "live" /\ s.v \in RecentlyEnded(map, now) /\ map[s.v].state = "ended")}

\* The list as it stands before the classification is joined.
Window(map) ==
    WithoutConfirmedEnded({s \in snapshot.streams : s.status = "upcoming" => IsWithinLookahead(s, now, 0)}, map)

Reading(map, readable) ==
    [pc |-> "classify", at |-> now, readable |-> readable, listed |-> listed,
     streams |-> Window(map), todo |-> {}]

ReadLists ==
    /\ request.pc \in {"idle", "served"}
    /\ Served
    /\ \/ /\ Works
          /\ endsCache' = IF CachedEnds THEN endsCache ELSE [at |-> now, ends |-> ends]
          /\ request' = Reading(endsCache'.ends, TRUE)
       \/ /\ ~CachedEnds /\ Fails
          /\ request' = Reading(NoMap, FALSE)
          /\ UNCHANGED endsCache
    /\ UNCHANGED <<now, world, records, stored, answers>>

\* is_known_non_livestream
KnownNonLivestream(class) == class = "upload"

Unclassified == {s.v : s \in {t \in request.streams : t.status = "upcoming" /\ stored[t.v] \in {"absent", "none"}}}

\* _is_definitive
Definitive(class) == class \in {"upload", "upcoming"}

\* classify_unclassified_upcoming: an answer or a failure is remembered.
Asked == {v \in Unclassified : answers[v].until <= now}
Learned(works) ==
    [v \in Videos |->
        IF v \notin Asked THEN answers[v]
        ELSE IF works /\ Definitive(Class(v)) THEN [until |-> now + AnswerTtl, class |-> Class(v)]
        ELSE [until |-> now + FailureTtl, class |-> "unknown"]]

\* _without_known_non_livestreams: `inferred` are the upcoming Premieres.
Relabelled(streams, inferred) ==
    {IF s.v \in inferred THEN [s EXCEPT !.status = "premiere"] ELSE s :
        s \in {t \in streams : ~KnownNonLivestream(stored[t.v])}}

\* The answers still to be stored come before the response.
Answered(streams, todo) ==
    [request EXCEPT !.pc = IF todo = {} THEN "served" ELSE "persist", !.streams = streams, !.todo = todo]

Classify ==
    /\ request.pc = "classify"
    /\ \/ \E works \in BOOLEAN :
            /\ IF works THEN Works ELSE Asked # {} /\ Fails
            /\ answers' = Learned(works)
            /\ LET inferred == {v \in Unclassified : answers'[v].class # "unknown"} IN
               request' = Answered(Relabelled(request.streams, {v \in inferred : answers'[v].class = "upload"}),
                                   {v \in inferred : stored[v] = "none"})
       \/ /\ Fails      \* Video Master cannot be read: the list is served as it stands
          /\ request' = Answered(request.streams, {})
          /\ UNCHANGED answers
    /\ UNCHANGED <<now, world, records, stored, endsCache>>

\* The condition of set_video_classification.
Fillable(class) == class = "none"

\* _persist_inferred_classification, one video after the other; best effort.
Persist(v) ==
    /\ request.pc = "persist" /\ v \in request.todo
    /\ request' = Answered(request.streams, request.todo \ {v})
    /\ \/ Works /\ stored' = IF Fillable(stored[v]) THEN [stored EXCEPT ![v] = answers[v].class] ELSE stored
       \/ Fails /\ UNCHANGED stored
    /\ UNCHANGED <<now, world, records, endsCache, answers>>

Next ==
    \/ Tick \/ Refresh
    \/ \E v \in Videos : Broadcasts(v) \/ RecordEnd(v) \/ Discover(v) \/ Observe(v) \/ Persist(v)
    \/ ReadLists \/ Classify

Spec == Init /\ [][Next]_vars

-----------------------------------------------------------------------------
(* Properties *)

TypeOK ==
    /\ now \in 0..MaxNow /\ faults \in 0..MaxFaults
    /\ kind \in [Videos -> Kinds] /\ phase \in [Videos -> Phases] /\ start \in [Videos -> FirstStart]
    /\ stored \in [Videos -> {"absent", "none", "upload", "upcoming", "live", "completed"}]
    /\ answers \in [Videos -> [until : Nat, class : {"unknown", "upload", "upcoming"}]]

ServedNow == request.pc = "served"
IsListed(v) == \E s \in request.streams : s.v = v

\* "The window every client sees is always exactly now + 7 days, however old
\* the snapshot is": nothing beyond it, and whatever Holodex listed inside it.
WindowIsExact ==
    ServedNow =>
        /\ \A s \in request.streams : s.status # "live" => IsWithinLookahead(s, request.at, 0)
        /\ \A s \in request.listed :
              s.status = "upcoming" /\ IsWithinLookahead(s, request.at, 0) /\ ~IsListed(s.v)
                => stored[s.v] = "upload"

\* "The record and the list must agree": no broadcast is shown as live whose
\* confirmed end is in the record for longer than the cache of it may live.
ListAgreesWithEnds ==
    ServedNow /\ request.readable =>
        \A s \in request.streams :
            s.status = "live" /\ s.v \in RecentlyEnded(ends, request.at) /\ ends[s.v].state = "ended"
                => ends[s.v].at > request.at - EndedCache

\* A livestream that runs is not hidden, whatever could not be read or was
\* only not returned by YouTube.
RunningIsListed ==
    ServedNow => \A s \in request.listed :
        s.status = "live" /\ kind[s.v] = "stream" /\ ~IsListed(s.v) => phase[s.v] = "ended"

LiveListIsSound == TypeOK /\ WindowIsExact /\ ListAgreesWithEnds /\ RunningIsListed

\* What is stored is replaced by what YouTube shows at that moment, never by
\* the older answer a request or its cache holds.
ClassificationStands ==
    [][\A v \in Videos : stored[v] \notin {"absent", "none", stored'[v]} => stored'[v] = Class(v)]_stored
=============================================================================
