------------------------ MODULE LivestreamCompletion ------------------------
(***************************************************************************)
(* tracking/livestream_lifecycle.py, the completion cycle: which streams   *)
(* ended, from the list of live and upcoming streams and from YouTube, and *)
(* whether their archive can be watched.  A cycle is one run of a Lambda   *)
(* with a reserved concurrency of one, so that it is one action, which     *)
(* chooses the list, what YouTube answered and how far its writes came.    *)
(*                                                                         *)
(* The list is the shared one or a fetch of the cycle's own (LiveSnapshot  *)
(* models which, and how old it may be).  Holodex loses streams and lags   *)
(* behind, so that either is any list without a live stream that never     *)
(* started; a skipped cycle, for a cooldown or a failed fetch, is no step. *)
(* Time is counted in completion intervals (five minutes).                 *)
(***************************************************************************)
EXTENDS Integers, FiniteSets

CONSTANTS
    Streams,
    Scheduled,          \* stream -> its scheduled start
    MinInterval,        \* COMPLETION_MIN_INTERVAL_SECONDS
    MaxPending,         \* _MAX_PENDING_ATTEMPTS
    PendingMaxAge,      \* PENDING_MAX_AGE
    LookupAttempts,     \* ARCHIVE_LOOKUP_MAX_ATTEMPTS
    LookupWindow,       \* ARCHIVE_LOOKUP_MIN_WINDOW
    LookupMaxAge,       \* ARCHIVE_LOOKUP_MAX_AGE
    Retention,          \* RECENTLY_ENDED_RETENTION
    MaxClock,           \* the bound of the clock
    MaxFaults           \* the bound of lost writes

ASSUME CompletionAssumption ==
    /\ IsFiniteSet(Streams) /\ Scheduled \in [Streams -> Nat]
    /\ {MinInterval, MaxPending, LookupAttempts} \subseteq Nat \ {0}
    /\ {PendingMaxAge, LookupWindow, LookupMaxAge, Retention, MaxClock, MaxFaults} \subseteq Nat

Never == -1     \* a time that was never recorded

VARIABLES
    now,
    broadcast,      \* stream -> what YouTube knows: its phase and end, whether it is
                    \* returned, and whether it is an uploaded video with a Premiere
    completion,     \* liveStreamSnapshot
    ended,          \* liveStreamEnded: a function from some of the streams
    master,         \* stream -> its row in Video Master
    announced,      \* the Premieres with a premiere_archived event
    times,          \* premiereArchiveTimes: the Premieres that have one
    followed,       \* history: the streams some stored cycle saw live
    expired,        \* history: the candidates dropped for their age
    lookups,        \* history: stream -> archive lookups that were answered
    faults

records == <<completion, ended, master, announced, times>>
history == <<followed, expired, lookups>>
vars == <<now, broadcast, records, history, faults>>

Premieres == {s \in Streams : broadcast[s].premiere}

Lists == [Streams -> {"absent", "upcoming", "live"}]

\* A partial map with one more set of keys.
Extended(f, S, value(_)) == [s \in DOMAIN f \cup S |-> IF s \in S THEN value(s) ELSE f[s]]

Only(f, S) == [s \in DOMAIN f \cap S |-> f[s]]

NoMap == [s \in {} |-> 0]

Pending == [since : Nat, attempts : 0..MaxPending, listed : BOOLEAN]

Entry == [state : {"ended", "unavailable"}, at : Nat, end : Nat \cup {Never},
          archive : {"pending", "available", "handed_off", "unavailable"}]

\* Every record has its form; the candidates and the lookups are bounded.
TypeOK ==
    /\ now \in 0..MaxClock
    /\ broadcast \in [Streams -> [phase : {"waiting", "live", "over"}, end : Nat \cup {Never},
                                  returned : BOOLEAN, premiere : BOOLEAN]]
    /\ DOMAIN completion.pending \subseteq Streams
    /\ \A s \in DOMAIN completion.pending :
          completion.pending[s] \in Pending /\ completion.pending[s].attempts < MaxPending
    /\ DOMAIN ended \subseteq Streams
    /\ \A s \in DOMAIN ended : ended[s] \in Entry
    /\ announced \subseteq Premieres /\ times \subseteq Premieres
    /\ faults \in 0..MaxFaults

Init ==
    /\ now = 0
    /\ broadcast \in [Streams -> [phase : {"waiting"}, end : {Never}, returned : {TRUE}, premiere : BOOLEAN]]
    /\ completion = [at |-> Never, baseline |-> {}, pending |-> NoMap, watch |-> NoMap]
    /\ ended = NoMap
    /\ master \in [Streams -> {"missing", "unclassified"}]
    /\ announced = {}
    /\ times = {}
    /\ followed = {}
    /\ expired = {}
    /\ lookups = [s \in Streams |-> 0]
    /\ faults = 0

-----------------------------------------------------------------------------
(***************************************************************************)
(* The world: broadcasts start, end, and are made private and public.      *)
(***************************************************************************)

Tick ==
    /\ now < MaxClock
    /\ now' = now + 1
    /\ UNCHANGED <<broadcast, records, history, faults>>

Broadcasts(s) ==
    /\ \/ /\ broadcast[s].phase = "waiting"
          /\ broadcast' = [broadcast EXCEPT ![s].phase = "live"]
       \/ /\ broadcast[s].phase = "live"
          /\ broadcast' = [broadcast EXCEPT ![s].phase = "over", ![s].end = now]
       \/ /\ broadcast[s].phase # "waiting"
          /\ broadcast' = [broadcast EXCEPT ![s].returned = ~@]
    /\ UNCHANGED <<now, records, history, faults>>

\* The collector stores a video of its own accord, or classifies the row it has.
Discovered(s) ==
    /\ master[s] \in {"missing", "unclassified"}
    /\ master' = [master EXCEPT ![s] = IF @ = "missing" THEN "unclassified"
                                       ELSE IF s \in Premieres THEN "upload" ELSE "live"]
    /\ UNCHANGED <<now, broadcast, completion, ended, announced, times, history, faults>>

\* What Holodex may say of a stream: it loses streams and lags behind.
HolodexSays(list) == \A s \in Streams : list[s] = "live" => broadcast[s].phase # "waiting"

-----------------------------------------------------------------------------
(***************************************************************************)
(* The completion cycle: which streams are candidates for an end.          *)
(***************************************************************************)

Pruned == Only(ended, {s \in DOMAIN ended : now - ended[s].at <= Retention})

Candidate(listed) == [since |-> now, attempts |-> 0, listed |-> listed]

\* Seen live by the previous cycle, and gone from the list.
Vanished(list) == {s \in completion.baseline : list[s] = "absent"} \ DOMAIN Pruned

\* A candidate that is listed again was a false alarm, unless YouTube had
\* already said that it ended while it was still listed.
StillPending(list) ==
    {s \in DOMAIN completion.pending : list[s] = "absent" \/ completion.pending[s].listed}

Missing(list) ==
    Extended(Only(completion.pending, StillPending(list)),
             Vanished(list) \ StillPending(list), LAMBDA s : Candidate(FALSE))

\* The live-end watch: listed as live, or as upcoming after its start.
Watched(list) ==
    {s \in Streams : list[s] = "live" \/ (list[s] = "upcoming" /\ Scheduled[s] <= now)}

ProbeIds(list) ==
    DOMAIN Missing(list) \cup Watched(list) \cup (DOMAIN completion.watch \cap DOMAIN Pruned)

\* YouTube returns the stream with its actual end.
Over(s) == broadcast[s].returned /\ broadcast[s].phase = "over"

Spotted(list, answered) ==
    {s \in Watched(list) \cap answered : Over(s)} \ (DOMAIN Pruned \cup DOMAIN Missing(list))

Candidates(list, answered) ==
    Extended(Missing(list), Spotted(list, answered), LAMBDA s : Candidate(TRUE))

-----------------------------------------------------------------------------
(***************************************************************************)
(* What becomes of each candidate.                                         *)
(***************************************************************************)

TooOld(candidate) == now - candidate.since > PendingMaxAge

Heard(P, answered) == {s \in DOMAIN P \cap answered : ~TooOld(P[s])}

Ends(P, answered) == {s \in Heard(P, answered) : Over(s)}

Retried(candidate) == candidate.attempts + 1 < MaxPending

\* Not returned, for the last of MaxPending times in a row.
GivenUp(P, answered) ==
    {s \in Heard(P, answered) : ~broadcast[s].returned /\ ~Retried(P[s])}

\* The best-effort write to Video Master left the row as it should be.
RowSettled(s) ==
    IF s \in Premieres THEN master[s] \in {"unclassified", "upload"}
                       ELSE master[s] \in {"live", "completed"}

RowWritten(s) == IF s \in Premieres THEN "upload" ELSE "completed"

\* Attempts count the checks that did not find the stream and the rows that
\* could not be written; an unanswered probe counts for nothing.
NextPending(P, answered, raised) ==
    LET counted == {s \in Heard(P, answered) : ~broadcast[s].returned
                        \/ (Over(s) /\ (s \in raised \/ ~RowSettled(s)))}
        stillOn == {s \in Heard(P, answered) : broadcast[s].returned /\ ~Over(s)}
        silent  == {s \in DOMAIN P \ answered : ~TooOld(P[s])}
    IN  [s \in silent \cup stillOn \cup {s \in counted : Retried(P[s])} |->
            IF s \in silent THEN P[s]
            ELSE [P[s] EXCEPT !.attempts = IF s \in stillOn THEN 0 ELSE @ + 1]]

\* Every candidate with an end is recorded, the ones already recorded too.
NewlyEndedAgain(P, answered) == Ends(P, answered) \cup GivenUp(P, answered)

NewlyEnded(P, answered) == (Ends(P, answered) \cup GivenUp(P, answered)) \ DOMAIN Pruned

EndEntry(s, over) ==
    [state |-> IF over THEN "ended" ELSE "unavailable", at |-> now,
     end |-> IF over THEN broadcast[s].end ELSE Never,
     archive |-> IF over THEN "pending" ELSE "unavailable"]

WithEnds(P, answered) ==
    Extended(Pruned, NewlyEnded(P, answered), LAMBDA s : EndEntry(s, s \in Ends(P, answered)))

-----------------------------------------------------------------------------
(***************************************************************************)
(* The archive lookups, over the entries E of the cycle.                   *)
(***************************************************************************)

AwaitingArchive(E, newly) ==
    {s \in (newly \cup DOMAIN completion.watch) \cap DOMAIN E :
        E[s].state = "ended" /\ E[s].archive = "pending"}

Tried(s) == IF s \in DOMAIN completion.watch THEN completion.watch[s] ELSE 0

\* The window is anchored at the end of the stream, not at its confirmation.
WindowOpen(entry) == now - (IF entry.end = Never THEN entry.at ELSE entry.end) < LookupWindow

HandsOff(entry, s, answered) ==
    IF s \in answered THEN Tried(s) + 1 >= LookupAttempts /\ ~WindowOpen(entry)
                      ELSE now - entry.at > LookupMaxAge

ArchiveAfter(entry, s, answered, usable) ==
    IF s \in answered \cap usable THEN "available"
    ELSE IF HandsOff(entry, s, answered) THEN "handed_off"
    ELSE "pending"

WithLookups(E, awaiting, answered, usable) ==
    [s \in DOMAIN E |-> IF s \in awaiting THEN [E[s] EXCEPT !.archive = ArchiveAfter(E[s], s, answered, usable)]
                                          ELSE E[s]]

NextWatch(E, awaiting, answered, usable) ==
    [s \in {t \in awaiting : ArchiveAfter(E[t], t, answered, usable) = "pending"} |->
        IF s \in answered THEN Tried(s) + 1 ELSE Tried(s)]

-----------------------------------------------------------------------------
(***************************************************************************)
(* A whole cycle.                                                          *)
(***************************************************************************)

\* The completion record is stored first.
WritesCompletionFirst(E, record, landed) ==
    /\ completion' = IF landed >= 1 THEN record ELSE completion
    /\ ended' = IF landed = 2 THEN E ELSE ended

\* How many of the writes of the ended map and of the completion record were stored.
CycleWrites(E, record, landed) ==
    /\ ended' = IF landed >= 1 THEN E ELSE ended
    /\ completion' = IF landed = 2 THEN record ELSE completion

DuplicateInvocation == completion.at # Never /\ now - completion.at < MinInterval

AvailablePremieres(E) == {s \in Premieres \cap DOMAIN E : E[s].archive = "available"}

\* The writes that may fail: of the two records, which are written in that order,
\* of the event and the time of a Premiere, and of the rows of streams.
Losses ==
    {lost \in SUBSET ({"ended", "completion", "event", "times"} \cup Streams) :
        Cardinality(lost) <= MaxFaults - faults /\ ~({"ended", "completion"} \subseteq lost)}

Completes(list, answered, usable, lost) ==
    \E P \in {Candidates(list, answered)} :
    \E E \in {WithEnds(P, answered)} :
    LET raised   == lost \cap Streams
        landed   == IF "ended" \in lost THEN 0 ELSE IF "completion" \in lost THEN 1 ELSE 2
        awaiting == AwaitingArchive(E, NewlyEnded(P, answered))
        after    == WithLookups(E, awaiting, answered, usable)
        baseline == {s \in Streams : list[s] = "live"}
        found    == {s \in awaiting \cap Premieres : after[s].archive = "available"}
        record   == [at |-> now, baseline |-> baseline, pending |-> NextPending(P, answered, raised),
                     watch |-> NextWatch(E, awaiting, answered, usable)]
    IN  /\ faults' = faults + Cardinality(lost)
        /\ raised \subseteq Ends(P, answered)
        /\ CycleWrites(after, record, landed)
        /\ master' = [s \in Streams |-> IF s \in Ends(P, answered) \ raised /\ RowSettled(s)
                                        THEN RowWritten(s) ELSE master[s]]
        /\ announced' = IF "event" \in lost THEN announced ELSE announced \cup found
        /\ times' = IF landed = 2 /\ "times" \notin lost THEN times \cup AvailablePremieres(after) ELSE times
        /\ lookups' = [s \in Streams |-> IF s \in awaiting \cap answered THEN lookups[s] + 1 ELSE lookups[s]]
        /\ LET aged == DOMAIN ended \ DOMAIN Pruned
           IN  followed' = CASE landed = 0 -> followed
                             [] landed = 1 -> followed \ aged
                             [] landed = 2 -> (followed \cup baseline) \ (aged \cup {s \in Streams : list[s] = "upcoming"})
        /\ expired' = IF landed = 2 THEN (expired \cup {s \in DOMAIN P : TooOld(P[s])}) \ baseline ELSE expired
        /\ UNCHANGED <<now, broadcast>>

CompletionCycle ==
    /\ ~DuplicateInvocation
    /\ \E lost \in Losses, list \in {l \in Lists : HolodexSays(l)} :
       \E answered \in SUBSET ProbeIds(list) :
       \E usable \in SUBSET {s \in answered : Over(s)} :
          Completes(list, answered, usable, lost)

Next ==
    \/ Tick
    \/ \E s \in Streams : Broadcasts(s) \/ Discovered(s)
    \/ CompletionCycle

Spec == Init /\ [][Next]_vars

-----------------------------------------------------------------------------
\* A stream that a stored cycle saw live is still followed, or its end is
\* recorded, or it was given up for its age: losing a write of refresh_snapshot
\* between the ended map and the completion record loses no stream.
NotForgotten ==
    followed \subseteq completion.baseline \cup DOMAIN completion.pending \cup DOMAIN ended \cup expired

\* A recorded end is never revised: an entry leaves with its age, and only its
\* archive state moves on from "pending".
EndIsFinal ==
    [][\A s \in DOMAIN ended : now - ended[s].at <= Retention =>
          /\ s \in DOMAIN ended'
          /\ \/ ended'[s] = ended[s]
             \/ /\ ended[s].archive = "pending"
                /\ ended'[s] = [ended[s] EXCEPT !.archive = ended'[s].archive]]_vars

\* An archive is handed to the daily task only after LookupAttempts answered
\* lookups and the window after the end, or when nobody answered for LookupMaxAge.
HandedOffAfterLookups ==
    [][\A s \in DOMAIN ended \cap DOMAIN ended' :
          ended[s].archive = "pending" /\ ended'[s].archive = "handed_off" =>
             \/ lookups'[s] >= LookupAttempts /\ now - ended[s].end >= LookupWindow
             \/ now - ended[s].at > LookupMaxAge]_vars
=============================================================================
