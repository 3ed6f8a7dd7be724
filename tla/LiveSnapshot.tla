---------------------------- MODULE LiveSnapshot ----------------------------
(***************************************************************************)
(* The list of live and upcoming streams that every visitor shares         *)
(* (tracking/livestream_lifecycle.py): the display refresh that keeps it,  *)
(* the completion cycle that reads it, or fetches and keeps a backup when  *)
(* it is stale, and GET /live-streams, which reads the records one by one  *)
(* (read_serving_snapshot).  The two jobs are one Lambda with a reserved   *)
(* concurrency of one, so that a run is one action that chooses what       *)
(* Holodex answered and how far its writes came; readers run beside them.  *)
(* What the completion cycle does with the list is LivestreamCompletion.   *)
(*                                                                         *)
(* Time is counted in completion intervals (five minutes).                 *)
(***************************************************************************)
EXTENDS Integers, FiniteSetsExt

CONSTANTS
    Lists,              \* what Holodex may answer
    DisplayFresh,       \* DISPLAY_FRESH_SECONDS
    MaxAge,             \* MAX_SNAPSHOT_AGE_SECONDS
    ContentRefresh,     \* DISPLAY_CONTENT_REFRESH_SECONDS
    RateLimitCooldown,  \* _DISPLAY_RATE_LIMIT_COOLDOWN_SECONDS
    CooldownAfter,      \* _DISPLAY_COOLDOWN_AFTER_FAILURES
    CooldownBase,       \* _DISPLAY_COOLDOWN_BASE_SECONDS
    CooldownCap,        \* _DISPLAY_COOLDOWN_CAP_SECONDS
    MinInterval,        \* COMPLETION_MIN_INTERVAL_SECONDS
    MaxClock,           \* the bound of the clock
    MaxFaults           \* the bound of failed polls and lost writes

SnapshotAssumption ==
    /\ {DisplayFresh, MaxAge, MinInterval} \subseteq Nat
    /\ DisplayFresh <= MaxAge /\ MinInterval > 0 /\ "none" \notin Lists

Never == -1     \* a time that was never recorded

VARIABLES
    now,
    display,        \* liveStreamDisplaySnapshot
    beat,           \* liveStreamDisplayHeartbeat
    backup,         \* the streams and the time of liveStreamSnapshot
    reader,         \* a request of GET /live-streams under way
    asOf,           \* history: when Holodex last gave the list that "display" holds
    faults

records == <<display, beat, backup>>
vars == <<now, records, reader, asOf, faults>>

NoList == [at |-> Never, streams |-> "none"]

Init ==
    /\ now = 0
    /\ display = NoList
    /\ beat = [at |-> Never, failures |-> 0, until |-> 0]
    /\ backup = [completed |-> Never, list |-> NoList]
    /\ reader = [pc |-> "idle"]
    /\ asOf = Never
    /\ faults = 0

Tick ==
    /\ now < MaxClock
    /\ now' = now + 1
    /\ UNCHANGED <<records, reader, asOf, faults>>

-----------------------------------------------------------------------------
\* _read_display: the list, as recent as the later of its two times.
Displayed(large, heartbeat) ==
    IF large.at = Never THEN NoList
    ELSE [large EXCEPT !.at = IF heartbeat.at > @ THEN heartbeat.at ELSE @]

CoolingDown == now < beat.until

CooldownSeconds(failures, rateLimited) ==
    IF rateLimited THEN RateLimitCooldown
    ELSE IF failures < CooldownAfter THEN 0
    ELSE Min({CooldownCap, CooldownBase * 2 ^ (failures - CooldownAfter)})

\* A failed poll leaves the list and its time, and only counts.
PollFails(rateLimited) ==
    /\ ~CoolingDown
    /\ faults < MaxFaults
    /\ faults' = faults + 1
    /\ beat' \in {beat, [beat EXCEPT !.failures = @ + 1,
                                     !.until = now + CooldownSeconds(beat.failures + 1, rateLimited)]}
    /\ UNCHANGED <<now, display, backup, reader, asOf>>

\* The writes of a successful poll, in order: the list only when it changed or
\* is old, then the heartbeat.  "landed" is how many of them were stored.
DisplayWrites(list, landed) ==
    LET rewrite == \/ display.at = Never
                   \/ display.streams # list
                   \/ now - display.at >= ContentRefresh
    IN  /\ display' = IF rewrite /\ landed >= 1 THEN [at |-> now, streams |-> list] ELSE display
        /\ beat' = IF landed = 2 THEN [at |-> now, failures |-> 0, until |-> 0] ELSE beat

Polls(list, landed) ==
    /\ ~CoolingDown
    /\ faults' = IF landed = 2 THEN faults ELSE faults + 1
    /\ faults' <= MaxFaults
    /\ DisplayWrites(list, landed)
    /\ asOf' = IF display'.streams = list THEN now ELSE asOf
    /\ reader' = IF reader.pc = "beat" THEN [reader EXCEPT !.overtaken = TRUE] ELSE reader
    /\ UNCHANGED <<now, backup>>

-----------------------------------------------------------------------------
SharedListIsFresh ==
    /\ Displayed(display, beat).at # Never
    /\ now - Displayed(display, beat).at <= DisplayFresh

\* _streams_for_completion and the record that refresh_snapshot stores: a cycle
\* that fetched for itself keeps the list, one that used the shared list does not.
CompletionCycle(list) ==
    /\ backup.completed = Never \/ now - backup.completed >= MinInterval
    /\ ~CoolingDown
    /\ backup' = [completed |-> now,
                  list |-> IF SharedListIsFresh THEN NoList ELSE [at |-> now, streams |-> list]]
    /\ UNCHANGED <<now, display, beat, reader, asOf, faults>>

-----------------------------------------------------------------------------
Request ==
    /\ reader.pc = "idle"
    /\ reader' = [pc |-> "beat", moment |-> now, list |-> display, asOf |-> asOf, overtaken |-> FALSE]
    /\ UNCHANGED <<now, records, asOf, faults>>

Answer(pc, time) == [pc |-> pc, age |-> reader.moment - time, overtaken |-> reader.overtaken]

ReadHeartbeat ==
    /\ reader.pc = "beat"
    /\ LET shown == Displayed(reader.list, beat)
           fresh == shown.at # Never /\ reader.moment - shown.at <= DisplayFresh
       IN  reader' = IF fresh THEN Answer("served", reader.asOf)
                     ELSE [reader EXCEPT !.pc = "completion", !.list = shown]
    /\ UNCHANGED <<now, records, asOf, faults>>

\* Whatever there is.
ServesAnything(shown, kept) ==
    IF kept.at = Never /\ shown.at = Never THEN "direct" ELSE "served"

\* The fresher of the two lists, if it is not too old; the first one on a tie.
Serves(shown, kept) ==
    LET best == IF kept.at > shown.at THEN kept ELSE shown
    IN  IF best.at = Never THEN "direct"
        ELSE IF reader.moment - best.at > MaxAge THEN "stale"
        ELSE "served"

ReadCompletion ==
    /\ reader.pc = "completion"
    /\ reader' = Answer(Serves(reader.list, backup.list),
                        IF backup.list.at > reader.list.at THEN backup.list.at ELSE reader.asOf)
    /\ UNCHANGED <<now, records, asOf, faults>>

Responds ==
    /\ reader.pc \in {"served", "stale", "direct"}
    /\ reader' = [pc |-> "idle"]
    /\ UNCHANGED <<now, records, asOf, faults>>

Next ==
    \/ Tick
    \/ \E rateLimited \in BOOLEAN : PollFails(rateLimited)
    \/ \E list \in Lists : CompletionCycle(list) \/ \E landed \in 0..2 : Polls(list, landed)
    \/ Request \/ ReadHeartbeat \/ ReadCompletion \/ Responds

Spec == Init /\ [][Next]_vars

-----------------------------------------------------------------------------
\* The time that the display record and its heartbeat claim is a time at which
\* Holodex gave exactly the stored list, whichever of the writes of
\* refresh_display_snapshot were lost.
FreshMeansConfirmed == Displayed(display, beat).at <= asOf

\* A list that GET /live-streams serves was Holodex's answer at most MaxAge
\* before the request, unless a refresh came between its two reads.
ServedWithinBound ==
    reader.pc = "served" /\ ~reader.overtaken => reader.age <= MaxAge
=============================================================================
