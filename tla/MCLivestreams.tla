---------------------------- MODULE MCLivestreams ----------------------------
\* The three components that serve the list of livestreams: the lifecycle that
\* confirms ends (LivestreamCompletion), the snapshot and its heartbeat
\* (LiveSnapshot), and the list a request builds from them (LiveList). The models
\* share no variable, so the steps of one say nothing about another: "part" moves
\* and the other two stay in one of their initial states.
EXTENDS LivestreamCompletion

CONSTANTS
    s1, a, b,
    \* of LiveSnapshot
    Answerable, DisplayFresh, ContentRefresh, RateLimitCooldown, CooldownAfter, CooldownBase,
    CooldownCap, SnapshotFaults,
    \* of LiveList
    Videos, FirstStart, Lookahead, Buffer, EndedCache, Expose, AnswerTtl, FailureTtl, MaxNow,
    \* of both: MAX_SNAPSHOT_AGE_SECONDS
    MaxAge

\* The early start that lets a stream run, end and be looked up within the clock.
StartsEarly == [s \in Streams |-> 1]

VARIABLES
    part,
    snapNow, display, beat, backup, reader, asOf, snapFaults,
    listNow, kind, phase, start, snapshot, ends, endsCache, stored, answers,
    request, listed, listFaults

Snap == INSTANCE LiveSnapshot WITH
    Lists <- Answerable, now <- snapNow, faults <- snapFaults, MaxFaults <- SnapshotFaults

Live == INSTANCE LiveList WITH now <- listNow, faults <- listFaults

snapVars == <<snapNow, display, beat, backup, reader, asOf, snapFaults>>
liveVars == <<listNow, kind, phase, start, snapshot, ends, endsCache, stored, answers,
              request, listed, listFaults>>

\* A snapshot is not refused for its age while the display still counts as fresh,
\* and what is stored of the window lasts as long as a snapshot is served.
ASSUME LivestreamsAssumption == Snap!SnapshotAssumption /\ Live!ListAssumption

MCInit ==
    /\ Init /\ Snap!Init /\ Live!Init
    /\ part \in {"completion", "snapshot", "list"}
    /\ part # "completion" =>
          \A s \in Streams : broadcast[s].premiere /\ master[s] = "missing"
    /\ part # "list" => \A v \in Videos : kind[v] = "stream" /\ start[v] = CHOOSE t \in FirstStart : TRUE

MCNext ==
    \/ part = "completion" /\ Next /\ UNCHANGED <<part, snapVars, liveVars>>
    \/ part = "snapshot" /\ Snap!Next /\ UNCHANGED <<part, vars, liveVars>>
    \/ part = "list" /\ Live!Next /\ UNCHANGED <<part, vars, snapVars>>

MCSpec == MCInit /\ [][MCNext]_<<part, vars, snapVars, liveVars>>

\* Nothing a stored cycle saw live is forgotten before its end is (NotForgotten),
\* and every record keeps its type (update_completion_snapshot, complete_pending).
FollowedToTheEnd == TypeOK /\ NotForgotten

\* What GET /live-streams answers was confirmed by Holodex when it says so, is
\* within MAX_SNAPSHOT_AGE_SECONDS, holds no confirmed end, hides nothing that is
\* listed, and calls nothing live that YouTube never showed so (_handle_live_streams).
ServedListIsSound ==
    /\ Snap!FreshMeansConfirmed /\ Snap!ServedWithinBound
    /\ Live!LiveListIsSound

\* What was settled stands: a recorded end is not revised, an archive is handed to the
\* daily task only after its lookups (EndIsFinal, HandedOffAfterLookups), and no older
\* answer of a request replaces the classification an observation has stored
\* (_classify_live_entries).
SettledStands == EndIsFinal /\ HandedOffAfterLookups /\ Live!ClassificationStands
==============================================================================
