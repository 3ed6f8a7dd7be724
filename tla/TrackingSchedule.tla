-------------------------- MODULE TrackingSchedule --------------------------
(***************************************************************************)
(* How often the statistics of a tracked video are refreshed               *)
(* (tracking/tracking_schedule.py): daily while it is young or Hot, else   *)
(* on a stable day of a cycle its activity gives it, and how the activity  *)
(* follows what each refresh observes.  A day may collect nothing of a     *)
(* video, which changes nothing.                                           *)
(***************************************************************************)
EXTENDS Integers

CONSTANTS
    Videos,
    Hash,           \* the digest of a video's id
    PublishedOn,    \* the day a video was published, not a day at all if it cannot be read
    RecentMaxAge,   \* RECENT_MAX_AGE_DAYS
    CycleDays,      \* [Unknown, Warm, Cold]: _CYCLE_DAYS_BY_STATE
    MinSnapshots,   \* MIN_SNAPSHOTS_BEFORE_COLD_ELIGIBLE
    QuietHot,       \* DEMOTION_QUIET_STREAK_HOT_TO_WARM
    QuietWarm,      \* DEMOTION_QUIET_STREAK_WARM_TO_COLD
    LastDay         \* bound on the days

ScheduleAssumption ==
    /\ RecentMaxAge \in Nat /\ QuietHot \in Nat \ {0} /\ QuietWarm \in Nat \ {0}
    /\ CycleDays \in [{"Unknown", "Warm", "Cold"} -> Nat \ {0}]
    /\ \A v \in Videos : Hash[v] \in Nat
    /\ MinSnapshots \in Nat /\ MinSnapshots <= QuietHot + 2     \* 3 snapshots, 2 quiet refreshes
    /\ LastDay \in Nat

VARIABLES
    day,
    video,          \* the scheduler state of each video
    seen            \* history: per video, the last day it was asked for, the growth of the
                    \* refreshes since the last one that was not quiet, and the state that one left

schedule == <<day, video, seen>>

States == {"Unknown", "Hot", "Warm", "Cold"}

\* What _growth_per_day measures, as the thresholds tell it apart.
Growths == {"quiet", "warm", "hot"}

(***************************************************************************)
(* Which videos are due                                                    *)
(***************************************************************************)
RotationSlot(v, cycle) == Hash[v] % cycle

Readable(v) == PublishedOn[v] \in Int
Age(v) == day - PublishedOn[v]

\* A video whose age or whose state means nothing is due, to be safe; both stores
\* refuse a state they do not know.
IsDueToday(v, state) ==
    \/ ~Readable(v)
    \/ Age(v) <= RecentMaxAge
    \/ state = "Hot"
    \/ state \notin DOMAIN CycleDays
    \/ RotationSlot(v, CycleDays[state]) = day % CycleDays[state]

SelectDueVideoIds == {v \in Videos : IsDueToday(v, video[v].state)}

(***************************************************************************)
(* classify_after_observation                                              *)
(***************************************************************************)
Quiets == [Hot |-> QuietHot, Warm |-> QuietWarm]
DemoteTo == [Hot |-> "Warm", Warm |-> "Cold"]

Becomes(s, state, streak) == [state |-> state, snapshots |-> s.snapshots + 1, streak |-> streak]

AfterQuiet(s) ==
    IF s.state \in DOMAIN Quiets /\ s.streak + 1 >= Quiets[s.state]
    THEN Becomes(s, DemoteTo[s.state], 0)
    ELSE Becomes(s, s.state, s.streak + 1)

AfterBootstrap(s, growth) ==
    CASE growth = "hot" -> Becomes(s, "Hot", 0)
      [] growth # "hot" /\ s.snapshots + 1 < MinSnapshots -> Becomes(s, "Unknown", 0)
      [] growth # "hot" /\ s.snapshots + 1 >= MinSnapshots ->
           Becomes(s, IF growth = "warm" THEN "Warm" ELSE "Cold", 0)

ClassifyAfterObservation(s, growth) ==
    IF s.snapshots = 0 THEN Becomes(s, "Unknown", 0)    \* the first observation is only a baseline
    ELSE IF s.state = "Unknown" THEN AfterBootstrap(s, growth)
    ELSE CASE growth = "hot" -> Becomes(s, "Hot", 0)
           [] growth = "warm" -> Becomes(s, IF s.state = "Hot" THEN "Hot" ELSE "Warm", 0)
           [] growth = "quiet" -> AfterQuiet(s)

(***************************************************************************)
(* A day asks for every video that is due; some refreshes fail.            *)
(***************************************************************************)
Remember(h, s, t, growth) ==
    IF t.state = "Unknown" \/ s.state = "Unknown" \/ growth # "quiet"
    THEN [h EXCEPT !.quiet = IF growth = "quiet" THEN 1 ELSE 0, !.from = t.state]
    ELSE [h EXCEPT !.quiet = @ + 1]

Day ==
    /\ day < LastDay
    /\ day' = day + 1
    /\ \E growth \in [Videos -> Growths \cup {"missed"}] :
        /\ \A v \in Videos \ SelectDueVideoIds : growth[v] = "missed"
        /\ video' = [v \in Videos |->
                       IF growth[v] = "missed" THEN video[v]
                       ELSE ClassifyAfterObservation(video[v], growth[v])]
        /\ seen' = [v \in Videos |->
                      LET asked == IF v \in SelectDueVideoIds THEN [seen[v] EXCEPT !.asked = day] ELSE seen[v]
                      IN IF growth[v] = "missed" THEN asked
                         ELSE Remember(asked, video[v], video'[v], growth[v])]

Init ==
    /\ day = 0
    /\ video = [v \in Videos |-> [state |-> "Unknown", snapshots |-> 0, streak |-> 0]]
    /\ seen = [v \in Videos |-> [asked |-> 0, quiet |-> 0, from |-> "Unknown"]]

Spec == Init /\ [][Day]_schedule

(***************************************************************************)
(* Properties                                                              *)
(***************************************************************************)
TypeOK ==
    /\ day \in 0..LastDay
    /\ video \in [Videos -> [state : States, snapshots : 0..LastDay, streak : 0..LastDay]]

\* No video waits longer than the cycle of its state to be asked for again, even
\* when it has just changed to another cycle: its slot in the new one comes up
\* within one turn.
WaitsOneCycle == \A v \in Videos :
    day - seen[v].asked <= IF video[v].state = "Hot" THEN 1 ELSE CycleDays[video[v].state]

\* A video earns its way down: from Hot it takes QuietHot quiet refreshes in a
\* row to become Warm and QuietWarm more to become Cold, and it is told apart from
\* an Unknown one only after MinSnapshots snapshots unless it grew strongly.
QuietIsEarned == \A v \in Videos : LET quiet == seen[v].quiet IN
    /\ seen[v].from = "Hot" =>
         video[v].state = IF quiet < QuietHot THEN "Hot"
                          ELSE IF quiet < QuietHot + QuietWarm THEN "Warm" ELSE "Cold"
    /\ seen[v].from = "Warm" => video[v].state = IF quiet < QuietWarm THEN "Warm" ELSE "Cold"
    /\ video[v].state \in {"Warm", "Cold"} => video[v].snapshots >= MinSnapshots

ScheduleIsSound == TypeOK /\ WaitsOneCycle /\ QuietIsEarned
=============================================================================
