----------------------- MODULE SubscriberLeaderboard -----------------------
(***************************************************************************)
(* The daily subscriber snapshot and its leaderboards.  An execution that  *)
(* holds the date's lock collects the creators whose observation is still  *)
(* missing (collection/subscriber_snapshot.py), rebuilds the date's        *)
(* leaderboards from what is stored (analytics/subscriber_ranking.py), and *)
(* readers filter the newest result (api/read_api.py).                     *)
(***************************************************************************)
EXTENDS Integers, YoutubeClient

CONSTANTS
    Creators,     \* positive numbers, in the order of the roster
    Org,          \* a creator's organization in Creator Master
    Rosters,      \* the sets of active creators there may be
    Counts,       \* subscriber counts
    Hidden,       \* what a channel that hides its count shows
    Dates,        \* 1..the last report date
    Anchors,      \* SUBSCRIBER_EXACT_ANCHOR_DAYS
    BatchSize,    \* MAX_IDS_PER_REQUEST
    MaxRetries,   \* attempts of one request
    Lookback,     \* LATEST_REPORT_LOOKBACK_DAYS
    MaxRuns, MaxFaults

LeaderboardAssumption ==
    /\ Creators \subseteq Int /\ IsFiniteSet(Creators) /\ Rosters \subseteq SUBSET Creators
    /\ Counts \subseteq Int /\ Hidden \notin Counts
    /\ 1 \in Dates /\ Dates \subseteq Nat /\ Anchors \subseteq Nat \ {0}

VARIABLES
    today,
    snapshots,    \* per date, creator -> count or Hidden
    results,      \* per date, the sections of its result
    run,          \* the execution that holds the lock
    answers,      \* history: per date, what YouTube answered, as <<creator, value>>
    lost,         \* history: the answers of executions that could not store them
    runs, faults

vars == <<today, snapshots, results, run, answers, lost, runs, faults>>

ValidOrganizations == {"vspo", "hololive"}
Idle == [at |-> "idle", date |-> 1, roster |-> {}, existing |-> <<>>, todo |-> {}, found |-> <<>>, skipped |-> {},
         pass |-> 1, failed |-> FALSE, build |-> <<>>]

Init ==
    /\ today = 1
    /\ snapshots = [d \in Dates |-> <<>>]
    /\ results = [d \in Dates |-> <<>>]
    /\ run = Idle
    /\ answers = [d \in Dates |-> {}] /\ lost = {}
    /\ runs = 0 /\ faults = 0

Fails == faults < MaxFaults /\ faults' = faults + 1
Works == faults' = faults
Over(s) == [Idle EXCEPT !.at = "over", !.date = s.date, !.roster = s.roster, !.failed = s.failed]
Failed(s) == Over([s EXCEPT !.failed = TRUE])
Snapshot(d) == IF d \in Dates THEN snapshots[d] ELSE <<>>
\* The rows of f, and those of g that f has none of.
Joined(f, g) == [c \in DOMAIN f \cup DOMAIN g |-> IF c \in DOMAIN f THEN f[c] ELSE g[c]]

(***************************************************************************)
(* collect_subscriber_snapshot_if_missing                                  *)
(***************************************************************************)
\* Today's execution, or a rerun of an earlier date.
Start(d) ==
    /\ run.at \in {"idle", "over"} /\ runs < MaxRuns /\ d <= today
    /\ runs' = runs + 1
    /\ \E roster \in Rosters :
        LET missing == roster \ DOMAIN snapshots[d] IN
        run' = [Idle EXCEPT !.at = IF missing = {} THEN "build" ELSE "ask", !.date = d, !.roster = roster,
                    !.existing = snapshots[d], !.todo = missing]
    /\ UNCHANGED <<today, snapshots, results, answers, lost, faults>>

Batch(s) == {c \in s.todo : Cardinality({x \in s.todo : x < c}) < BatchSize}

\* After the last batch of a pass: one more pass for those without an answer.
Collected(s) == IF DOMAIN s.found = {} THEN "build" ELSE "write"
AfterBatch(s) ==
    IF s.todo # {} THEN s
    ELSE IF s.skipped # {} /\ s.pass = 1 THEN [s EXCEPT !.pass = 2, !.todo = s.skipped, !.skipped = {}]
    ELSE [s EXCEPT !.at = Collected(s)]

\* No further request: what was paid for is kept.
Quota(s) == [s EXCEPT !.skipped = s.skipped \cup s.todo, !.todo = {}, !.at = Collected(s)]

\* The batch told the values of its creators; the others are skipped.
Answered(s, value) ==
    [s EXCEPT !.todo = s.todo \ Batch(s), !.found = Joined(value, s.found),
              !.skipped = s.skipped \cup (Batch(s) \ DOMAIN value)]

CallOutcomes == {CallYoutubeApi(attempts) : attempts \in [1..MaxRetries -> Answers]}
Values == Counts \cup {Hidden}

GetChannelStatistics ==
    /\ run.at = "ask"
    /\ \E outcome \in CallOutcomes :
        \/ /\ outcome = "response"
           /\ \E told \in SUBSET Batch(run) : \E value \in [told -> Values] :
                /\ run' = AfterBatch(Answered(run, value))
                /\ answers' = [answers EXCEPT ![run.date] = @ \cup {<<c, value[c]>> : c \in told}]
        \/ /\ outcome = "QuotaExhaustedError"
           /\ run' = Quota(run)
           /\ UNCHANGED answers
        \/ /\ outcome = "YouTubeAPIError"
           /\ run' = AfterBatch(Answered(run, <<>>))
           /\ UNCHANGED answers
    /\ UNCHANGED <<today, snapshots, results, lost, runs, faults>>

\* The date's object is replaced as a whole: the rows that were there, and the new ones.
WriteDailySnapshot ==
    /\ run.at = "write"
    /\ LET write == snapshots' = [snapshots EXCEPT ![run.date] = Joined(run.existing, run.found)] IN
        \/ /\ Works /\ write
           /\ run' = [run EXCEPT !.at = "build"]
           /\ UNCHANGED lost
        \/ /\ Fails /\ (UNCHANGED snapshots \/ write)
           /\ run' = Failed(run)
           /\ lost' = lost \cup ({run.date} \X {<<c, run.found[c]>> : c \in DOMAIN run.found})
    /\ UNCHANGED <<today, results, answers, runs>>

(***************************************************************************)
(* The leaderboards                                                        *)
(***************************************************************************)
\* Why a creator with a row, or of the roster, has no rank by his own observation.
Unranked(c, rows, roster) ==
    CASE c \notin DOMAIN rows -> "current_missing"
      [] c \notin roster -> "creator_not_in_roster"
      [] Org[c] \notin ValidOrganizations -> "organization_invalid"
      [] rows[c] = Hidden -> "current_hidden"
      [] OTHER -> "none"
UnrankedGrowth(c, rows, anchor, roster) ==
    CASE Unranked(c, rows, roster) # "none" -> Unranked(c, rows, roster)
      [] c \notin DOMAIN anchor -> "anchor_missing"
      [] anchor[c] = Hidden -> "anchor_hidden"
      [] OTHER -> "none"

\* Highest first, and then by creatorId: the rank is the place.
Leaderboard(value) ==
    LET Before(a, b) == value[a] > value[b] \/ (value[a] = value[b] /\ a < b)
        order == CHOOSE s \in [1..Cardinality(DOMAIN value) -> DOMAIN value] :
                    \A i, j \in DOMAIN s : i < j => Before(s[i], s[j])
    IN [i \in DOMAIN order |-> [creator |-> order[i], value |-> value[order[i]]]]

Eligible(reason) == {c \in DOMAIN reason : reason[c] = "none"}
Section(reason, value) ==
    [rows |-> Leaderboard(value), ineligible |-> [c \in DOMAIN reason \ Eligible(reason) |-> reason[c]]]

\* The sections of a result; 0 is the total.
BuildSubscriberLeaderboards(s) ==
    LET rows == snapshots[s.date]      \* read back, its own repair included
        considered == s.roster \cup DOMAIN rows
    IN [k \in Anchors \cup {0} |->
         IF k = 0
         THEN LET noTotal == [c \in considered |-> Unranked(c, rows, s.roster)] IN
              Section(noTotal, [c \in Eligible(noTotal) |-> rows[c]])
         ELSE LET anchor == Snapshot(s.date - k)
                  noGrowth == [c \in considered |-> UnrankedGrowth(c, rows, anchor, s.roster)]
              IN Section(noGrowth, [c \in Eligible(noGrowth) |-> rows[c] - anchor[c]])]

Build ==
    /\ run.at = "build"
    /\ \/ /\ Works
          /\ LET built == BuildSubscriberLeaderboards(run) IN
             run' = IF built[0].rows = <<>> THEN Over(run) ELSE [run EXCEPT !.at = "put", !.build = built]
       \/ Fails /\ run' = Failed(run)
    /\ UNCHANGED <<today, snapshots, results, answers, lost, runs>>

WriteResult ==
    /\ run.at = "put"
    /\ \/ Works /\ results' = [results EXCEPT ![run.date] = run.build] /\ run' = Over(run)
       \/ Fails /\ UNCHANGED results /\ run' = Failed(run)
    /\ UNCHANGED <<today, snapshots, answers, lost, runs>>

Tick ==
    /\ run.at \in {"idle", "over"}
    /\ today + 1 \in Dates
    /\ today' = today + 1
    /\ UNCHANGED <<snapshots, results, run, answers, lost, runs, faults>>

Next ==
    \/ \E d \in Dates : Start(d)
    \/ GetChannelStatistics \/ WriteDailySnapshot \/ Build \/ WriteResult
    \/ Tick

Spec == Init /\ [][Next]_vars

(***************************************************************************)
(* What readers are shown: the newest result of the last days, filtered to *)
(* an organization and ranked anew.                                        *)
(***************************************************************************)
Readable == {d \in Dates : d <= today /\ d > today - Lookback /\ results[d] # <<>>}
FilterByOrganization(rows, organization) ==
    LET kept == {i \in DOMAIN rows : organization = "all" \/ Org[rows[i].creator] = organization}
    IN {[rank |-> Cardinality({j \in kept : j <= i}), row |-> rows[i]] : i \in kept}
SubscriberLeaderboard(metric, organization) ==
    FilterByOrganization(results[Max(Readable)][metric].rows, organization)

(***************************************************************************)
(* Properties                                                              *)
(***************************************************************************)
TypeOK ==
    /\ today \in Dates
    /\ \A d \in Dates : DOMAIN snapshots[d] \subseteq Creators /\ \A c \in DOMAIN snapshots[d] : snapshots[d][c] \in Values
    /\ \A d \in Dates : results[d] # <<>> => DOMAIN results[d] = Anchors \cup {0}

Rows(d) == {<<c, snapshots[d][c]>> : c \in DOMAIN snapshots[d]}

\* An observation YouTube gave is in its date's snapshot once the execution is over,
\* and stays what it was, whatever batches failed, ran out of quota or were asked
\* again by later executions; unless the execution failed to store it.
AnswersKept == run.at \in {"idle", "over"} =>
    \A d \in Dates : Rows(d) \subseteq answers[d] /\ \A a \in answers[d] : a \in Rows(d) \/ <<d, a>> \in lost

\* An execution that met no failure leaves everybody it has a count of on the
\* leaderboard: a repair of the snapshot reaches the result.
RepairsReachTheResult == run.at = "over" /\ ~run.failed =>
    \A c \in run.roster \cap DOMAIN snapshots[run.date] :
        snapshots[run.date][c] # Hidden /\ Org[c] \in ValidOrganizations =>
            \E row \in Range(results[run.date][0].rows) : row.creator = c

\* No rank rests on a guess: a total is the stored count, a growth the difference of
\* the counts of exactly two dates; everyone of the roster is ranked once or named
\* with a reason.
NothingInvented == \A d \in Dates : results[d] # <<>> => \A k \in Anchors \cup {0} :
    LET section == results[d][k] IN
    /\ \A row \in Range(section.rows) :
        row.value = IF k = 0 THEN snapshots[d][row.creator] ELSE snapshots[d][row.creator] - snapshots[d - k][row.creator]
    /\ \A i, j \in DOMAIN section.rows : section.rows[i].creator = section.rows[j].creator => i = j
    /\ {row.creator : row \in Range(section.rows)} \cap DOMAIN section.ineligible = {}

\* Whatever a reader filters to, the rank is one more than the number of creators of
\* that organization who are ahead; and ALL is the union of the organizations.
RanksAreRight == Readable # {} => \A metric \in Anchors \cup {0} : \A organization \in ValidOrganizations \cup {"all"} :
    LET shown == SubscriberLeaderboard(metric, organization)
        Ahead(a, b) == a.value > b.value \/ (a.value = b.value /\ a.creator < b.creator)
    IN /\ \A x \in shown : x.rank = Cardinality({y \in shown : Ahead(y.row, x.row)}) + 1
       /\ organization = "all" =>
            {x.row : x \in shown} = UNION {{x.row : x \in SubscriberLeaderboard(metric, o)} : o \in ValidOrganizations}

LeaderboardsAreSound == TypeOK /\ AnswersKept /\ RepairsReachTheResult /\ NothingInvented /\ RanksAreRight
=============================================================================
