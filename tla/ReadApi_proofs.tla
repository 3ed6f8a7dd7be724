-------------------------- MODULE ReadApi_proofs --------------------------
(***************************************************************************)
(* Proofs about what the app is served.                                    *)
(*                                                                         *)
(* The list of livestreams (MCLivestreams): no stream that a completion    *)
(* cycle saw live is forgotten, the list that is served is sound, and what *)
(* was settled stands.                                                     *)
(*                                                                         *)
(* The pages of a creator (MCHome): every video is listed once and as what *)
(* it is, a Premiere is announced once, a topic backfill is complete when  *)
(* it says so, and what a page has shown stands.                           *)
(*                                                                         *)
(* Each component has an inductive invariant of its own; a step of one     *)
(* leaves the variables of the others alone.                               *)
(***************************************************************************)
EXTENDS MCLivestreams, MCHome, FiniteSetTheorems, WellFoundedInduction, NaturalsInduction, TLAPS

(***************************************************************************)
(* The completion cycle.                                                   *)
(***************************************************************************)

\* The ended map and the completion record of a cycle that follows the
\* candidates P, as the cycle means to store them.
Awaiting(P, answered) == AwaitingArchive(WithEnds(P, answered), NewlyEnded(P, answered))

EndedAfter(P, answered, usable) ==
    WithLookups(WithEnds(P, answered), Awaiting(P, answered), answered, usable)

LiveIn(list) == {s \in Streams : list[s] = "live"}
UpcomingIn(list) == {s \in Streams : list[s] = "upcoming"}
Aged == DOMAIN ended \ DOMAIN Pruned

RecordAfter(list, P, answered, usable, raised) ==
    [at |-> now, baseline |-> LiveIn(list), pending |-> NextPending(P, answered, raised),
     watch |-> NextWatch(WithEnds(P, answered), Awaiting(P, answered), answered, usable)]

\* What a cycle changes: nothing, the ended map, or both records.
Records(list, P, answered, usable, raised) ==
    \/ /\ ended' = ended /\ completion' = completion
       /\ followed' = followed /\ expired' = expired
    \/ /\ ended' = EndedAfter(P, answered, usable) /\ completion' = completion
       /\ followed' = followed \ Aged /\ expired' = expired
    \/ /\ ended' = EndedAfter(P, answered, usable)
       /\ completion' = RecordAfter(list, P, answered, usable, raised)
       /\ followed' = (followed \cup LiveIn(list)) \ (Aged \cup UpcomingIn(list))
       /\ expired' = (expired \cup {s \in DOMAIN P : TooOld(P[s])}) \ LiveIn(list)

Rest(P, answered, usable, lost) ==
    /\ lost \in SUBSET ({"ended", "completion", "event", "times"} \cup Streams)
    /\ faults' = faults + Cardinality(lost) /\ Cardinality(lost) <= MaxFaults - faults
    /\ announced' \subseteq announced \cup (Awaiting(P, answered) \cap Premieres)
    /\ times' \subseteq times \cup Premieres
    /\ lookups' = [s \in Streams |-> IF s \in Awaiting(P, answered) \cap answered
                                     THEN lookups[s] + 1 ELSE lookups[s]]
    /\ UNCHANGED <<now, broadcast>>

LEMMA CycleShape ==
    ASSUME CompletionCycle
    PROVE  \E list \in Lists : \E answered \in SUBSET ProbeIds(list) :
           \E usable \in SUBSET answered : \E lost, raised :
              /\ Records(list, Candidates(list, answered), answered, usable, raised)
              /\ Rest(Candidates(list, answered), answered, usable, lost)
<1>1. PICK lost \in Losses, list \in {l \in Lists : HolodexSays(l)} :
           \E answered \in SUBSET ProbeIds(list) :
           \E usable \in SUBSET {s \in answered : Over(s)} :
              Completes(list, answered, usable, lost)
    BY DEF CompletionCycle
<1>2. PICK answered \in SUBSET ProbeIds(list) :
           \E usable \in SUBSET {s \in answered : Over(s)} :
              Completes(list, answered, usable, lost)
    BY <1>1
<1>3. PICK usable \in SUBSET {s \in answered : Over(s)} : Completes(list, answered, usable, lost)
    BY <1>2
<1> DEFINE P == Candidates(list, answered)
           raised == lost \cap Streams
           landed == IF "ended" \in lost THEN 0 ELSE IF "completion" \in lost THEN 1 ELSE 2
<1>4. /\ faults' = faults + Cardinality(lost)
      /\ CycleWrites(EndedAfter(P, answered, usable), RecordAfter(list, P, answered, usable, raised), landed)
      /\ announced' = IF "event" \in lost THEN announced
                      ELSE announced \cup {s \in Awaiting(P, answered) \cap Premieres :
                                              EndedAfter(P, answered, usable)[s].archive = "available"}
      /\ times' = IF landed = 2 /\ "times" \notin lost
                  THEN times \cup AvailablePremieres(EndedAfter(P, answered, usable)) ELSE times
      /\ lookups' = [s \in Streams |-> IF s \in Awaiting(P, answered) \cap answered
                                       THEN lookups[s] + 1 ELSE lookups[s]]
      /\ followed' = CASE landed = 0 -> followed
                       [] landed = 1 -> followed \ Aged
                       [] landed = 2 -> (followed \cup LiveIn(list)) \ (Aged \cup UpcomingIn(list))
      /\ expired' = IF landed = 2 THEN (expired \cup {s \in DOMAIN P : TooOld(P[s])}) \ LiveIn(list) ELSE expired
      /\ UNCHANGED <<now, broadcast>>
    BY <1>3 DEF Completes, EndedAfter, RecordAfter, LiveIn, UpcomingIn, Aged, Awaiting
<1>5. Rest(P, answered, usable, lost)
    BY <1>4 DEF Rest, Losses, AvailablePremieres
<1>6. Records(list, P, answered, usable, raised)
    <2> HIDE DEF P, raised
    <2>1. CASE landed = 0
        BY <2>1, <1>4 DEF Records, CycleWrites
    <2>2. CASE landed = 1
        BY <2>2, <1>4 DEF Records, CycleWrites
    <2>3. CASE landed = 2
        BY <2>3, <1>4 DEF Records, CycleWrites
    <2> QED  BY <2>1, <2>2, <2>3
<1>7. usable \in SUBSET answered
    OBVIOUS
<1> QED  BY <1>5, <1>6, <1>7

-----------------------------------------------------------------------------
(* The candidates, and where each of them goes.                            *)

LEMMA PrunedFacts ==
    /\ DOMAIN Pruned = {s \in DOMAIN ended : now - ended[s].at <= Retention}
    /\ \A s \in DOMAIN Pruned : Pruned[s] = ended[s]
BY DEF Pruned, Only

LEMMA MissingFacts ==
    ASSUME NEW list \in Lists
    PROVE  /\ DOMAIN Missing(list) = (DOMAIN completion.pending \cap StillPending(list))
                                         \cup (Vanished(list) \ StillPending(list))
           /\ \A s \in DOMAIN Missing(list) :
                 Missing(list)[s] = IF s \in Vanished(list) \ StillPending(list) THEN Candidate(FALSE)
                                    ELSE completion.pending[s]
BY DEF Missing, Extended, Only

LEMMA CandidateFacts ==
    ASSUME NEW list \in Lists, NEW answered
    PROVE  /\ DOMAIN Candidates(list, answered) = DOMAIN Missing(list) \cup Spotted(list, answered)
           /\ \A s \in DOMAIN Candidates(list, answered) :
                 Candidates(list, answered)[s] = IF s \in Spotted(list, answered) THEN Candidate(TRUE)
                                                 ELSE Missing(list)[s]
BY DEF Candidates, Extended

LEMMA WithEndsFacts ==
    ASSUME NEW P, NEW answered
    PROVE  /\ DOMAIN WithEnds(P, answered) = DOMAIN Pruned \cup NewlyEnded(P, answered)
           /\ \A s \in DOMAIN WithEnds(P, answered) :
                 /\ s \notin NewlyEnded(P, answered) => WithEnds(P, answered)[s] = ended[s]
                 /\ s \in NewlyEnded(P, answered) =>
                       WithEnds(P, answered)[s] = EndEntry(s, s \in Ends(P, answered))
BY PrunedFacts DEF WithEnds, Extended

LEMMA EndedFacts ==
    ASSUME NEW P, NEW answered, NEW usable
    PROVE  DOMAIN EndedAfter(P, answered, usable) = DOMAIN Pruned \cup NewlyEnded(P, answered)
BY WithEndsFacts DEF EndedAfter, WithLookups

LEMMA PendingFacts ==
    ASSUME NEW P, NEW answered, NEW raised
    PROVE  /\ DOMAIN NextPending(P, answered, raised) \subseteq DOMAIN P
           /\ \A s \in DOMAIN P : \/ TooOld(P[s])
                                  \/ s \in DOMAIN NextPending(P, answered, raised)
                                  \/ s \in Ends(P, answered) \cup GivenUp(P, answered)
           /\ \A s \in DOMAIN NextPending(P, answered, raised) :
                 LET stillOn == s \in Heard(P, answered) /\ broadcast[s].returned /\ ~Over(s) IN
                 \/ NextPending(P, answered, raised)[s] = P[s]
                 \/ /\ stillOn
                    /\ NextPending(P, answered, raised)[s] = [P[s] EXCEPT !.attempts = 0]
                 \/ /\ Retried(P[s])
                    /\ NextPending(P, answered, raised)[s] = [P[s] EXCEPT !.attempts = @ + 1]
<1>1. DOMAIN NextPending(P, answered, raised) \subseteq DOMAIN P
    BY DEF NextPending, Heard
<1>2. ASSUME NEW s \in DOMAIN P, ~TooOld(P[s]), s \notin Ends(P, answered) \cup GivenUp(P, answered)
      PROVE  s \in DOMAIN NextPending(P, answered, raised)
    BY <1>2 DEF NextPending, Heard, Ends, GivenUp, Over
<1>3. ASSUME NEW s \in DOMAIN NextPending(P, answered, raised)
      PROVE  \/ NextPending(P, answered, raised)[s] = P[s]
             \/ /\ s \in Heard(P, answered) /\ broadcast[s].returned /\ ~Over(s)
                /\ NextPending(P, answered, raised)[s] = [P[s] EXCEPT !.attempts = 0]
             \/ /\ Retried(P[s])
                /\ NextPending(P, answered, raised)[s] = [P[s] EXCEPT !.attempts = @ + 1]
    BY <1>3 DEF NextPending
<1> QED  BY <1>1, <1>2, <1>3

-----------------------------------------------------------------------------
(* The inductive invariant of the cycle.                                   *)

\* The candidates; the ended map; what a Premiere was announced from.
CandidatesOK ==
    /\ completion.baseline \subseteq Streams
    /\ \A s \in DOMAIN completion.pending :
          /\ s \in Streams /\ completion.pending[s] \in Pending
          /\ completion.pending[s].attempts < MaxPending

EndedOK == \A s \in DOMAIN ended : s \in Streams /\ ended[s] \in Entry

\* An archive is looked for only of a stream that ended, from the end that YouTube
\* knows, which does not change; and a lookup that counts was answered.
ArchiveOK == \A s \in DOMAIN ended :
    ended[s].archive = "pending" =>
        /\ ended[s].state = "ended" /\ broadcast[s].phase = "over"
        /\ ended[s].end = broadcast[s].end

OverOK == \A s \in Streams : broadcast[s].phase = "over" => broadcast[s].end \in Nat

WatchOK ==
    /\ lookups \in [Streams -> Nat]
    /\ \A s \in DOMAIN completion.watch :
          s \in Streams /\ completion.watch[s] \in Nat /\ completion.watch[s] <= lookups[s]

WorldOK ==
    /\ now \in 0..MaxClock
    /\ broadcast \in [Streams -> [phase : {"waiting", "live", "over"}, end : Nat \cup {Never},
                                  returned : BOOLEAN, premiere : BOOLEAN]]

\* The streams that stored cycles saw live.
FollowedOK == followed \subseteq Streams

PremieresOK == announced \subseteq Premieres /\ times \subseteq Premieres

FaultsOK == faults \in 0..MaxFaults

CompletionInv ==
    /\ WorldOK /\ CandidatesOK /\ EndedOK /\ ArchiveOK /\ OverOK /\ WatchOK
    /\ PremieresOK /\ FaultsOK /\ FollowedOK /\ NotForgotten

LEMMA CompletionTypes == CompletionInv => TypeOK
BY DEF CompletionInv, TypeOK, WorldOK, CandidatesOK, EndedOK, PremieresOK, FaultsOK

LEMMA CompletionInit == ASSUME Init PROVE CompletionInv
<1>1. WorldOK
    <2>1. now \in 0..MaxClock
        BY CompletionAssumption DEF CompletionAssumption, Init
    <2>2. broadcast \in [Streams -> [phase : {"waiting"}, end : {Never}, returned : {TRUE}, premiere : BOOLEAN]]
        BY DEF Init
    <2>3. [phase : {"waiting"}, end : {Never}, returned : {TRUE}, premiere : BOOLEAN] \subseteq
              [phase : {"waiting", "live", "over"}, end : Nat \cup {Never}, returned : BOOLEAN, premiere : BOOLEAN]
        OBVIOUS
    <2> QED  BY <2>1, <2>2, <2>3 DEF WorldOK
<1>2. CandidatesOK /\ EndedOK /\ ArchiveOK
    BY DEF Init, CandidatesOK, EndedOK, ArchiveOK, NoMap
<1>3. OverOK
    BY DEF Init, OverOK
<1>4. WatchOK
    BY DEF Init, WatchOK, NoMap
<1>5. PremieresOK /\ FaultsOK /\ FollowedOK /\ NotForgotten
    BY CompletionAssumption DEF CompletionAssumption, Init, PremieresOK, FaultsOK, FollowedOK, NotForgotten
<1> QED  BY <1>1, <1>2, <1>3, <1>4, <1>5 DEF CompletionInv

-----------------------------------------------------------------------------
(* The steps of the world.                                                 *)

LEMMA TickKeeps == ASSUME CompletionInv, Tick PROVE CompletionInv'
<1> USE DEF CompletionInv, Tick, records, history
<1>1. WorldOK'
    BY CompletionAssumption DEF CompletionAssumption, WorldOK
<1>2. CandidatesOK' /\ EndedOK' /\ ArchiveOK' /\ OverOK' /\ WatchOK'
    BY DEF CandidatesOK, EndedOK, ArchiveOK, OverOK, WatchOK
<1>3. PremieresOK' /\ FaultsOK' /\ FollowedOK' /\ NotForgotten'
    BY DEF PremieresOK, Premieres, FaultsOK, FollowedOK, NotForgotten
<1> QED  BY <1>1, <1>2, <1>3

LEMMA DiscoveredKeeps ==
    ASSUME CompletionInv, NEW s \in Streams, Discovered(s) PROVE CompletionInv'
<1> USE DEF CompletionInv, Discovered, records, history
<1>1. WorldOK' /\ CandidatesOK' /\ EndedOK' /\ ArchiveOK' /\ OverOK' /\ WatchOK'
    BY DEF WorldOK, CandidatesOK, EndedOK, ArchiveOK, OverOK, WatchOK
<1>2. PremieresOK' /\ FaultsOK' /\ FollowedOK' /\ NotForgotten'
    BY DEF PremieresOK, Premieres, FaultsOK, FollowedOK, NotForgotten
<1> QED  BY <1>1, <1>2

\* An end that is known does not change, and a stream stays a Premiere.
LEMMA BroadcastMoves ==
    ASSUME WorldOK, OverOK, NEW s \in Streams, Broadcasts(s)
    PROVE  /\ WorldOK' /\ OverOK'
           /\ \A t \in Streams :
                 /\ broadcast'[t].premiere = broadcast[t].premiere
                 /\ broadcast[t].phase = "over" =>
                       broadcast'[t].phase = "over" /\ broadcast'[t].end = broadcast[t].end
<1>1. CASE broadcast[s].phase = "waiting" /\ broadcast' = [broadcast EXCEPT ![s].phase = "live"]
    BY <1>1 DEF WorldOK, OverOK, Broadcasts
<1>2. CASE /\ broadcast[s].phase = "live"
           /\ broadcast' = [broadcast EXCEPT ![s].phase = "over", ![s].end = now]
    <2>1. now \in Nat /\ UNCHANGED now
        BY DEF WorldOK, Broadcasts
    <2>2. broadcast'[s] = [broadcast[s] EXCEPT !.phase = "over", !.end = now]
        BY <1>2 DEF WorldOK
    <2>3. \A t \in Streams \ {s} : broadcast'[t] = broadcast[t]
        BY <1>2 DEF WorldOK
    <2>4. WorldOK'
        <3>1. broadcast'[s] \in [phase : {"waiting", "live", "over"}, end : Nat \cup {Never},
                                 returned : BOOLEAN, premiere : BOOLEAN]
            BY <2>1, <2>2 DEF WorldOK
        <3>2. broadcast' = [t \in Streams |-> broadcast'[t]]
            BY <1>2 DEF WorldOK
        <3> QED  BY <2>1, <2>3, <3>1, <3>2 DEF WorldOK
    <2> QED  BY <1>2, <2>1, <2>2, <2>3, <2>4 DEF WorldOK, OverOK
<1>3. CASE broadcast' = [broadcast EXCEPT ![s].returned = ~@]
    BY <1>3 DEF WorldOK, OverOK, Broadcasts
<1> QED  BY <1>1, <1>2, <1>3 DEF Broadcasts

LEMMA BroadcastsKeeps ==
    ASSUME CompletionInv, NEW s \in Streams, Broadcasts(s) PROVE CompletionInv'
<1>0. /\ WorldOK' /\ OverOK'
      /\ \A t \in Streams :
            /\ broadcast'[t].premiere = broadcast[t].premiere
            /\ broadcast[t].phase = "over" =>
                  broadcast'[t].phase = "over" /\ broadcast'[t].end = broadcast[t].end
    BY BroadcastMoves DEF CompletionInv
<1>u. UNCHANGED <<completion, ended, announced, times, followed, expired, lookups, faults>>
    BY DEF Broadcasts, records, history
<1>1. CandidatesOK' /\ EndedOK' /\ WatchOK'
    BY <1>u DEF CompletionInv, CandidatesOK, EndedOK, WatchOK
<1>2. ArchiveOK'
    BY <1>0, <1>u DEF CompletionInv, ArchiveOK, EndedOK
<1>3. PremieresOK'
    BY <1>0, <1>u DEF CompletionInv, PremieresOK, Premieres
<1>4. FaultsOK' /\ FollowedOK' /\ NotForgotten'
    BY <1>u DEF CompletionInv, FaultsOK, FollowedOK, NotForgotten
<1> QED  BY <1>0, <1>1, <1>2, <1>3, <1>4 DEF CompletionInv

-----------------------------------------------------------------------------
(* The cycle keeps each part of the invariant.                             *)

LEMMA CandidatesTyped ==
    ASSUME CompletionInv, NEW list \in Lists, NEW answered
    PROVE  \A s \in DOMAIN Candidates(list, answered) :
              /\ s \in Streams /\ Candidates(list, answered)[s] \in Pending
              /\ Candidates(list, answered)[s].attempts < MaxPending
<1> DEFINE P == Candidates(list, answered)
<1> SUFFICES ASSUME NEW s \in DOMAIN P
             PROVE  s \in Streams /\ P[s] \in Pending /\ P[s].attempts < MaxPending
    OBVIOUS
<1>1. \A l \in BOOLEAN : Candidate(l) \in Pending /\ Candidate(l).attempts < MaxPending
    BY CompletionAssumption DEF CompletionAssumption, CompletionInv, WorldOK, Candidate, Pending
<1>2. CASE s \in Spotted(list, answered)
    <2>1. P[s] = Candidate(TRUE)
        BY <1>2, CandidateFacts
    <2>2. s \in Streams
        BY <1>2 DEF Spotted, Watched
    <2> QED  BY <1>1, <2>1, <2>2
<1>3. CASE s \notin Spotted(list, answered)
    <2>1. s \in DOMAIN Missing(list) /\ P[s] = Missing(list)[s]
        BY <1>3, CandidateFacts
    <2>2. CASE s \in Vanished(list) \ StillPending(list)
        <3>1. s \in Streams
            BY <2>2 DEF Vanished, CompletionInv, CandidatesOK
        <3> QED  BY <1>1, <2>1, <2>2, <3>1, MissingFacts
    <2>3. CASE s \notin Vanished(list) \ StillPending(list)
        BY <2>1, <2>3, MissingFacts DEF CompletionInv, CandidatesOK
    <2> QED  BY <2>2, <2>3
<1> QED  BY <1>2, <1>3

LEMMA CandidatesKept ==
    ASSUME CompletionInv, NEW list \in Lists, NEW answered, NEW usable, NEW raised,
           Records(list, Candidates(list, answered), answered, usable, raised)
    PROVE  CandidatesOK'
<1> DEFINE P == Candidates(list, answered)
           N == NextPending(P, answered, raised)
<1>1. CASE completion' = completion
    BY <1>1 DEF CompletionInv, CandidatesOK
<1>2. CASE completion' = RecordAfter(list, P, answered, usable, raised)
    <2>1. completion'.pending = N /\ completion'.baseline \subseteq Streams
        BY <1>2 DEF RecordAfter, LiveIn
    <2>2. ASSUME NEW s \in DOMAIN N PROVE s \in Streams /\ N[s] \in Pending /\ N[s].attempts < MaxPending
        <3> HIDE DEF P
        <3>1. s \in DOMAIN P
            BY PendingFacts
        <3>2. s \in Streams /\ P[s] \in Pending /\ P[s].attempts < MaxPending
            BY <3>1, CandidatesTyped DEF P
        <3>3. MaxPending \in Nat \ {0}
            BY CompletionAssumption DEF CompletionAssumption
        <3>4. [P[s] EXCEPT !.attempts = 0] \in Pending /\ [P[s] EXCEPT !.attempts = 0].attempts = 0
            BY <3>2, <3>3 DEF Pending
        <3>5. ASSUME Retried(P[s])
              PROVE  /\ [P[s] EXCEPT !.attempts = @ + 1] \in Pending
                     /\ [P[s] EXCEPT !.attempts = @ + 1].attempts < MaxPending
            BY <3>2, <3>3, <3>5 DEF Pending, Retried
        <3>6. \/ N[s] = P[s]
              \/ N[s] = [P[s] EXCEPT !.attempts = 0]
              \/ Retried(P[s]) /\ N[s] = [P[s] EXCEPT !.attempts = @ + 1]
            BY PendingFacts, <2>2
        <3>7. CASE N[s] = P[s]
            BY <3>2, <3>7
        <3>8. CASE N[s] = [P[s] EXCEPT !.attempts = 0]
            <4>1. 0 < MaxPending
                BY <3>3
            <4> HIDE DEF N
            <4> QED  BY <3>2, <3>4, <3>8, <4>1
        <3>9. CASE Retried(P[s]) /\ N[s] = [P[s] EXCEPT !.attempts = @ + 1]
            <4> HIDE DEF N
            <4> QED  BY <3>2, <3>5, <3>9
        <3> QED  BY <3>6, <3>7, <3>8, <3>9
    <2> HIDE DEF N
    <2> QED  BY <2>1, <2>2 DEF CandidatesOK
<1> QED  BY <1>1, <1>2 DEF Records

LEMMA EndedKept ==
    ASSUME CompletionInv, NEW list \in Lists, NEW answered, NEW usable, NEW raised, UNCHANGED broadcast,
           Records(list, Candidates(list, answered), answered, usable, raised)
    PROVE  EndedOK' /\ ArchiveOK'
<1> DEFINE P == Candidates(list, answered)
           W == WithEnds(P, answered)
           E == EndedAfter(P, answered, usable)
<1>1. CASE ended' = ended
    BY <1>1 DEF CompletionInv, EndedOK, ArchiveOK
<1>2. CASE ended' = E
    <2>0. /\ DOMAIN W = DOMAIN Pruned \cup NewlyEnded(P, answered)
          /\ \A s \in DOMAIN W : s \notin NewlyEnded(P, answered) => W[s] = ended[s]
          /\ DOMAIN E = DOMAIN W
          /\ \A s \in DOMAIN E : s \notin Awaiting(P, answered) => E[s] = W[s]
        <3>1. /\ DOMAIN W = DOMAIN Pruned \cup NewlyEnded(P, answered)
              /\ \A s \in DOMAIN W : s \notin NewlyEnded(P, answered) => W[s] = ended[s]
            BY WithEndsFacts
        <3>2. /\ DOMAIN E = DOMAIN W
              /\ \A s \in DOMAIN E : s \notin Awaiting(P, answered) => E[s] = W[s]
            BY DEF EndedAfter, WithLookups
        <3> QED  BY <3>1, <3>2
    <2>1. ASSUME NEW s \in DOMAIN W
          PROVE  /\ s \in Streams /\ W[s] \in Entry
                 /\ W[s].archive = "pending" =>
                       W[s].state = "ended" /\ broadcast[s].phase = "over" /\ W[s].end = broadcast[s].end
        <3>1. CASE s \in NewlyEnded(P, answered)
            <4>1. s \in DOMAIN P
                BY <3>1 DEF NewlyEnded, Ends, GivenUp, Heard
            <4>2. s \in Streams
                BY <4>1, CandidatesTyped
            <4>3. W[s] = EndEntry(s, s \in Ends(P, answered))
                BY <2>1, <3>1, WithEndsFacts
            <4>4. s \in Ends(P, answered) => broadcast[s].phase = "over"
                BY DEF Ends, Over
            <4>5. broadcast[s].end \in Nat \cup {Never} /\ now \in Nat
                BY <4>2 DEF CompletionInv, WorldOK
            <4>6. CASE s \in Ends(P, answered)
                BY <4>2, <4>3, <4>4, <4>5, <4>6 DEF EndEntry, Entry
            <4>7. CASE s \notin Ends(P, answered)
                BY <4>2, <4>3, <4>5, <4>7 DEF EndEntry, Entry
            <4> QED  BY <4>6, <4>7
        <3>2. CASE s \notin NewlyEnded(P, answered)
            <4>1. s \in DOMAIN ended /\ W[s] = ended[s]
                <5> HIDE DEF W
                <5> QED  BY <2>0, <2>1, <3>2, PrunedFacts
            <4> HIDE DEF W
            <4> QED  BY <4>1 DEF CompletionInv, EndedOK, ArchiveOK
        <3> QED  BY <3>1, <3>2
    <2>2. DOMAIN E = DOMAIN W
        BY <2>0
    <2>3. ASSUME NEW s \in DOMAIN E
          PROVE  /\ s \in Streams /\ E[s] \in Entry
                 /\ E[s].archive = "pending" =>
                       E[s].state = "ended" /\ broadcast[s].phase = "over" /\ E[s].end = broadcast[s].end
        <3>1. CASE s \notin Awaiting(P, answered)
            <4>1. E[s] = W[s]
                BY <3>1, <2>0, <2>3
            <4> HIDE DEF W, E
            <4> QED  BY <2>1, <2>2, <4>1
        <3>2. CASE s \in Awaiting(P, answered)
            <4> DEFINE x == ArchiveAfter(W[s], s, answered, usable)
            <4>1. E[s] = [W[s] EXCEPT !.archive = x]
                BY <3>2, <2>2, <2>3 DEF EndedAfter, WithLookups
            <4>2. W[s].archive = "pending"
                BY <3>2 DEF Awaiting, AwaitingArchive
            <4>3. x \in {"available", "handed_off", "pending"}
                BY DEF ArchiveAfter
            <4> HIDE DEF x, W, E
            <4>4. s \in Streams /\ W[s] \in Entry
                BY <2>1, <2>2
            <4>5. E[s] \in Entry /\ E[s].state = W[s].state /\ E[s].end = W[s].end
                BY <4>1, <4>3, <4>4 DEF Entry
            <4> QED  BY <2>1, <2>2, <4>2, <4>4, <4>5
        <3> QED  BY <3>1, <3>2
    <2> HIDE DEF E, W
    <2> QED  BY <1>2, <2>3 DEF EndedOK, ArchiveOK
<1> QED  BY <1>1, <1>2 DEF Records

LEMMA WatchKept ==
    ASSUME CompletionInv, NEW list \in Lists, NEW answered, NEW usable, NEW raised, NEW lost,
           Records(list, Candidates(list, answered), answered, usable, raised),
           Rest(Candidates(list, answered), answered, usable, lost)
    PROVE  WatchOK'
<1> DEFINE P == Candidates(list, answered)
           A == Awaiting(P, answered)
           W == WithEnds(P, answered)
<1>1. lookups' = [s \in Streams |-> IF s \in A \cap answered THEN lookups[s] + 1 ELSE lookups[s]]
    BY DEF Rest
<1>2. lookups' \in [Streams -> Nat] /\ \A s \in Streams : lookups[s] \in Nat /\ lookups[s] <= lookups'[s]
    <2> HIDE DEF A
    <2> QED  BY <1>1 DEF CompletionInv, WatchOK
<1>3. \A s \in Streams : Tried(s) \in Nat /\ Tried(s) <= lookups[s]
    BY DEF CompletionInv, WatchOK, Tried
<1>4. CASE completion' = completion
    BY <1>2, <1>4 DEF CompletionInv, WatchOK
<1>5. CASE completion' = RecordAfter(list, P, answered, usable, raised)
    <2>1. completion'.watch = NextWatch(W, A, answered, usable)
        BY <1>5 DEF RecordAfter
    <2>2. A \subseteq Streams
        <3>1. A \subseteq DOMAIN W
            BY DEF Awaiting, AwaitingArchive
        <3>2. NewlyEnded(P, answered) \subseteq DOMAIN P
            BY DEF NewlyEnded, Ends, GivenUp, Heard
        <3>3. DOMAIN W = DOMAIN Pruned \cup NewlyEnded(P, answered)
            BY WithEndsFacts
        <3>4. DOMAIN Pruned \subseteq Streams /\ DOMAIN P \subseteq Streams
            BY PrunedFacts, CandidatesTyped DEF CompletionInv, EndedOK
        <3> QED  BY <3>1, <3>2, <3>3, <3>4
    <2>3. ASSUME NEW s \in DOMAIN completion'.watch
          PROVE  s \in Streams /\ completion'.watch[s] \in Nat /\ completion'.watch[s] <= lookups'[s]
        <3>1. s \in A /\ completion'.watch[s] = IF s \in answered THEN Tried(s) + 1 ELSE Tried(s)
            BY <2>1, <2>3 DEF NextWatch
        <3>2. s \in Streams /\ (s \in answered => lookups'[s] = lookups[s] + 1)
            BY <1>1, <2>2, <3>1
        <3> QED  BY <1>2, <1>3, <3>1, <3>2
    <2> QED  BY <1>2, <2>3 DEF WatchOK
<1> QED  BY <1>4, <1>5 DEF Records

LEMMA NotForgottenKept ==
    ASSUME CompletionInv, NEW list \in Lists, NEW answered, NEW usable, NEW raised,
           Records(list, Candidates(list, answered), answered, usable, raised)
    PROVE  NotForgotten' /\ FollowedOK'
<1> DEFINE P == Candidates(list, answered)
           E == EndedAfter(P, answered, usable)
<1>1. CASE ended' = ended /\ completion' = completion /\ followed' = followed /\ expired' = expired
    BY <1>1 DEF CompletionInv, NotForgotten, FollowedOK
<1>0. DOMAIN ended \ Aged \subseteq DOMAIN E /\ DOMAIN Pruned \subseteq DOMAIN E
    <2>1. DOMAIN E = DOMAIN Pruned \cup NewlyEnded(P, answered)
        BY EndedFacts
    <2> HIDE DEF E
    <2> QED  BY <2>1, PrunedFacts DEF Aged
<1>2. CASE ended' = E /\ completion' = completion /\ followed' = followed \ Aged /\ expired' = expired
    BY <1>0, <1>2 DEF CompletionInv, NotForgotten, FollowedOK
<1>3. CASE /\ ended' = E
           /\ completion' = RecordAfter(list, P, answered, usable, raised)
           /\ followed' = (followed \cup LiveIn(list)) \ (Aged \cup UpcomingIn(list))
           /\ expired' = (expired \cup {s \in DOMAIN P : TooOld(P[s])}) \ LiveIn(list)
    <2> DEFINE N == NextPending(P, answered, raised)
    <2>1. completion'.baseline = LiveIn(list) /\ completion'.pending = N
        BY <1>3 DEF RecordAfter
    <2>2. ASSUME NEW s \in DOMAIN P, s \notin LiveIn(list) PROVE s \in DOMAIN N \cup DOMAIN E \cup expired'
        <3>1. CASE TooOld(P[s])
            BY <3>1, <2>2, <1>3
        <3>2. CASE s \in DOMAIN N
            BY <3>2
        <3>3. CASE s \in Ends(P, answered) \cup GivenUp(P, answered)
            BY <3>3, EndedFacts DEF NewlyEnded
        <3> QED  BY <3>1, <3>2, <3>3, PendingFacts
    <2>3. ASSUME NEW s \in followed', s \notin LiveIn(list)
          PROVE  s \in DOMAIN N \cup DOMAIN E \cup expired'
        <3>1. s \in followed /\ s \notin Aged /\ list[s] = "absent"
            BY <1>3, <2>3 DEF LiveIn, UpcomingIn, Lists, CompletionInv, FollowedOK
        <3>3. CASE s \in DOMAIN completion.pending
            <4>1. s \in DOMAIN Missing(list)
                BY <3>1, <3>3, MissingFacts DEF StillPending
            <4> QED  BY <4>1, <2>2, <2>3, CandidateFacts
        <3>4. CASE s \in completion.baseline
            <4>1. CASE s \in DOMAIN Pruned
                BY <4>1, <1>0
            <4>2. CASE s \notin DOMAIN Pruned
                <5>1. s \in Vanished(list)
                    BY <3>1, <3>4, <4>2 DEF Vanished
                <5>2. s \in DOMAIN Missing(list)
                    BY <5>1, <3>3, MissingFacts DEF StillPending
                <5> QED  BY <5>2, <2>2, <2>3, CandidateFacts
            <4> QED  BY <4>1, <4>2
        <3>5. CASE s \in DOMAIN ended
            BY <3>1, <3>5, <1>0
        <3>6. CASE s \in expired
            BY <3>6, <1>3, <2>3
        <3> QED  BY <3>1, <3>3, <3>4, <3>5, <3>6 DEF CompletionInv, NotForgotten
    <2> HIDE DEF N, E
    <2> QED  BY <1>3, <2>1, <2>3 DEF NotForgotten, CompletionInv, FollowedOK, LiveIn
<1> QED  BY <1>1, <1>2, <1>3 DEF Records

LEMMA CycleKeeps == ASSUME CompletionInv, CompletionCycle PROVE CompletionInv'
<1>1. PICK list \in Lists : \E answered \in SUBSET ProbeIds(list) :
           \E usable \in SUBSET answered : \E lost, raised :
              /\ Records(list, Candidates(list, answered), answered, usable, raised)
              /\ Rest(Candidates(list, answered), answered, usable, lost)
    BY CycleShape
<1>2. PICK answered \in SUBSET ProbeIds(list) : \E usable \in SUBSET answered : \E lost, raised :
              /\ Records(list, Candidates(list, answered), answered, usable, raised)
              /\ Rest(Candidates(list, answered), answered, usable, lost)
    BY <1>1
<1>3. PICK usable \in SUBSET answered : \E lost, raised :
              /\ Records(list, Candidates(list, answered), answered, usable, raised)
              /\ Rest(Candidates(list, answered), answered, usable, lost)
    BY <1>2
<1>4. PICK lost, raised : /\ Records(list, Candidates(list, answered), answered, usable, raised)
                         /\ Rest(Candidates(list, answered), answered, usable, lost)
    BY <1>3
<1>5. UNCHANGED <<now, broadcast>>
    BY <1>4 DEF Rest
<1>6. WorldOK' /\ OverOK'
    BY <1>5 DEF CompletionInv, WorldOK, OverOK
<1>7. CandidatesOK'
    BY <1>4, CandidatesKept
<1>8. EndedOK' /\ ArchiveOK'
    BY <1>4, <1>5, EndedKept
<1>9. WatchOK'
    BY <1>4, WatchKept
<1>10. PremieresOK'
    BY <1>4, <1>5 DEF CompletionInv, PremieresOK, Premieres, Rest
<1>11. FaultsOK'
    <2>1. IsFiniteSet({"ended", "completion", "event", "times"} \cup Streams)
        <3> DEFINE F == {"ended", "completion", "event", "times"}
        <3>1. IsFiniteSet({"ended"}) /\ IsFiniteSet({"completion"}) /\ IsFiniteSet({"event"}) /\ IsFiniteSet({"times"})
            BY FS_Singleton
        <3>2. IsFiniteSet({"ended"} \cup {"completion"}) /\ IsFiniteSet({"event"} \cup {"times"})
            BY <3>1, FS_Union
        <3>3. IsFiniteSet(({"ended"} \cup {"completion"}) \cup ({"event"} \cup {"times"}))
            BY <3>2, FS_Union
        <3>4. F = ({"ended"} \cup {"completion"}) \cup ({"event"} \cup {"times"})
            OBVIOUS
        <3>5. IsFiniteSet(F)
            BY <3>3, <3>4
        <3> HIDE DEF F
        <3>6. IsFiniteSet(F \cup Streams)
            BY <3>5, FS_Union, CompletionAssumption DEF CompletionAssumption
        <3> QED  BY <3>6 DEF F
    <2>2. IsFiniteSet(lost)
        BY <1>4, <2>1, FS_Subset DEF Rest
    <2>3. Cardinality(lost) \in Nat
        BY <2>2, FS_CardinalityType
    <2> QED  BY <1>4, <2>3, CompletionAssumption DEF CompletionAssumption, CompletionInv, FaultsOK, Rest
<1>12. NotForgotten' /\ FollowedOK'
    BY <1>4, NotForgottenKept
<1> QED  BY <1>6, <1>7, <1>8, <1>9, <1>10, <1>11, <1>12 DEF CompletionInv

LEMMA CompletionNext == ASSUME CompletionInv, [Next]_vars PROVE CompletionInv'
<1>1. CASE Tick
    BY <1>1, TickKeeps
<1>2. CASE \E s \in Streams : Broadcasts(s) \/ Discovered(s)
    BY <1>2, BroadcastsKeeps, DiscoveredKeeps
<1>3. CASE CompletionCycle
    BY <1>3, CycleKeeps
<1>4. CASE UNCHANGED vars
    <2> USE <1>4 DEF vars, records, history
    <2>1. WorldOK' /\ CandidatesOK' /\ EndedOK' /\ ArchiveOK' /\ OverOK' /\ WatchOK'
        BY DEF CompletionInv, WorldOK, CandidatesOK, EndedOK, ArchiveOK, OverOK, WatchOK
    <2>2. PremieresOK' /\ FaultsOK' /\ FollowedOK' /\ NotForgotten'
        BY DEF CompletionInv, PremieresOK, Premieres, FaultsOK, FollowedOK, NotForgotten
    <2> QED  BY <2>1, <2>2 DEF CompletionInv
<1> QED  BY <1>1, <1>2, <1>3, <1>4 DEF Next

-----------------------------------------------------------------------------
(* What a step may never do to a recorded end.                             *)

EndStands ==
    \A s \in DOMAIN ended : now - ended[s].at <= Retention =>
        /\ s \in DOMAIN ended'
        /\ \/ ended'[s] = ended[s]
           \/ /\ ended[s].archive = "pending"
              /\ ended'[s] = [ended[s] EXCEPT !.archive = ended'[s].archive]

HandsOffLate ==
    \A s \in DOMAIN ended \cap DOMAIN ended' :
        ended[s].archive = "pending" /\ ended'[s].archive = "handed_off" =>
            \/ lookups'[s] >= LookupAttempts /\ now - ended[s].end >= LookupWindow
            \/ now - ended[s].at > LookupMaxAge

LEMMA EndStandsInCycle ==
    ASSUME CompletionInv, NEW P, NEW answered, NEW usable, ended' = EndedAfter(P, answered, usable)
    PROVE  EndStands
<1> DEFINE W == WithEnds(P, answered)
           E == EndedAfter(P, answered, usable)
<1> SUFFICES ASSUME NEW s \in DOMAIN ended, now - ended[s].at <= Retention
             PROVE  /\ s \in DOMAIN E
                    /\ \/ E[s] = ended[s]
                       \/ /\ ended[s].archive = "pending"
                          /\ E[s] = [ended[s] EXCEPT !.archive = E[s].archive]
    BY DEF EndStands
<1>1. s \in DOMAIN Pruned /\ s \notin NewlyEnded(P, answered)
    BY PrunedFacts DEF NewlyEnded
<1>2. s \in DOMAIN W /\ W[s] = ended[s]
    BY <1>1, WithEndsFacts
<1>3. DOMAIN E = DOMAIN W
    BY DEF EndedAfter, WithLookups
<1>4. CASE s \notin Awaiting(P, answered)
    <2>1. E[s] = W[s]
        BY <1>2, <1>4 DEF EndedAfter, WithLookups
    <2> HIDE DEF E, W
    <2> QED  BY <1>2, <1>3, <2>1
<1>5. CASE s \in Awaiting(P, answered)
    <2> DEFINE x == ArchiveAfter(W[s], s, answered, usable)
    <2>1. E[s] = [W[s] EXCEPT !.archive = x]
        BY <1>2, <1>5 DEF EndedAfter, WithLookups
    <2>2. W[s].archive = "pending"
        BY <1>5 DEF Awaiting, AwaitingArchive
    <2>3. ended[s] \in Entry
        BY DEF CompletionInv, EndedOK
    <2> HIDE DEF E, W, x
    <2>4. E[s].archive = x
        BY <1>2, <2>1, <2>3 DEF Entry
    <2> QED  BY <1>2, <1>3, <2>1, <2>2, <2>4
<1> QED  BY <1>4, <1>5

LEMMA HandsOffInCycle ==
    ASSUME CompletionInv, NEW list \in Lists, NEW answered, NEW usable, NEW lost,
           ended' = EndedAfter(Candidates(list, answered), answered, usable),
           Rest(Candidates(list, answered), answered, usable, lost)
    PROVE  HandsOffLate
<1> DEFINE P == Candidates(list, answered)
           W == WithEnds(P, answered)
           E == EndedAfter(P, answered, usable)
<1> SUFFICES ASSUME NEW s \in DOMAIN ended, s \in DOMAIN E,
                    ended[s].archive = "pending", E[s].archive = "handed_off"
             PROVE  \/ lookups'[s] >= LookupAttempts /\ now - ended[s].end >= LookupWindow
                    \/ now - ended[s].at > LookupMaxAge
    BY DEF HandsOffLate
<1>0. /\ s \in Streams /\ ended[s] \in Entry /\ ended[s].state = "ended"
      /\ broadcast[s].phase = "over" /\ ended[s].end = broadcast[s].end /\ ended[s].end \in Nat
      /\ now \in Nat /\ {LookupAttempts, LookupWindow, LookupMaxAge} \subseteq Nat
    BY CompletionAssumption DEF CompletionAssumption, CompletionInv, WorldOK, EndedOK, ArchiveOK, OverOK
<1>1. s \in DOMAIN W
    BY DEF EndedAfter, WithLookups
<1>2. W[s] = IF s \in NewlyEnded(P, answered) THEN EndEntry(s, s \in Ends(P, answered)) ELSE ended[s]
    BY <1>1, WithEndsFacts
<1>3. /\ W[s].archive # "handed_off"
      /\ W[s].archive = "pending" => W[s].end = ended[s].end /\ W[s].at \in {now, ended[s].at}
    <2>1. CASE s \notin NewlyEnded(P, answered)
        <3>1. W[s] = ended[s]
            BY <1>2, <2>1
        <3> HIDE DEF W
        <3> QED  BY <3>1
    <2>2. CASE s \in NewlyEnded(P, answered)
        <3>1. W[s] = EndEntry(s, s \in Ends(P, answered))
            BY <1>2, <2>2
        <3> HIDE DEF W
        <3> QED  BY <1>0, <3>1 DEF EndEntry
    <2> QED  BY <2>1, <2>2
<1>4. s \in Awaiting(P, answered)
    <2>1. CASE s \notin Awaiting(P, answered)
        <3>1. E[s] = W[s]
            BY <1>1, <2>1 DEF EndedAfter, WithLookups
        <3> HIDE DEF E, W
        <3> QED  BY <1>3, <3>1
    <2> QED  BY <2>1
<1>5. W[s].archive = "pending"
    BY <1>4 DEF Awaiting, AwaitingArchive
<1>6. HandsOff(W[s], s, answered)
    <2> DEFINE x == ArchiveAfter(W[s], s, answered, usable)
    <2>1. E[s] = [W[s] EXCEPT !.archive = x]
        BY <1>1, <1>4 DEF EndedAfter, WithLookups
    <2>2. W[s] \in Entry \/ W[s] = EndEntry(s, s \in Ends(P, answered))
        BY <1>0, <1>2
    <2>3. E[s].archive = x
        <3> HIDE DEF E, W, x
        <3> QED  BY <2>1, <2>2 DEF Entry, EndEntry
    <2>4. x = "handed_off"
        <3> HIDE DEF E, x
        <3> QED  BY <2>3
    <2> HIDE DEF W
    <2> QED  BY <2>4 DEF ArchiveAfter
<1>7. CASE s \notin answered
    <2>1. now - W[s].at > LookupMaxAge
        BY <1>6, <1>7 DEF HandsOff
    <2> HIDE DEF W
    <2>2. W[s].at # now
        BY <1>0, <2>1
    <2> QED  BY <1>3, <1>5, <2>1, <2>2
<1>8. CASE s \in answered
    <2>1. lookups'[s] = lookups[s] + 1
        BY <1>0, <1>4, <1>8 DEF Rest
    <2>2. Tried(s) + 1 >= LookupAttempts /\ ~WindowOpen(W[s])
        BY <1>6, <1>8 DEF HandsOff
    <2>3. Tried(s) \in Nat /\ Tried(s) <= lookups[s] /\ lookups[s] \in Nat
        BY <1>0 DEF CompletionInv, WatchOK, Tried
    <2>4. now - ended[s].end >= LookupWindow
        <3> HIDE DEF W
        <3>1. W[s].end = ended[s].end /\ W[s].end # Never
            BY <1>0, <1>3, <1>5 DEF Never
        <3> QED  BY <1>0, <2>2, <3>1 DEF WindowOpen
    <2> HIDE DEF W
    <2> QED  BY <1>0, <2>1, <2>2, <2>3, <2>4
<1> QED  BY <1>7, <1>8

LEMMA NothingStepsBack ==
    ASSUME CompletionInv, [Next]_vars PROVE EndStands /\ HandsOffLate
<1>0. ASSUME ended' = ended PROVE EndStands /\ HandsOffLate
    BY <1>0 DEF EndStands, HandsOffLate
<1>1. CASE CompletionCycle
    <2>1. PICK list \in Lists : \E answered \in SUBSET ProbeIds(list) :
               \E usable \in SUBSET answered : \E lost, raised :
                  /\ Records(list, Candidates(list, answered), answered, usable, raised)
                  /\ Rest(Candidates(list, answered), answered, usable, lost)
        BY <1>1, CycleShape
    <2>2. PICK answered, usable, lost, raised :
                  /\ Records(list, Candidates(list, answered), answered, usable, raised)
                  /\ Rest(Candidates(list, answered), answered, usable, lost)
        BY <2>1
    <2>3. CASE ended' = EndedAfter(Candidates(list, answered), answered, usable)
        BY <2>2, <2>3, EndStandsInCycle, HandsOffInCycle
    <2> QED  BY <1>0, <2>2, <2>3 DEF Records
<1>2. CASE Tick \/ UNCHANGED vars \/ \E s \in Streams : Broadcasts(s) \/ Discovered(s)
    BY <1>0, <1>2 DEF Tick, vars, records, Broadcasts, Discovered
<1> QED  BY <1>1, <1>2 DEF Next

-----------------------------------------------------------------------------
(***************************************************************************)
(* The shared snapshot.                                                    *)
(***************************************************************************)

Listing == [at : Int, streams : Answerable \cup {"none"}]

SnapRecordsOK ==
    /\ snapNow \in Nat /\ asOf \in Int /\ display \in Listing
    /\ DOMAIN beat = {"at", "failures", "until"} /\ beat.at \in Int
    /\ backup \in [completed : Int, list : Listing]

\* A time that is stored was reached.
SnapTimesOK == display.at <= snapNow /\ beat.at <= snapNow

ReaderOK ==
    reader \in [pc : {"idle"}]
        \cup [pc : {"beat", "completion"}, moment : Nat, list : Listing, asOf : Int, overtaken : BOOLEAN]
        \cup [pc : {"served", "stale", "direct"}, age : Int, overtaken : BOOLEAN]

\* A request that no refresh overtook holds the stored list, or a list that was
\* confirmed at the time it claims.
ReaderConfirmed ==
    /\ reader.pc = "beat" /\ ~reader.overtaken => reader.list = display /\ reader.asOf = asOf
    /\ reader.pc = "completion" /\ ~reader.overtaken => reader.list.at <= reader.asOf

SnapInv ==
    /\ SnapRecordsOK /\ SnapTimesOK /\ ReaderOK /\ ReaderConfirmed
    /\ Snap!FreshMeansConfirmed /\ Snap!ServedWithinBound

LEMMA DisplayedFacts ==
    ASSUME NEW large \in Listing, NEW heartbeat, heartbeat.at \in Int
    PROVE  /\ Snap!Displayed(large, heartbeat) \in Listing
           /\ Snap!Displayed(large, heartbeat).at =
                 IF large.at = Snap!Never THEN Snap!Never
                 ELSE IF heartbeat.at > large.at THEN heartbeat.at ELSE large.at
<1> DEFINE t == IF heartbeat.at > large.at THEN heartbeat.at ELSE large.at
<1>1. Snap!NoList \in Listing /\ Snap!NoList.at = Snap!Never
    BY DEF Snap!NoList, Snap!Never, Listing
<1>2. Snap!Displayed(large, heartbeat) = IF large.at = Snap!Never THEN Snap!NoList ELSE [large EXCEPT !.at = t]
    BY DEF Snap!Displayed
<1>3. t \in Int
    BY DEF Listing
<1> HIDE DEF t
<1>4. [large EXCEPT !.at = t] \in Listing /\ [large EXCEPT !.at = t].at = t
    BY <1>3 DEF Listing
<1> QED  BY <1>1, <1>2, <1>4 DEF t

LEMMA SnapInitially == ASSUME Snap!Init PROVE SnapInv
<1>1. display \in Listing /\ display.at = -1 /\ backup \in [completed : Int, list : Listing]
    BY DEF Snap!Init, Snap!NoList, Snap!Never, Listing
<1>2. beat.at = -1 /\ DOMAIN beat = {"at", "failures", "until"} /\ asOf = -1 /\ snapNow = 0
    BY DEF Snap!Init, Snap!Never
<1>3. ReaderOK /\ reader.pc = "idle"
    BY DEF Snap!Init, ReaderOK
<1>4. Snap!FreshMeansConfirmed
    BY <1>1, <1>2, DisplayedFacts DEF Snap!FreshMeansConfirmed, Snap!Never
<1>5. SnapRecordsOK /\ SnapTimesOK
    BY <1>1, <1>2 DEF SnapRecordsOK, SnapTimesOK
<1>6. ReaderConfirmed /\ Snap!ServedWithinBound
    BY <1>3 DEF ReaderConfirmed, Snap!ServedWithinBound
<1> QED  BY <1>3, <1>4, <1>5, <1>6 DEF SnapInv

\* A step that leaves the two records of the display and the request alone.
LEMMA SnapQuiet ==
    ASSUME SnapInv, UNCHANGED <<display, asOf, reader>>,
           snapNow' \in Nat, snapNow <= snapNow',
           DOMAIN beat' = {"at", "failures", "until"}, beat'.at = beat.at,
           backup' \in [completed : Int, list : Listing]
    PROVE  SnapInv'
<1>1. SnapRecordsOK' /\ SnapTimesOK'
    BY DEF SnapInv, SnapRecordsOK, SnapTimesOK, Listing
<1>2. ReaderOK' /\ ReaderConfirmed' /\ Snap!ServedWithinBound'
    BY DEF SnapInv, ReaderOK, ReaderConfirmed, Snap!ServedWithinBound
<1>3. Snap!Displayed(display, beat)' = Snap!Displayed(display, beat)
    BY DEF Snap!Displayed
<1>4. Snap!FreshMeansConfirmed'
    BY <1>3 DEF SnapInv, Snap!FreshMeansConfirmed
<1> QED  BY <1>1, <1>2, <1>4 DEF SnapInv

LEMMA SnapTick == ASSUME SnapInv, Snap!Tick PROVE SnapInv'
<1>1. UNCHANGED <<display, beat, backup, reader, asOf>> /\ snapNow' = snapNow + 1
    BY DEF Snap!Tick, Snap!records
<1> QED  BY <1>1, SnapQuiet DEF SnapInv, SnapRecordsOK

LEMMA SnapPollFails ==
    ASSUME SnapInv, NEW rateLimited, Snap!PollFails(rateLimited) PROVE SnapInv'
<1>1. UNCHANGED <<snapNow, display, backup, reader, asOf>>
    BY DEF Snap!PollFails
<1>2. beat'.at = beat.at /\ DOMAIN beat' = {"at", "failures", "until"}
    <2> DEFINE until == snapNow + Snap!CooldownSeconds(beat.failures + 1, rateLimited)
    <2>1. beat' \in {beat, [beat EXCEPT !.failures = @ + 1, !.until = until]}
        BY DEF Snap!PollFails
    <2> HIDE DEF until
    <2> QED  BY <2>1 DEF SnapInv, SnapRecordsOK
<1> QED  BY <1>1, <1>2, SnapQuiet DEF SnapInv, SnapRecordsOK

LEMMA SnapCycle ==
    ASSUME SnapInv, NEW list \in Answerable, Snap!CompletionCycle(list) PROVE SnapInv'
<1>1. UNCHANGED <<snapNow, display, beat, reader, asOf>>
    BY DEF Snap!CompletionCycle
<1>2. backup' \in [completed : Int, list : Listing]
    <2>1. snapNow \in Int /\ Snap!NoList \in Listing /\ [at |-> snapNow, streams |-> list] \in Listing
        BY DEF SnapInv, SnapRecordsOK, Snap!NoList, Snap!Never, Listing
    <2> QED  BY <2>1 DEF Snap!CompletionCycle
<1> QED  BY <1>1, <1>2, SnapQuiet DEF SnapInv, SnapRecordsOK

LEMMA SnapPolls ==
    ASSUME SnapInv, NEW list \in Answerable, NEW landed \in 0..2, Snap!Polls(list, landed)
    PROVE  SnapInv'
<1> DEFINE rewrite == \/ display.at = Snap!Never
                      \/ display.streams # list
                      \/ snapNow - display.at >= ContentRefresh
<1>1. /\ display' = IF rewrite /\ landed >= 1 THEN [at |-> snapNow, streams |-> list] ELSE display
      /\ beat' = IF landed = 2 THEN [at |-> snapNow, failures |-> 0, until |-> 0] ELSE beat
      /\ asOf' = IF display'.streams = list THEN snapNow ELSE asOf
      /\ reader' = IF reader.pc = "beat" THEN [reader EXCEPT !.overtaken = TRUE] ELSE reader
      /\ UNCHANGED <<snapNow, backup>>
    BY DEF Snap!Polls, Snap!DisplayWrites
<1>2. /\ display' \in Listing /\ display'.at <= snapNow
      /\ DOMAIN beat' = {"at", "failures", "until"} /\ beat'.at \in Int /\ beat'.at <= snapNow
    BY <1>1 DEF SnapInv, SnapRecordsOK, SnapTimesOK, Listing
<1>3. SnapRecordsOK' /\ SnapTimesOK'
    BY <1>1, <1>2 DEF SnapInv, SnapRecordsOK, SnapTimesOK
<1>4. Snap!FreshMeansConfirmed'
    <2>1. Snap!Displayed(display', beat').at = IF display'.at = Snap!Never THEN Snap!Never
                                               ELSE IF beat'.at > display'.at THEN beat'.at ELSE display'.at
        BY <1>2, DisplayedFacts
    <2>2. CASE display'.streams = list
        <3>1. asOf' = snapNow
            BY <1>1, <2>2
        <3> QED  BY <1>2, <2>1, <3>1 DEF Snap!FreshMeansConfirmed, Snap!Never, SnapInv, SnapRecordsOK, Listing
    <2>3. CASE display'.streams # list
        <3>1. landed = 0
            BY <1>1, <2>3
        <3>2. UNCHANGED <<display, beat, asOf>>
            BY <1>1, <2>3, <3>1
        <3> QED  BY <3>2 DEF SnapInv, Snap!FreshMeansConfirmed, Snap!Displayed
    <2> QED  BY <2>2, <2>3
<1>5. CASE reader.pc = "beat"
    <2>1. reader \in [pc : {"beat", "completion"}, moment : Nat, list : Listing, asOf : Int, overtaken : BOOLEAN]
        BY <1>5 DEF SnapInv, ReaderOK
    <2>2. reader' \in [pc : {"beat", "completion"}, moment : Nat, list : Listing, asOf : Int, overtaken : BOOLEAN]
        BY <1>1, <1>5, <2>1
    <2>3. reader'.overtaken = TRUE /\ reader'.pc = "beat"
        BY <1>1, <1>5, <2>1
    <2>4. ReaderOK' /\ ReaderConfirmed' /\ Snap!ServedWithinBound'
        BY <2>2, <2>3 DEF ReaderOK, ReaderConfirmed, Snap!ServedWithinBound
    <2> QED  BY <1>3, <1>4, <2>4 DEF SnapInv
<1>6. CASE reader.pc # "beat"
    <2>1. reader' = reader
        BY <1>1, <1>6
    <2>2. ReaderOK' /\ ReaderConfirmed' /\ Snap!ServedWithinBound'
        BY <1>6, <2>1 DEF SnapInv, ReaderOK, ReaderConfirmed, Snap!ServedWithinBound
    <2> QED  BY <1>3, <1>4, <2>2 DEF SnapInv
<1> QED  BY <1>5, <1>6

-----------------------------------------------------------------------------
(* The request.                                                            *)

\* A step of the request leaves every record alone.
LEMMA RequestOnly ==
    ASSUME SnapInv, UNCHANGED <<snapNow, display, beat, backup, asOf>>,
           ReaderOK', ReaderConfirmed', Snap!ServedWithinBound'
    PROVE  SnapInv'
<1>1. SnapRecordsOK' /\ SnapTimesOK'
    BY DEF SnapInv, SnapRecordsOK, SnapTimesOK
<1>2. Snap!FreshMeansConfirmed'
    BY DEF SnapInv, Snap!FreshMeansConfirmed, Snap!Displayed
<1> QED  BY <1>1, <1>2 DEF SnapInv

LEMMA SnapRequest == ASSUME SnapInv, Snap!Request PROVE SnapInv'
<1>1. /\ UNCHANGED <<snapNow, display, beat, backup, asOf>>
      /\ reader' = [pc |-> "beat", moment |-> snapNow, list |-> display, asOf |-> asOf, overtaken |-> FALSE]
    BY DEF Snap!Request, Snap!records
<1>2. ReaderOK'
    BY <1>1 DEF SnapInv, SnapRecordsOK, ReaderOK
<1>3. ReaderConfirmed' /\ Snap!ServedWithinBound'
    BY <1>1 DEF ReaderConfirmed, Snap!ServedWithinBound
<1> QED  BY <1>1, <1>2, <1>3, RequestOnly

LEMMA SnapResponds == ASSUME SnapInv, Snap!Responds PROVE SnapInv'
<1>1. /\ UNCHANGED <<snapNow, display, beat, backup, asOf>>
      /\ reader' = [pc |-> "idle"]
    BY DEF Snap!Responds, Snap!records
<1>2. ReaderOK' /\ ReaderConfirmed' /\ Snap!ServedWithinBound'
    BY <1>1 DEF ReaderOK, ReaderConfirmed, Snap!ServedWithinBound
<1> QED  BY <1>1, <1>2, RequestOnly

LEMMA SnapReadHeartbeat == ASSUME SnapInv, Snap!ReadHeartbeat PROVE SnapInv'
<1> DEFINE shown == Snap!Displayed(reader.list, beat)
           fresh == shown.at # Snap!Never /\ reader.moment - shown.at <= DisplayFresh
<1>1. /\ UNCHANGED <<snapNow, display, beat, backup, asOf>> /\ reader.pc = "beat"
      /\ reader' = IF fresh THEN Snap!Answer("served", reader.asOf)
                   ELSE [reader EXCEPT !.pc = "completion", !.list = shown]
    BY DEF Snap!ReadHeartbeat, Snap!records
<1>2. reader \in [pc : {"beat", "completion"}, moment : Nat, list : Listing, asOf : Int, overtaken : BOOLEAN]
    BY <1>1 DEF SnapInv, ReaderOK
<1>3. shown \in Listing
    BY <1>2, DisplayedFacts DEF SnapInv, SnapRecordsOK
<1>4. ~reader.overtaken => shown.at <= reader.asOf
    BY <1>1 DEF SnapInv, ReaderConfirmed, Snap!FreshMeansConfirmed
<1>5. {DisplayFresh, MaxAge} \subseteq Nat /\ DisplayFresh <= MaxAge
    BY LivestreamsAssumption DEF LivestreamsAssumption, Snap!SnapshotAssumption
<1>6. CASE fresh
    <2>1. reader' = [pc |-> "served", age |-> reader.moment - reader.asOf, overtaken |-> reader.overtaken]
        BY <1>1, <1>6 DEF Snap!Answer
    <2>2. ReaderOK'
        BY <1>2, <2>1 DEF ReaderOK
    <2>3. ~reader.overtaken => reader.moment - reader.asOf <= MaxAge
        <3>1. reader.moment \in Int /\ reader.asOf \in Int /\ shown.at \in Int
            BY <1>2, <1>3 DEF Listing
        <3>2. reader.moment - shown.at <= DisplayFresh
            BY <1>6
        <3> HIDE DEF shown
        <3> QED  BY <1>4, <1>5, <3>1, <3>2
    <2>4. ReaderConfirmed' /\ Snap!ServedWithinBound'
        BY <2>1, <2>3 DEF ReaderConfirmed, Snap!ServedWithinBound
    <2> QED  BY <1>1, <2>2, <2>4, RequestOnly
<1>7. CASE ~fresh
    <2> HIDE DEF shown
    <2>1. reader' = [reader EXCEPT !.pc = "completion", !.list = shown]
        BY <1>1, <1>7
    <2>2. /\ reader' \in [pc : {"beat", "completion"}, moment : Nat, list : Listing, asOf : Int, overtaken : BOOLEAN]
          /\ reader'.pc = "completion" /\ reader'.list = shown /\ reader'.asOf = reader.asOf
          /\ reader'.overtaken = reader.overtaken
        BY <1>2, <1>3, <2>1
    <2>3. ReaderOK' /\ ReaderConfirmed' /\ Snap!ServedWithinBound'
        BY <1>4, <2>2 DEF ReaderOK, ReaderConfirmed, Snap!ServedWithinBound
    <2> QED  BY <1>1, <2>3, RequestOnly
<1> QED  BY <1>6, <1>7

LEMMA SnapReadCompletion == ASSUME SnapInv, Snap!ReadCompletion PROVE SnapInv'
<1> DEFINE shown == reader.list
           kept == backup.list
           time == IF kept.at > shown.at THEN kept.at ELSE reader.asOf
<1>1. /\ UNCHANGED <<snapNow, display, beat, backup, asOf>> /\ reader.pc = "completion"
      /\ reader' = [pc |-> Snap!Serves(shown, kept), age |-> reader.moment - time, overtaken |-> reader.overtaken]
    BY DEF Snap!ReadCompletion, Snap!records, Snap!Answer
<1>2. /\ reader.moment \in Nat /\ reader.asOf \in Int /\ reader.overtaken \in BOOLEAN
      /\ shown.at \in Int /\ kept.at \in Int
    <2>1. reader \in [pc : {"beat", "completion"}, moment : Nat, list : Listing, asOf : Int, overtaken : BOOLEAN]
        BY <1>1 DEF SnapInv, ReaderOK
    <2> QED  BY <2>1 DEF SnapInv, SnapRecordsOK, Listing
<1>3. Snap!Serves(shown, kept) \in {"served", "stale", "direct"}
    BY DEF Snap!Serves
<1>4. MaxAge \in Nat
    BY LivestreamsAssumption DEF LivestreamsAssumption, Snap!SnapshotAssumption
<1>5. Snap!Serves(shown, kept) = "served" =>
          reader.moment - (IF kept.at > shown.at THEN kept.at ELSE shown.at) <= MaxAge
    <2>1. CASE kept.at > shown.at
        BY <1>2, <1>4, <2>1 DEF Snap!Serves
    <2>2. CASE ~(kept.at > shown.at)
        BY <1>2, <1>4, <2>2 DEF Snap!Serves
    <2> QED  BY <2>1, <2>2
<1>6. ~reader.overtaken => shown.at <= reader.asOf
    BY <1>1 DEF SnapInv, ReaderConfirmed
<1>7. ReaderOK'
    BY <1>1, <1>2, <1>3 DEF ReaderOK
<1>8. ReaderConfirmed' /\ Snap!ServedWithinBound'
    <2>1. Snap!Serves(shown, kept) = "served" /\ ~reader.overtaken => reader.moment - time <= MaxAge
        BY <1>2, <1>5, <1>6, <1>4
    <2> QED  BY <1>1, <1>3, <2>1 DEF ReaderConfirmed, Snap!ServedWithinBound
<1> QED  BY <1>1, <1>7, <1>8, RequestOnly

LEMMA SnapNext == ASSUME SnapInv, Snap!Next PROVE SnapInv'
<1> USE DEF Snap!Next
<1> QED  BY SnapTick, SnapPollFails, SnapCycle, SnapPolls, SnapRequest, SnapResponds,
            SnapReadHeartbeat, SnapReadCompletion

-----------------------------------------------------------------------------
(***************************************************************************)
(* The list that a request serves.                                         *)
(***************************************************************************)

Reports == [v : Videos, status : {"upcoming", "live"}, start : Nat]
Shown == [v : Videos, status : {"upcoming", "live", "premiere"}, start : Nat]

OneEach(streams) == \A s \in streams : \A t \in streams : s.v = t.v => s = t

ListTypesOK ==
    /\ Live!TypeOK
    /\ kind \in [Videos -> {"stream", "premiere"}]

\* Only a Premiere is stored, or answered, as an upload.
UploadsOK == \A v \in Videos :
    /\ stored[v] = "upload" => kind[v] = "premiere"
    /\ answers[v].class = "upload" => kind[v] = "premiere"

\* The snapshot is what was listed, cut to the window and the time it is served.
SnapshotOK ==
    /\ listed \subseteq Reports /\ OneEach(listed)
    /\ snapshot.at \in Int
    /\ snapshot.streams =
          {s \in listed : s.status = "upcoming" => s.start <= snapshot.at + Lookahead + Buffer}

EndsOK == \A v \in DOMAIN ends :
    /\ v \in Videos /\ ends[v].at \in Nat /\ ends[v].at <= listNow
    /\ ends[v].state = "ended" => phase[v] = "ended"

\* The cached ends are the record as it was when they were read.
CacheOK ==
    /\ endsCache.at \in Int /\ endsCache.at <= listNow
    /\ \A v \in DOMAIN endsCache.ends : v \in DOMAIN ends /\ endsCache.ends[v] = ends[v]
    /\ \A v \in DOMAIN ends \ DOMAIN endsCache.ends : ends[v].at >= endsCache.at

UnderWay == request.pc # "idle"

ShapeOK ==
    \/ request = [pc |-> "idle"]
    \/ /\ request \in [pc : {"classify", "persist", "served"}, at : Nat, readable : BOOLEAN,
                       listed : SUBSET Reports, streams : SUBSET Shown, todo : SUBSET Videos]
       /\ request.at <= listNow /\ OneEach(request.streams)

\* The answers to be stored are those of the request.
TodoOK == request.pc = "persist" => \A v \in request.todo : answers[v].class # "unknown"

WindowOK == UnderWay =>
    \A s \in request.streams : s.status # "live" => s.start <= request.at + Lookahead

HiddenOK == UnderWay =>
    \A s \in request.listed :
        s.status = "upcoming" /\ s.start <= request.at + Lookahead /\ ~Live!IsListed(s.v)
            => stored[s.v] = "upload"

Outdated(v) == request.at - ends[v].at <= Expose /\ ends[v].state = "ended"

AgreesOK == UnderWay /\ request.readable =>
    \A s \in request.streams :
        s.status = "live" /\ s.v \in DOMAIN ends /\ Outdated(s.v) => ends[s.v].at > request.at - EndedCache

RunningOK == UnderWay =>
    \A s \in request.listed :
        s.status = "live" /\ kind[s.v] = "stream" /\ ~Live!IsListed(s.v) => phase[s.v] = "ended"

RequestOK == ShapeOK /\ TodoOK /\ WindowOK /\ HiddenOK /\ AgreesOK /\ RunningOK

ListInv == ListTypesOK /\ UploadsOK /\ SnapshotOK /\ EndsOK /\ CacheOK /\ RequestOK

LEMMA ListIsSound == ListInv => Live!LiveListIsSound
<1> SUFFICES ASSUME ListInv PROVE Live!LiveListIsSound
    OBVIOUS
<1> USE DEF ListInv, RequestOK
<1>1. ASSUME Live!ServedNow PROVE UnderWay /\ request.at \in Nat
    BY <1>1 DEF Live!ServedNow, UnderWay, ShapeOK
<1>2. \A s : Live!IsWithinLookahead(s, request.at, 0) <=> s.start <= request.at + Lookahead + 0
    BY DEF Live!IsWithinLookahead
<1>3. Lookahead \in Nat
    BY LivestreamsAssumption DEF LivestreamsAssumption, Live!ListAssumption
<1>4. Live!WindowIsExact
    BY <1>1, <1>2, <1>3 DEF Live!WindowIsExact, WindowOK, HiddenOK
<1>5. Live!ListAgreesWithEnds
    BY <1>1 DEF Live!ListAgreesWithEnds, Live!RecentlyEnded, AgreesOK, Outdated
<1>6. Live!RunningIsListed
    BY <1>1 DEF Live!RunningIsListed, RunningOK
<1> QED  BY <1>4, <1>5, <1>6 DEF Live!LiveListIsSound, ListTypesOK

-----------------------------------------------------------------------------
(* What YouTube shows of a stream and of a Premiere.                       *)

LEMMA Classes ==
    ASSUME kind \in [Videos -> {"stream", "premiere"}],
           phase \in [Videos -> {"upcoming", "running", "ended"}], NEW v \in Videos
    PROVE  /\ kind[v] = "stream" =>
                 Live!Class(v) = IF phase[v] = "upcoming" THEN "upcoming"
                                 ELSE IF phase[v] = "running" THEN "live" ELSE "completed"
           /\ kind[v] = "premiere" => Live!Class(v) = IF phase[v] = "running" THEN "live" ELSE "upload"
BY DEF Live!Class, Live!Classification, Live!Item, Live!IsCompletedPremiere, Live!IsUpcomingPremiere

LEMMA ListInitially == ASSUME Live!Init PROVE ListInv
<1> USE LivestreamsAssumption DEF LivestreamsAssumption, Live!ListAssumption
<1>1. ListTypesOK
    <2>1. /\ listNow \in 0..MaxNow /\ listFaults \in 0..MaxFaults
          /\ phase \in [Videos -> Live!Phases] /\ start \in [Videos -> FirstStart]
        BY DEF Live!Init, Live!Phases
    <2>2. kind \in [Videos -> {"stream", "premiere"}] /\ kind \in [Videos -> Live!Kinds]
        <3>1. kind \in [Videos -> {"stream", "premiere"}]
            BY DEF Live!Init
        <3> QED  BY <3>1 DEF Live!Kinds
    <2>3. /\ stored \in [Videos -> {"absent", "none", "upload", "upcoming", "live", "completed"}]
          /\ answers \in [Videos -> [until : Nat, class : {"unknown", "upload", "upcoming"}]]
        BY DEF Live!Init
    <2> QED  BY <2>1, <2>2, <2>3 DEF ListTypesOK, Live!TypeOK
<1>2. UploadsOK
    BY DEF Live!Init, UploadsOK
<1>3. SnapshotOK
    BY DEF Live!Init, SnapshotOK, OneEach, Live!Never
<1>4. EndsOK /\ CacheOK
    BY DEF Live!Init, EndsOK, CacheOK, Live!NoMap, Live!Never
<1>5. RequestOK
    BY DEF Live!Init, RequestOK, ShapeOK, TodoOK, WindowOK, HiddenOK, AgreesOK, RunningOK, UnderWay
<1> QED  BY <1>1, <1>2, <1>3, <1>4, <1>5 DEF ListInv

-----------------------------------------------------------------------------
(* The steps beside the request.                                           *)

\* What a step beside the request may do to what the request relies on.
LEMMA RequestKept ==
    ASSUME ListInv, UNCHANGED <<request, answers, kind>>,
           listNow' \in Nat, listNow <= listNow',
           \A v \in Videos : stored[v] = "upload" => stored'[v] = "upload",
           \A v \in Videos : phase[v] = "ended" => phase'[v] = "ended",
           \A v \in DOMAIN ends' : (v \in DOMAIN ends /\ ends'[v] = ends[v]) \/ ends'[v].at = listNow
    PROVE  RequestOK'
<1>0. listNow \in Nat /\ EndedCache \in Nat \ {0}
    BY LivestreamsAssumption DEF ListInv, ListTypesOK, Live!TypeOK, LivestreamsAssumption, Live!ListAssumption
<1>1. ShapeOK'
    BY <1>0 DEF ListInv, RequestOK, ShapeOK, OneEach
<1>2. TodoOK' /\ WindowOK'
    BY DEF ListInv, RequestOK, TodoOK, WindowOK, UnderWay
<1>3. UnderWay => /\ request.at \in Nat /\ request.at <= listNow
                  /\ \A s \in request.listed : s.v \in Videos
    BY DEF ListInv, RequestOK, ShapeOK, UnderWay, Reports
<1>4. HiddenOK'
    BY <1>3 DEF ListInv, RequestOK, HiddenOK, UnderWay, Live!IsListed
<1>5. RunningOK'
    BY <1>3 DEF ListInv, RequestOK, RunningOK, UnderWay, Live!IsListed
<1>6. AgreesOK'
    <2> SUFFICES ASSUME UnderWay, request.readable, NEW s \in request.streams, s.status = "live",
                        s.v \in DOMAIN ends', Outdated(s.v)'
                 PROVE  ends'[s.v].at > request.at - EndedCache
        BY DEF AgreesOK, UnderWay
    <2>1. CASE ends'[s.v].at = listNow
        BY <1>0, <1>3, <2>1
    <2>2. CASE s.v \in DOMAIN ends /\ ends'[s.v] = ends[s.v]
        BY <2>2 DEF ListInv, RequestOK, AgreesOK, Outdated
    <2> QED  BY <2>1, <2>2
<1> QED  BY <1>1, <1>2, <1>4, <1>5, <1>6 DEF RequestOK

LEMMA ListTick == ASSUME ListInv, Live!Tick PROVE ListInv'
<1>1. /\ listNow' = listNow + 1 /\ listNow < MaxNow
      /\ UNCHANGED <<kind, phase, start, snapshot, ends, listed, stored, endsCache, answers, request, listFaults>>
    BY DEF Live!Tick, Live!world, Live!records, Live!container
<1>2. listNow \in Nat /\ listNow' \in 0..MaxNow /\ listNow <= listNow'
    BY <1>1, LivestreamsAssumption
    DEF ListInv, ListTypesOK, Live!TypeOK, LivestreamsAssumption, Live!ListAssumption
<1>3. ListTypesOK'
    BY <1>1, <1>2 DEF ListInv, ListTypesOK, Live!TypeOK
<1>4. UploadsOK' /\ SnapshotOK'
    BY <1>1 DEF ListInv, UploadsOK, SnapshotOK, OneEach
<1>5. EndsOK' /\ CacheOK'
    BY <1>1, <1>2 DEF ListInv, EndsOK, CacheOK
<1>6. RequestOK'
    BY <1>1, <1>2, RequestKept
<1> QED  BY <1>3, <1>4, <1>5, <1>6 DEF ListInv

LEMMA ListBroadcasts == ASSUME ListInv, NEW v \in Videos, Live!Broadcasts(v) PROVE ListInv'
<1>1. /\ phase[v] # "ended"
      /\ phase' = [phase EXCEPT ![v] = IF phase[v] = "upcoming" THEN "running" ELSE "ended"]
      /\ UNCHANGED <<listNow, kind, start, snapshot, ends, listed, stored, endsCache, answers, request, listFaults>>
    BY DEF Live!Broadcasts, Live!world, Live!records, Live!container
<1>2. phase \in [Videos -> {"upcoming", "running", "ended"}] /\ listNow \in Nat
    BY LivestreamsAssumption
    DEF ListInv, ListTypesOK, Live!TypeOK, Live!Phases, LivestreamsAssumption, Live!ListAssumption
<1>3. /\ phase' \in [Videos -> {"upcoming", "running", "ended"}]
      /\ \A w \in Videos : phase[w] = "ended" => phase'[w] = "ended"
    BY <1>1, <1>2
<1>4. ListTypesOK'
    BY <1>1, <1>3 DEF ListInv, ListTypesOK, Live!TypeOK, Live!Phases
<1>5. UploadsOK' /\ SnapshotOK'
    BY <1>1 DEF ListInv, UploadsOK, SnapshotOK, OneEach
<1>6. EndsOK' /\ CacheOK'
    BY <1>1, <1>3 DEF ListInv, EndsOK, CacheOK
<1>7. RequestOK'
    BY <1>1, <1>2, <1>3, RequestKept
<1> QED  BY <1>4, <1>5, <1>6, <1>7 DEF ListInv

LEMMA ListRefresh == ASSUME ListInv, Live!Refresh PROVE ListInv'
<1>0. PICK late \in SUBSET Videos :
         LET streams == UNION {Live!Reported(v, v \in late) : v \in Videos} IN
            /\ snapshot' = [at |-> listNow, streams |-> Live!Kept(streams)]
            /\ listed' = streams
    BY DEF Live!Refresh
<1> DEFINE streams == UNION {Live!Reported(v, v \in late) : v \in Videos}
<1>1. /\ UNCHANGED <<listNow, kind, phase, start, ends, stored, endsCache, answers, request, listFaults>>
      /\ snapshot' = [at |-> listNow, streams |-> Live!Kept(streams)] /\ listed' = streams
    BY <1>0 DEF Live!Refresh, Live!world, Live!container
<1>2. /\ phase \in [Videos -> {"upcoming", "running", "ended"}] /\ listNow \in Nat
      /\ start \in [Videos -> Nat]
    <2>1. FirstStart \subseteq Nat /\ MaxNow \in Nat
        BY LivestreamsAssumption DEF LivestreamsAssumption, Live!ListAssumption
    <2>2. /\ phase \in [Videos -> {"upcoming", "running", "ended"}] /\ listNow \in 0..MaxNow
          /\ start \in [Videos -> FirstStart]
        BY DEF ListInv, ListTypesOK, Live!TypeOK, Live!Phases
    <2>3. start \in [Videos -> Nat]
        BY <2>1, <2>2
    <2> QED  BY <2>1, <2>2, <2>3
<1>3. ASSUME NEW v \in Videos, NEW s \in Live!Reported(v, v \in late)
      PROVE  s.v = v /\ s \in Reports /\ Live!Reported(v, v \in late) = {s}
    <2>1. \A x \in {"upcoming", "live"} : Live!Stream(v, x).v = v /\ Live!Stream(v, x) \in Reports
        BY <1>2 DEF Live!Stream, Reports
    <2>2. phase[v] \in {"upcoming", "running", "ended"}
        BY <1>2
    <2>3. CASE phase[v] = "upcoming"
        BY <1>3, <2>1, <2>3 DEF Live!Reported
    <2>4. CASE phase[v] = "running"
        BY <1>3, <2>1, <2>4 DEF Live!Reported
    <2>5. CASE phase[v] = "ended"
        BY <1>3, <2>1, <2>5 DEF Live!Reported
    <2> QED  BY <2>2, <2>3, <2>4, <2>5
<1>4. streams \subseteq Reports /\ OneEach(streams)
    <2>1. streams \subseteq Reports
        BY <1>3
    <2>2. ASSUME NEW s \in streams, NEW t \in streams, s.v = t.v PROVE s = t
        <3>1. PICK v \in Videos : s \in Live!Reported(v, v \in late)
            OBVIOUS
        <3>2. PICK w \in Videos : t \in Live!Reported(w, w \in late)
            OBVIOUS
        <3>3. v = w
            BY <1>3, <2>2, <3>1, <3>2
        <3> QED  BY <1>3, <3>1, <3>2, <3>3
    <2> QED  BY <2>1, <2>2 DEF OneEach
<1> HIDE DEF streams
<1>5. SnapshotOK'
    <2>1. snapshot'.at = listNow /\ snapshot'.streams = Live!Kept(streams)
        BY <1>1
    <2>2. Live!Kept(streams) = {s \in streams : s.status = "upcoming" => s.start <= listNow + Lookahead + Buffer}
        BY DEF Live!Kept, Live!IsWithinLookahead
    <2> QED  BY <1>1, <1>2, <1>4, <2>1, <2>2 DEF SnapshotOK
<1>6. ListTypesOK' /\ UploadsOK' /\ EndsOK' /\ CacheOK'
    BY <1>1 DEF ListInv, ListTypesOK, Live!TypeOK, UploadsOK, EndsOK, CacheOK
<1>7. RequestOK'
    BY <1>1, <1>2, RequestKept
<1> QED  BY <1>5, <1>6, <1>7 DEF ListInv

LEMMA ListRecordEnd == ASSUME ListInv, NEW v \in Videos, Live!RecordEnd(v) PROVE ListInv'
<1>1. PICK state \in {"ended", "unavailable"} :
         /\ phase[v] = (IF state = "ended" THEN "ended" ELSE "running")
         /\ ends' = [w \in DOMAIN ends \cup {v} |->
                        IF w = v THEN [at |-> listNow, state |-> state] ELSE ends[w]]
    BY DEF Live!RecordEnd
<1>2. /\ UNCHANGED <<listNow, kind, phase, start, snapshot, listed, stored, endsCache, answers, request, listFaults>>
      /\ v \notin DOMAIN ends
    BY DEF Live!RecordEnd, Live!world, Live!container
<1>3. listNow \in Nat
    BY LivestreamsAssumption
    DEF ListInv, ListTypesOK, Live!TypeOK, LivestreamsAssumption, Live!ListAssumption
<1>4. /\ DOMAIN ends' = DOMAIN ends \cup {v}
      /\ ends'[v].at = listNow /\ (ends'[v].state = "ended" => phase[v] = "ended")
      /\ \A w \in DOMAIN ends : ends'[w] = ends[w]
    BY <1>1, <1>2
<1>5. EndsOK'
    BY <1>2, <1>3, <1>4 DEF ListInv, EndsOK
<1>6. CacheOK'
    BY <1>2, <1>3, <1>4 DEF ListInv, CacheOK
<1>7. ListTypesOK' /\ UploadsOK' /\ SnapshotOK'
    BY <1>2 DEF ListInv, ListTypesOK, Live!TypeOK, UploadsOK, SnapshotOK, OneEach
<1>8. RequestOK'
    BY <1>2, <1>3, <1>4, RequestKept
<1> QED  BY <1>5, <1>6, <1>7, <1>8 DEF ListInv

LEMMA ListStores ==
    ASSUME ListInv, NEW v \in Videos,
           UNCHANGED <<listNow, kind, phase, start, snapshot, ends, listed, endsCache, answers, request, listFaults>>,
           NEW c \in {"none", "upload", "upcoming", "live", "completed"}, stored' = [stored EXCEPT ![v] = c],
           stored[v] # "upload", c = "upload" => kind[v] = "premiere"
    PROVE  ListInv'
<1>1. stored' \in [Videos -> {"absent", "none", "upload", "upcoming", "live", "completed"}]
    BY DEF ListInv, ListTypesOK, Live!TypeOK
<1>2. ListTypesOK'
    BY <1>1 DEF ListInv, ListTypesOK, Live!TypeOK
<1>3. \A w \in Videos : stored'[w] = IF w = v THEN c ELSE stored[w]
    BY DEF ListInv, ListTypesOK, Live!TypeOK
<1>4. UploadsOK'
    BY <1>3 DEF ListInv, UploadsOK
<1>5. SnapshotOK' /\ EndsOK' /\ CacheOK'
    BY DEF ListInv, SnapshotOK, OneEach, EndsOK, CacheOK
<1>6. listNow \in Nat
    BY LivestreamsAssumption
    DEF ListInv, ListTypesOK, Live!TypeOK, LivestreamsAssumption, Live!ListAssumption
<1>7. RequestOK'
    BY <1>3, <1>6, RequestKept
<1> QED  BY <1>2, <1>4, <1>5, <1>7 DEF ListInv

LEMMA ListDiscover == ASSUME ListInv, NEW v \in Videos, Live!Discover(v) PROVE ListInv'
BY ListStores DEF Live!Discover, Live!world, Live!records, Live!container

\* A Premiere that is stored as an upload stays one.
LEMMA ListObserve == ASSUME ListInv, NEW v \in Videos, Live!Observe(v) PROVE ListInv'
<1>1. /\ UNCHANGED <<listNow, kind, phase, start, snapshot, ends, listed, endsCache, answers, request, listFaults>>
      /\ stored' = [stored EXCEPT ![v] = Live!Class(v)] /\ stored[v] # Live!Class(v)
      /\ ~(stored[v] = "upload" /\ Live!Class(v) = "live")
    BY DEF Live!Observe, Live!world, Live!records, Live!container
<1>2. /\ kind[v] \in {"stream", "premiere"}
      /\ kind[v] = "stream" => Live!Class(v) \in {"upcoming", "live", "completed"}
      /\ kind[v] = "premiere" => Live!Class(v) \in {"live", "upload"}
    BY Classes DEF ListInv, ListTypesOK, Live!TypeOK, Live!Phases
<1>3. stored[v] # "upload"
    BY <1>1, <1>2 DEF ListInv, UploadsOK
<1>4. Live!Class(v) \in {"none", "upload", "upcoming", "live", "completed"}
    BY <1>2
<1> QED  BY <1>1, <1>2, <1>3, <1>4, ListStores

-----------------------------------------------------------------------------
(* The steps of the request.                                               *)

\* A step of the request leaves what YouTube shows and the records alone.
LEMMA RequestStep ==
    ASSUME ListInv, UNCHANGED <<listNow, kind, phase, start, snapshot, ends, listed, stored>>,
           listFaults' \in 0..MaxFaults,
           answers' \in [Videos -> [until : Nat, class : {"unknown", "upload", "upcoming"}]],
           \A v \in Videos : answers'[v].class = "upload" => kind[v] = "premiere",
           CacheOK', RequestOK'
    PROVE  ListInv'
<1>1. ListTypesOK' /\ UploadsOK' /\ SnapshotOK' /\ EndsOK'
    BY DEF ListInv, ListTypesOK, Live!TypeOK, UploadsOK, SnapshotOK, OneEach, EndsOK
<1> QED  BY <1>1 DEF ListInv

LEMMA FaultsTyped ==
    ASSUME ListInv, Live!Works \/ Live!Fails PROVE listFaults' \in 0..MaxFaults
BY LivestreamsAssumption
DEF ListInv, ListTypesOK, Live!TypeOK, Live!Works, Live!Fails, LivestreamsAssumption, Live!ListAssumption

\* The list that is read, over a map of ends that is the record or a part of it
\* no older than the cache, or none when the record could not be read.
LEMMA ReadingOK ==
    ASSUME ListInv, Live!Served, NEW map, NEW readable \in BOOLEAN, NEW since \in Int,
           since <= listNow, readable => listNow - since < EndedCache,
           \A v \in DOMAIN map : v \in DOMAIN ends /\ map[v] = ends[v],
           readable => \A v \in DOMAIN ends \ DOMAIN map : ends[v].at >= since,
           request' = Live!Reading(map, readable),
           UNCHANGED <<listNow, kind, phase, ends, stored>>
    PROVE  RequestOK'
<1> DEFINE W == Live!Window(map)
<1>1. /\ request'.pc = "classify" /\ request'.at = listNow /\ request'.readable = readable
      /\ request'.listed = listed /\ request'.streams = W /\ request'.todo = {}
    BY DEF Live!Reading
<1>2. listNow \in Nat /\ {Lookahead, Buffer, MaxAge, EndedCache} \subseteq Nat /\ MaxAge <= Buffer
    BY LivestreamsAssumption
    DEF ListInv, ListTypesOK, Live!TypeOK, LivestreamsAssumption, Live!ListAssumption
<1>3. /\ \A s \in W : /\ s \in snapshot.streams
                      /\ s.status = "upcoming" => s.start <= listNow + Lookahead
                      /\ s.status = "live" /\ s.v \in DOMAIN map /\ map[s.v].state = "ended"
                            => ~(listNow - map[s.v].at <= Expose)
      /\ \A s \in snapshot.streams :
            (s.status = "upcoming" => s.start <= listNow + Lookahead) /\ s \notin W
                => s.status = "live" /\ s.v \in DOMAIN map /\ map[s.v].state = "ended"
    <2>1. \A s : Live!IsWithinLookahead(s, listNow, 0) <=> s.start <= listNow + Lookahead
        BY <1>2 DEF Live!IsWithinLookahead
    <2> QED  BY <2>1 DEF Live!Window, Live!WithoutConfirmedEnded, Live!RecentlyEnded
<1>4. snapshot.streams \subseteq listed /\ listed \subseteq Reports
    BY DEF ListInv, SnapshotOK
<1> HIDE DEF W
<1>5. ShapeOK'
    <2>1. W \subseteq Shown /\ listed \in SUBSET Reports
        BY <1>3, <1>4 DEF Reports, Shown
    <2>2. request' = [pc |-> "classify", at |-> listNow, readable |-> readable, listed |-> listed,
                      streams |-> W, todo |-> {}]
        BY DEF Live!Reading, W
    <2>3. request' \in [pc : {"classify", "persist", "served"}, at : Nat, readable : BOOLEAN,
                        listed : SUBSET Reports, streams : SUBSET Shown, todo : SUBSET Videos]
        BY <1>2, <2>1, <2>2
    <2>4. OneEach(W)
        BY <1>3, <1>4 DEF ListInv, SnapshotOK, OneEach
    <2> QED  BY <1>1, <1>2, <2>3, <2>4 DEF ShapeOK, OneEach
<1>6. TodoOK'
    BY <1>1 DEF TodoOK
<1>7. WindowOK'
    BY <1>1, <1>3, <1>4 DEF WindowOK, Reports
<1>8. HiddenOK'
    <2> SUFFICES ASSUME NEW s \in listed, s.status = "upcoming", s.start <= listNow + Lookahead,
                        s \notin W
                 PROVE  FALSE
        BY <1>1 DEF HiddenOK, Live!IsListed
    <2>1. listNow - snapshot.at <= MaxAge /\ snapshot.at \in Int /\ s.start \in Nat
        BY <1>4 DEF Live!Served, ListInv, SnapshotOK, Reports
    <2>2. s.start <= snapshot.at + Lookahead + Buffer
        BY <1>2, <2>1
    <2>3. s \in snapshot.streams
        BY <2>2 DEF ListInv, SnapshotOK
    <2> QED  BY <1>3, <2>3
<1>9. AgreesOK'
    <2> SUFFICES ASSUME readable, NEW s \in W, s.status = "live", s.v \in DOMAIN ends,
                        listNow - ends[s.v].at <= Expose, ends[s.v].state = "ended"
                 PROVE  ends[s.v].at > listNow - EndedCache
        BY <1>1 DEF AgreesOK, Outdated
    <2>1. s.v \notin DOMAIN map
        BY <1>3
    <2>2. ends[s.v].at >= since /\ ends[s.v].at \in Nat
        BY <2>1 DEF ListInv, EndsOK
    <2> QED  BY <1>2, <2>2
<1>10. RunningOK'
    <2> SUFFICES ASSUME NEW s \in listed, s.status = "live", s \notin W PROVE phase[s.v] = "ended"
        BY <1>1 DEF RunningOK, Live!IsListed
    <2>1. s \in snapshot.streams
        BY DEF ListInv, SnapshotOK
    <2>2. s.v \in DOMAIN ends /\ ends[s.v].state = "ended"
        BY <1>3, <2>1
    <2> QED  BY <2>2 DEF ListInv, EndsOK
<1> QED  BY <1>5, <1>6, <1>7, <1>8, <1>9, <1>10 DEF RequestOK

LEMMA ListReadLists == ASSUME ListInv, Live!ReadLists PROVE ListInv'
<1>1. /\ UNCHANGED <<listNow, kind, phase, start, snapshot, ends, listed, stored, answers>>
      /\ Live!Served
    BY DEF Live!ReadLists, Live!world, Live!records
<1>2. /\ listNow \in Nat /\ EndedCache \in Nat \ {0}
      /\ answers' \in [Videos -> [until : Nat, class : {"unknown", "upload", "upcoming"}]]
      /\ \A v \in Videos : answers'[v].class = "upload" => kind[v] = "premiere"
    BY <1>1, LivestreamsAssumption
    DEF ListInv, ListTypesOK, UploadsOK, Live!TypeOK, LivestreamsAssumption, Live!ListAssumption
<1>3. CASE /\ Live!Works
           /\ endsCache' = IF Live!CachedEnds THEN endsCache ELSE [at |-> listNow, ends |-> ends]
           /\ request' = Live!Reading(endsCache'.ends, TRUE)
    <2>1. /\ endsCache'.at \in Int /\ endsCache'.at <= listNow /\ listNow - endsCache'.at < EndedCache
          /\ \A v \in DOMAIN endsCache'.ends : v \in DOMAIN ends /\ endsCache'.ends[v] = ends[v]
          /\ \A v \in DOMAIN ends \ DOMAIN endsCache'.ends : ends[v].at >= endsCache'.at
        <3>1. CASE Live!CachedEnds
            BY <1>3, <3>1 DEF Live!CachedEnds, ListInv, CacheOK
        <3>2. CASE ~Live!CachedEnds
            BY <1>2, <1>3, <3>2
        <3> QED  BY <3>1, <3>2
    <2>2. CacheOK'
        BY <1>1, <2>1 DEF CacheOK
    <2>3. RequestOK'
        BY <1>1, <1>3, <2>1, ReadingOK
    <2> QED  BY <1>1, <1>2, <1>3, <2>2, <2>3, FaultsTyped, RequestStep
<1>4. CASE ~Live!CachedEnds /\ Live!Fails /\ request' = Live!Reading(Live!NoMap, FALSE) /\ UNCHANGED endsCache
    <2>1. CacheOK'
        BY <1>1, <1>4 DEF ListInv, CacheOK
    <2>2. RequestOK'
        <3>1. DOMAIN Live!NoMap = {}
            BY DEF Live!NoMap
        <3>2. /\ FALSE \in BOOLEAN /\ listNow \in Int /\ listNow <= listNow
              /\ \A v \in DOMAIN Live!NoMap : v \in DOMAIN ends /\ Live!NoMap[v] = ends[v]
            BY <1>2, <3>1
        <3> DEFINE none == Live!NoMap
        <3>3. /\ request' = Live!Reading(none, FALSE)
              /\ \A v \in DOMAIN none : v \in DOMAIN ends /\ none[v] = ends[v]
            BY <1>4, <3>2
        <3> HIDE DEF none
        <3> QED  BY <1>1, <3>2, <3>3, ReadingOK
    <2> QED  BY <1>1, <1>2, <1>4, <2>1, <2>2, FaultsTyped, RequestStep
<1> QED  BY <1>3, <1>4 DEF Live!ReadLists

\* The list that follows from what the request held: nothing is shown that was
\* not, and nothing is hidden but what is stored as an upload.
LEMMA AnsweredOK ==
    ASSUME ListInv, UnderWay, NEW streams \in SUBSET Shown, NEW todo \in SUBSET Videos,
           request' = Live!Answered(streams, todo),
           OneEach(streams),
           \A s \in streams : s.status # "live" => s.start <= request.at + Lookahead,
           \A s \in streams : s.status = "live" => s \in request.streams,
           \A s \in request.streams : (\A t \in streams : t.v # s.v) => stored[s.v] = "upload",
           \A v \in todo : answers'[v].class # "unknown",
           \A v \in Videos : stored[v] = "upload" => stored'[v] = "upload",
           UNCHANGED <<listNow, kind, phase, ends>>
    PROVE  RequestOK'
<1>1. /\ request \in [pc : {"classify", "persist", "served"}, at : Nat, readable : BOOLEAN,
                      listed : SUBSET Reports, streams : SUBSET Shown, todo : SUBSET Videos]
      /\ request.at <= listNow
    BY DEF ListInv, RequestOK, ShapeOK, UnderWay
<1>2. /\ request' \in [pc : {"classify", "persist", "served"}, at : Nat, readable : BOOLEAN,
                       listed : SUBSET Reports, streams : SUBSET Shown, todo : SUBSET Videos]
      /\ request'.at = request.at /\ request'.readable = request.readable
      /\ request'.listed = request.listed /\ request'.streams = streams /\ request'.todo = todo
      /\ request'.pc \in {"served", "persist"}
    BY <1>1 DEF Live!Answered
<1>3. ShapeOK'
    BY <1>1, <1>2 DEF ShapeOK, OneEach
<1>4. TodoOK' /\ WindowOK'
    BY <1>2 DEF TodoOK, WindowOK
<1>5. \A s \in request.listed : s.v \in Videos
    BY <1>1 DEF Reports
<1>6. HiddenOK'
    <2> SUFFICES ASSUME NEW s \in request.listed, s.status = "upcoming", s.start <= request.at + Lookahead,
                        \A t \in streams : t.v # s.v
                 PROVE  stored'[s.v] = "upload"
        BY <1>2 DEF HiddenOK, Live!IsListed
    <2>1. stored[s.v] = "upload"
        BY DEF ListInv, RequestOK, HiddenOK, Live!IsListed
    <2> QED  BY <1>5, <2>1
<1>7. RunningOK'
    <2> SUFFICES ASSUME NEW s \in request.listed, s.status = "live", kind[s.v] = "stream",
                        \A t \in streams : t.v # s.v
                 PROVE  phase[s.v] = "ended"
        BY <1>2 DEF RunningOK, Live!IsListed
    <2>1. CASE Live!IsListed(s.v)
        BY <1>5, <2>1 DEF ListInv, UploadsOK, Live!IsListed
    <2>2. CASE ~Live!IsListed(s.v)
        BY <2>2 DEF ListInv, RequestOK, RunningOK
    <2> QED  BY <2>1, <2>2
<1>8. AgreesOK'
    BY <1>2 DEF AgreesOK, Outdated, ListInv, RequestOK, UnderWay
<1> QED  BY <1>3, <1>4, <1>6, <1>7, <1>8 DEF RequestOK

\* An answer that is remembered is what YouTube shows, or none.
LEMMA LearnedOK ==
    ASSUME ListInv, NEW works \in BOOLEAN, answers' = Live!Learned(works)
    PROVE  /\ answers' \in [Videos -> [until : Nat, class : {"unknown", "upload", "upcoming"}]]
           /\ \A v \in Videos : answers'[v].class = "upload" => kind[v] = "premiere"
<1> SUFFICES ASSUME NEW v \in Videos
             PROVE  /\ answers'[v] \in [until : Nat, class : {"unknown", "upload", "upcoming"}]
                    /\ answers'[v].class = "upload" => kind[v] = "premiere"
    BY DEF Live!Learned
<1>1. /\ answers[v] \in [until : Nat, class : {"unknown", "upload", "upcoming"}]
      /\ answers[v].class = "upload" => kind[v] = "premiere"
    BY DEF ListInv, ListTypesOK, Live!TypeOK, UploadsOK
<1>2. /\ kind[v] \in {"stream", "premiere"}
      /\ kind[v] = "stream" => Live!Class(v) \in {"upcoming", "live", "completed"}
    BY Classes DEF ListInv, ListTypesOK, Live!TypeOK, Live!Phases
<1>3. listNow + AnswerTtl \in Nat /\ listNow + FailureTtl \in Nat
    BY LivestreamsAssumption
    DEF ListInv, ListTypesOK, Live!TypeOK, LivestreamsAssumption, Live!ListAssumption
<1>4. \/ answers'[v] = answers[v]
      \/ Live!Definitive(Live!Class(v)) /\ answers'[v] = [until |-> listNow + AnswerTtl, class |-> Live!Class(v)]
      \/ answers'[v] = [until |-> listNow + FailureTtl, class |-> "unknown"]
    BY DEF Live!Learned
<1>5. CASE answers'[v] = answers[v]
    BY <1>1, <1>5
<1>6. CASE Live!Definitive(Live!Class(v)) /\ answers'[v] = [until |-> listNow + AnswerTtl, class |-> Live!Class(v)]
    BY <1>2, <1>3, <1>6 DEF Live!Definitive
<1>7. CASE answers'[v] = [until |-> listNow + FailureTtl, class |-> "unknown"]
    BY <1>3, <1>7
<1> QED  BY <1>4, <1>5, <1>6, <1>7

LEMMA ListClassify == ASSUME ListInv, Live!Classify PROVE ListInv'
<1>1. /\ UNCHANGED <<listNow, kind, phase, start, snapshot, ends, listed, stored, endsCache>>
      /\ request.pc = "classify"
    BY DEF Live!Classify, Live!world, Live!records
<1>2. CacheOK' /\ UnderWay
    BY <1>1 DEF ListInv, CacheOK, UnderWay
<1>3. /\ request.streams \in SUBSET Shown /\ OneEach(request.streams)
      /\ \A s \in request.streams : s.status # "live" => s.start <= request.at + Lookahead
    BY <1>2 DEF ListInv, RequestOK, ShapeOK, WindowOK, UnderWay
<1>4. ASSUME NEW works \in BOOLEAN, Live!Works \/ Live!Fails, answers' = Live!Learned(works),
             LET inferred == {v \in Live!Unclassified : answers'[v].class # "unknown"} IN
               request' = Live!Answered(
                   Live!Relabelled(request.streams, {v \in inferred : answers'[v].class = "upload"}),
                   {v \in inferred : stored[v] = "none"})
      PROVE  ListInv'
    <2> DEFINE inferred == {v \in Live!Unclassified : answers'[v].class # "unknown"}
               premieres == {v \in inferred : answers'[v].class = "upload"}
               todo == {v \in inferred : stored[v] = "none"}
               streams == Live!Relabelled(request.streams, premieres)
    <2>1. request' = Live!Answered(streams, todo)
        BY <1>4
    <2>2. todo \in SUBSET Videos /\ \A v \in todo : answers'[v].class # "unknown"
        BY <1>3 DEF Live!Unclassified, Shown
    <2>3. \A s \in request.streams : s.v \in premieres => s.status = "upcoming"
        BY <1>3 DEF Live!Unclassified, OneEach
    <2> HIDE DEF premieres, todo
    <2>4. ASSUME NEW s \in request.streams
          PROVE  /\ [s EXCEPT !.status = "premiere"] \in Shown
                 /\ [s EXCEPT !.status = "premiere"].v = s.v
                 /\ [s EXCEPT !.status = "premiere"].start = s.start
                 /\ [s EXCEPT !.status = "premiere"].status = "premiere"
        BY <1>3 DEF Shown
    <2>5. \A x \in streams : \E s \in request.streams :
              /\ ~Live!KnownNonLivestream(stored[s.v])
              /\ x = IF s.v \in premieres THEN [s EXCEPT !.status = "premiere"] ELSE s
        BY DEF Live!Relabelled
    <2>6. \A s \in request.streams : \/ stored[s.v] = "upload"
                                     \/ (IF s.v \in premieres THEN [s EXCEPT !.status = "premiere"] ELSE s) \in streams
        BY DEF Live!Relabelled, Live!KnownNonLivestream
    <2> HIDE DEF streams
    <2>7. streams \in SUBSET Shown
        BY <1>3, <2>4, <2>5
    <2>8. ASSUME NEW x \in streams, NEW y \in streams, x.v = y.v PROVE x = y
        <3>1. PICK s \in request.streams :
                  x = IF s.v \in premieres THEN [s EXCEPT !.status = "premiere"] ELSE s
            BY <2>5
        <3>2. PICK t \in request.streams :
                  y = IF t.v \in premieres THEN [t EXCEPT !.status = "premiere"] ELSE t
            BY <2>5
        <3>3. s.v = t.v
            BY <2>4, <2>8, <3>1, <3>2
        <3> QED  BY <1>3, <3>1, <3>2, <3>3 DEF OneEach
    <2>9. OneEach(streams)
        BY <2>8 DEF OneEach
    <2>10. ASSUME NEW x \in streams
           PROVE  /\ x.status # "live" => x.start <= request.at + Lookahead
                  /\ x.status = "live" => x \in request.streams
        <3>1. PICK s \in request.streams :
                  x = IF s.v \in premieres THEN [s EXCEPT !.status = "premiere"] ELSE s
            BY <2>5
        <3>2. CASE s.v \in premieres
            <4>1. s.status = "upcoming"
                BY <2>3, <3>2
            <4> QED  BY <1>3, <2>4, <3>1, <3>2, <4>1
        <3>3. CASE s.v \notin premieres
            BY <1>3, <3>1, <3>3
        <3> QED  BY <3>2, <3>3
    <2>11. ASSUME NEW s \in request.streams, \A t \in streams : t.v # s.v PROVE stored[s.v] = "upload"
        BY <2>4, <2>6, <2>11
    <2>12. RequestOK'
        BY <1>1, <1>2, <2>1, <2>2, <2>7, <2>9, <2>10, <2>11, AnsweredOK
    <2> QED  BY <1>1, <1>2, <1>4, <2>12, LearnedOK, FaultsTyped, RequestStep
<1>5. CASE Live!Fails /\ request' = Live!Answered(request.streams, {}) /\ UNCHANGED answers
    <2>1. RequestOK'
        BY <1>1, <1>2, <1>3, <1>5, AnsweredOK
    <2>2. /\ answers' \in [Videos -> [until : Nat, class : {"unknown", "upload", "upcoming"}]]
          /\ \A v \in Videos : answers'[v].class = "upload" => kind[v] = "premiere"
        BY <1>5 DEF ListInv, ListTypesOK, Live!TypeOK, UploadsOK
    <2> QED  BY <1>1, <1>2, <1>5, <2>1, <2>2, FaultsTyped, RequestStep
<1> QED  BY <1>4, <1>5 DEF Live!Classify

LEMMA ListPersist == ASSUME ListInv, NEW v \in Videos, Live!Persist(v) PROVE ListInv'
<1>1. /\ UNCHANGED <<listNow, kind, phase, start, snapshot, ends, listed, endsCache, answers>>
      /\ request.pc = "persist" /\ v \in request.todo
      /\ request' = Live!Answered(request.streams, request.todo \ {v})
      /\ Live!Works \/ Live!Fails
      /\ \/ stored' = stored
         \/ stored[v] = "none" /\ stored' = [stored EXCEPT ![v] = answers[v].class]
    BY DEF Live!Persist, Live!world, Live!records, Live!Fillable
<1>2. UnderWay /\ answers[v].class \in {"upload", "upcoming"}
    BY <1>1 DEF ListInv, RequestOK, TodoOK, UnderWay, ListTypesOK, Live!TypeOK
<1>3. /\ stored' \in [Videos -> {"absent", "none", "upload", "upcoming", "live", "completed"}]
      /\ \A w \in Videos : \/ stored'[w] = stored[w]
                          \/ (w = v /\ stored[w] = "none" /\ stored'[w] = answers[w].class)
    <2>1. CASE stored' = stored
        BY <2>1 DEF ListInv, ListTypesOK, Live!TypeOK
    <2>2. CASE stored[v] = "none" /\ stored' = [stored EXCEPT ![v] = answers[v].class]
        <3> DEFINE c == answers[v].class
        <3>1. c \in {"upload", "upcoming"}
            BY <1>2
        <3>2. stored' = [stored EXCEPT ![v] = c] /\ stored[v] = "none"
            BY <2>2
        <3>3. stored \in [Videos -> {"absent", "none", "upload", "upcoming", "live", "completed"}]
            BY DEF ListInv, ListTypesOK, Live!TypeOK
        <3> HIDE DEF c
        <3>4. /\ stored' \in [Videos -> {"absent", "none", "upload", "upcoming", "live", "completed"}]
              /\ stored'[v] = c /\ \A w \in Videos \ {v} : stored'[w] = stored[w]
            BY <3>1, <3>2, <3>3
        <3> QED  BY <3>2, <3>4 DEF c
    <2> QED  BY <1>1, <2>1, <2>2
<1>4. ListTypesOK'
    BY <1>1, <1>3, FaultsTyped DEF ListInv, ListTypesOK, Live!TypeOK
<1>5. UploadsOK'
    BY <1>1, <1>3 DEF ListInv, UploadsOK
<1>6. SnapshotOK' /\ EndsOK' /\ CacheOK'
    BY <1>1 DEF ListInv, SnapshotOK, OneEach, EndsOK, CacheOK
<1>7. RequestOK'
    <2>1. /\ request.streams \in SUBSET Shown /\ request.todo \ {v} \in SUBSET Videos
          /\ OneEach(request.streams)
          /\ \A s \in request.streams : s.status # "live" => s.start <= request.at + Lookahead
          /\ \A w \in request.todo \ {v} : answers'[w].class # "unknown"
        BY <1>1, <1>2 DEF ListInv, RequestOK, ShapeOK, WindowOK, TodoOK, UnderWay
    <2> QED  BY <1>1, <1>2, <1>3, <2>1, AnsweredOK
<1> QED  BY <1>4, <1>5, <1>6, <1>7 DEF ListInv

LEMMA ListNext == ASSUME ListInv, Live!Next PROVE ListInv'
<1> USE DEF Live!Next
<1> QED  BY ListTick, ListRefresh, ListBroadcasts, ListRecordEnd, ListDiscover, ListObserve, ListPersist,
            ListReadLists, ListClassify

\* Only what YouTube shows replaces a classification that is stored.
StoredStands ==
    \A v \in Videos : stored[v] \notin {"absent", "none", stored'[v]} => stored'[v] = Live!Class(v)

LEMMA OnlyObserved == ASSUME ListInv, Live!Next PROVE StoredStands
<1>1. ASSUME stored' = stored PROVE StoredStands
    BY <1>1 DEF StoredStands
<1>2. ASSUME NEW v \in Videos, Live!Discover(v) \/ Live!Observe(v) \/ Live!Persist(v) PROVE StoredStands
    BY <1>2 DEF Live!Discover, Live!Observe, Live!Persist, Live!Fillable, StoredStands,
                ListInv, ListTypesOK, Live!TypeOK
<1>3. ASSUME NEW v \in Videos, Live!Broadcasts(v) \/ Live!RecordEnd(v) PROVE StoredStands
    BY <1>1, <1>3 DEF Live!Broadcasts, Live!RecordEnd
<1>4. CASE Live!Tick \/ Live!Refresh \/ Live!ReadLists \/ Live!Classify
    BY <1>1, <1>4 DEF Live!Tick, Live!Refresh, Live!ReadLists, Live!Classify
<1> QED  BY <1>2, <1>3, <1>4 DEF Live!Next

-----------------------------------------------------------------------------
(***************************************************************************)
(* The composition.                                                        *)
(***************************************************************************)

LivestreamsInv == CompletionInv /\ SnapInv /\ ListInv

MCvars == <<part, vars, snapVars, liveVars>>

LEMMA SnapStutters == ASSUME SnapInv, UNCHANGED snapVars PROVE SnapInv'
BY DEF snapVars, SnapInv, SnapRecordsOK, SnapTimesOK, ReaderOK, ReaderConfirmed,
       Snap!FreshMeansConfirmed, Snap!Displayed, Snap!ServedWithinBound

LEMMA ListStutters == ASSUME ListInv, UNCHANGED liveVars PROVE ListInv'
<1> USE DEF liveVars
<1>1. ListTypesOK' /\ UploadsOK' /\ SnapshotOK' /\ EndsOK' /\ CacheOK'
    BY DEF ListInv, ListTypesOK, Live!TypeOK, UploadsOK, SnapshotOK, OneEach, EndsOK, CacheOK
<1>2. listNow \in Nat
    BY LivestreamsAssumption
    DEF ListInv, ListTypesOK, Live!TypeOK, LivestreamsAssumption, Live!ListAssumption
<1>3. RequestOK'
    BY <1>2, RequestKept
<1> QED  BY <1>1, <1>3 DEF ListInv

LEMMA InvInitially == ASSUME MCInit PROVE LivestreamsInv
BY CompletionInit, SnapInitially, ListInitially DEF MCInit, LivestreamsInv

\* Each part moves alone.
LEMMA MCStep ==
    ASSUME LivestreamsInv, [MCNext]_MCvars
    PROVE  /\ LivestreamsInv'
           /\ EndStands /\ HandsOffLate /\ StoredStands
<1>0. ASSUME UNCHANGED liveVars PROVE StoredStands
    BY <1>0 DEF liveVars, StoredStands
<1>1. CASE Next /\ UNCHANGED <<part, snapVars, liveVars>>
    BY <1>0, <1>1, CompletionNext, NothingStepsBack, SnapStutters, ListStutters DEF LivestreamsInv
<1>2. CASE Snap!Next /\ UNCHANGED <<part, vars, liveVars>>
    BY <1>0, <1>2, CompletionNext, NothingStepsBack, SnapNext, ListStutters DEF LivestreamsInv
<1>3. CASE Live!Next /\ UNCHANGED <<part, vars, snapVars>>
    BY <1>3, CompletionNext, NothingStepsBack, SnapStutters, ListNext, OnlyObserved DEF LivestreamsInv
<1>4. CASE UNCHANGED MCvars
    BY <1>0, <1>4, CompletionNext, NothingStepsBack, SnapStutters, ListStutters DEF LivestreamsInv, MCvars
<1> QED  BY <1>1, <1>2, <1>3, <1>4 DEF MCNext

LEMMA LivestreamsInvariant == MCSpec => []LivestreamsInv
<1>1. LivestreamsInv /\ [MCNext]_MCvars => LivestreamsInv'
    BY MCStep
<1> QED  BY <1>1, InvInitially, PTL DEF MCSpec, MCvars

\* Every record of the completion cycle keeps its type, and a stream that a stored
\* cycle saw live is in the baseline, a candidate, recorded as ended or given up
\* for its age, whichever writes of a cycle were lost.
THEOREM EveryStreamIsFollowed == MCSpec => []FollowedToTheEnd
<1>1. LivestreamsInv => FollowedToTheEnd
    BY CompletionTypes DEF LivestreamsInv, CompletionInv, FollowedToTheEnd
<1> QED  BY <1>1, LivestreamsInvariant, PTL

\* What GET /live-streams answers was confirmed by Holodex at the time it claims and
\* is no older than MAX_SNAPSHOT_AGE_SECONDS; it is exactly the window of the moment,
\* without confirmed ends and with every livestream that still runs.
THEOREM TheServedListIsSound == MCSpec => []ServedListIsSound
<1>1. LivestreamsInv => ServedListIsSound
    BY ListIsSound DEF LivestreamsInv, SnapInv, ServedListIsSound
<1> QED  BY <1>1, LivestreamsInvariant, PTL

\* A recorded end is not revised, an archive is handed to the daily task only after
\* its lookups, and no older answer replaces a classification that is stored.
THEOREM WhatIsSettledStands == MCSpec => SettledStands
<1>1. LivestreamsInv /\ [MCNext]_MCvars => [EndStands]_vars
    BY MCStep
<1>2. LivestreamsInv /\ [MCNext]_MCvars => [HandsOffLate]_vars
    BY MCStep
<1>3. LivestreamsInv /\ [MCNext]_MCvars => [StoredStands]_stored
    BY MCStep
<1>4. EndIsFinal <=> [][EndStands]_vars
    BY PTL DEF EndIsFinal, EndStands
<1>5. HandedOffAfterLookups <=> [][HandsOffLate]_vars
    BY PTL DEF HandedOffAfterLookups, HandsOffLate
<1>6. Live!ClassificationStands <=> [][StoredStands]_stored
    BY PTL DEF Live!ClassificationStands, StoredStands
<1> QED  BY <1>1, <1>2, <1>3, <1>4, <1>5, <1>6, LivestreamsInvariant, PTL
         DEF MCSpec, MCvars, SettledStands


-----------------------------------------------------------------------------
(* Dates *)

LEMMA TimesGrows ==
    ASSUME NEW d \in Nat, NEW p \in Int, NEW q \in Int, p <= q
    PROVE  d * p <= d * q
  <1>1. d * (q - p) \in Nat /\ d * (q - p) = d * q - d * p
    OBVIOUS
  <1>2. QED
    BY <1>1

LEMMA Division ==
    ASSUME NEW n \in Int, NEW d \in Nat \ {0}
    PROVE  n \div d \in Int /\ n % d \in 0..(d - 1) /\ n % d = n - d * (n \div d)
  <1>1. n \div d \in Int /\ n % d \in 0..(d - 1)
    OBVIOUS
  <1>2. n % d = n - d * (n \div d)
    OBVIOUS
  <1>3. QED
    BY <1>1, <1>2

\* The later moment has the later date.
LEMMA DatesGrow ==
    ASSUME NEW d \in Nat \ {0}, NEW m \in Int, NEW n \in Int, m <= n
    PROVE  m \div d <= n \div d
  <1> DEFINE p == m \div d
             q == n \div d
  <1>1. p \in Int /\ q \in Int /\ m % d \in 0..(d - 1) /\ n % d \in 0..(d - 1)
        /\ m % d = m - d * p /\ n % d = n - d * q
    BY Division
  <1> HIDE DEF p, q
  <1> SUFFICES ASSUME q + 1 <= p PROVE FALSE
    BY <1>1 DEF p, q
  <1>2. d * (q + 1) <= d * p
    BY <1>1, TimesGrows
  <1>3. d * (q + 1) = d * q + d
    BY <1>1
  <1>4. QED
    BY <1>1, <1>2, <1>3

LEMMA DateIsNatural ==
    ASSUME NEW d \in Nat \ {0}, NEW n \in Nat
    PROVE  n \div d \in Nat
  <1>1. 0 \div d <= n \div d /\ n \div d \in Int
    BY DatesGrow, Division
  <1>2. 0 \div d = 0
    OBVIOUS
  <1>3. QED
    BY <1>1, <1>2


-----------------------------------------------------------------------------
(* The lists of videos *)

LEMMA SameHomeSize == \A S : Home!Cardinality(S) = Cardinality(S)
  BY DEF Home!Cardinality, Cardinality

LEMMA SameHomeFinite == \A S : Home!IsFiniteSet(S) <=> IsFiniteSet(S)
  BY DEF Home!IsFiniteSet, IsFiniteSet

LEMMA HomeLimits ==
    /\ IsFiniteSet(HomeVideos) /\ IsFiniteSet(RankedVideos) /\ RankedVideos \subseteq Int
    /\ HomeKinds \subseteq [HomeVideos -> Home!Kinds]
    /\ ViewCounts \subseteq Nat /\ Periods \subseteq Nat \ {0}
    /\ PerDay \in Nat \ {0, 1} /\ ReportLookback \in Nat \ {0} /\ HomeEventDates \in Nat \ {0}
    /\ EndedRetention \in Nat /\ EndedRetention >= PerDay
    /\ HomeMaxNow \in Nat /\ HomeMaxNow >= PerDay - 1
  BY HomeAssumption, SameHomeFinite DEF Home!CatalogAssumption

\* The last moment of a day, in which the daily run is.
LastOf(d) == d * PerDay + PerDay - 1

LEMMA LastMoments ==
    ASSUME NEW d \in Int, NEW e \in Int, d <= e
    PROVE  /\ LastOf(d) \in Int /\ LastOf(e) \in Int /\ LastOf(d) <= LastOf(e)
           /\ LastOf(d + 1) = LastOf(d) + PerDay
  <1>1. PerDay \in Nat
    BY HomeLimits
  <1>2. d * PerDay \in Int /\ e * PerDay \in Int /\ (d + 1) * PerDay = d * PerDay + PerDay /\ d * PerDay <= e * PerDay
    <2>1. PerDay * d <= PerDay * e
      BY <1>1, TimesGrows
    <2>2. QED
      BY <1>1, <2>1
  <1>3. QED
    BY <1>1, <1>2 DEF LastOf

LEMMA HomeDates ==
    ASSUME NEW n \in Nat
    PROVE  /\ Home!Date(n) \in Nat
           /\ n <= LastOf(Home!Date(n)) /\ n > LastOf(Home!Date(n)) - PerDay
           /\ Home!DailyRunAt(n) <=> n = LastOf(Home!Date(n))
           /\ \A d \in Int : LastOf(d) < n => d < Home!Date(n)
           /\ \A d \in Int : d < Home!Date(n) => LastOf(d) < n
  <1> DEFINE q == n \div PerDay
  <1>1. PerDay \in Nat \ {0}
    BY HomeLimits
  <1>2. q \in Nat /\ n % PerDay \in 0..(PerDay - 1) /\ n % PerDay = n - PerDay * q
    <2>1. q \in Nat
      BY <1>1, DateIsNatural
    <2>2. n \in Int
      OBVIOUS
    <2>3. n % PerDay \in 0..(PerDay - 1) /\ n % PerDay = n - PerDay * q
      BY <1>1, <2>2, Division
    <2>4. QED
      BY <2>1, <2>3
  <1>3. Home!Date(n) = q /\ (Home!DailyRunAt(n) <=> n % PerDay = PerDay - 1)
    BY DEF Home!Date, Home!DailyRunAt
  <1> HIDE DEF q
  <1>4. LastOf(q) = PerDay * q + PerDay - 1
    BY <1>1, <1>2 DEF LastOf
  <1>5. PerDay * q \in Int /\ n % PerDay \in Int
    BY <1>1, <1>2
  <1>6. n <= LastOf(q) /\ n > LastOf(q) - PerDay /\ (n % PerDay = PerDay - 1 <=> n = LastOf(q))
    BY <1>1, <1>2, <1>4, <1>5
  <1>7. ASSUME NEW d \in Int, LastOf(d) < n PROVE d < q
    <2>1. CASE q <= d
      <3>0. q \in Int
        BY <1>2
      <3>1. LastOf(q) <= LastOf(d) /\ LastOf(q) \in Int /\ LastOf(d) \in Int
        BY <2>1, <3>0, LastMoments, Zenon
      <3>2. QED
        BY <1>6, <1>7, <3>1
    <2>2. QED
      BY <1>2, <2>1
  <1>8. ASSUME NEW d \in Int, d < q PROVE LastOf(d) < n
    <2>1. d + 1 <= q /\ d + 1 \in Int
      BY <1>2, <1>8
    <2>2. LastOf(d) + PerDay <= LastOf(q) /\ LastOf(d) \in Int /\ LastOf(q) \in Int
      <3>1. q \in Int /\ d <= d
        BY <1>2
      <3>2. LastOf(d) \in Int /\ LastOf(d + 1) = LastOf(d) + PerDay
        BY <3>1, LastMoments, Zenon
      <3>3. LastOf(d + 1) <= LastOf(q)
        BY <2>1, <3>1, LastMoments, Zenon
      <3>4. LastOf(q) \in Int /\ q <= q
        BY <3>1, LastMoments
      <3>5. QED
        BY <3>2, <3>3, <3>4
    <2>3. QED
      BY <1>1, <1>6, <2>2
  <1>9. QED
    BY <1>2, <1>3, <1>6, <1>7, <1>8

LEMMA LaterDates ==
    ASSUME NEW m \in Nat, NEW n \in Nat, m <= n
    PROVE  Home!Date(m) <= Home!Date(n)
  BY HomeLimits, DatesGrow DEF Home!Date

LEMMA DateBefore ==
    ASSUME NEW n \in Nat, NEW d \in Int, LastOf(d) <= n
    PROVE  d <= Home!Date(n)
  <1>1. Home!Date(n) \in Nat /\ n <= LastOf(Home!Date(n)) /\ \A e \in Int : LastOf(e) < n => e < Home!Date(n)
    BY HomeDates
  <1>2. CASE LastOf(d) < n
    BY <1>1, <1>2
  <1>3. CASE LastOf(d) = n
    <2>1. CASE Home!Date(n) < d
      <3>1. Home!Date(n) + 1 <= d /\ Home!Date(n) + 1 \in Int
        BY <1>1, <2>1
      <3>2. LastOf(Home!Date(n)) + PerDay <= LastOf(d) /\ LastOf(Home!Date(n)) \in Int
        BY <1>1, <3>1, LastMoments
      <3>3. QED
        BY <1>1, <1>3, <3>2, HomeLimits
    <2>2. QED
      BY <1>1, <2>1
  <1>4. LastOf(d) \in Int
    BY LastMoments
  <1>5. QED
    BY <1>2, <1>3, <1>4

InProgress(class) == class \in {"upcoming", "live"}
MasterRows == [class : Home!Classes, found : {-1} \cup (0..homeNow), views : {-1} \cup Nat]
ManifestRows == [class : Home!Classes, found : {-1} \cup (0..homeNow)]
EventRows == [v : HomeVideos, date : Nat, found : Nat, announced : BOOLEAN]

CatTypes ==
    /\ homeNow \in 0..HomeMaxNow
    /\ homeKind \in [HomeVideos -> Home!Kinds] /\ homePhase \in [HomeVideos -> Home!Phases]
    /\ DOMAIN homeManifest = DOMAIN homeMaster /\ DOMAIN homeMaster \subseteq HomeVideos
    /\ \A v \in DOMAIN homeMaster :
          homeMaster[v] \in MasterRows /\ homeManifest[v] \in ManifestRows /\ homeMaster[v].found = homeManifest[v].found
    /\ homeEvents \subseteq EventRows /\ \A e \in homeEvents : e.date <= Home!Date(homeNow)
    /\ gained \in [HomeVideos -> Nat]
    /\ verified \subseteq HomeVideos /\ DOMAIN archives \subseteq verified /\ DOMAIN archiveTimes \subseteq verified
    /\ \A v \in DOMAIN archives : archives[v] \in 0..homeNow
    /\ \A v \in DOMAIN archiveTimes : archiveTimes[v] \in 0..homeNow

\* A day's shard is of a day whose run has come, and its ranking has a row for each of its videos.
CatShards ==
    /\ DOMAIN shards \subseteq Nat /\ DOMAIN rankings \subseteq DOMAIN shards
    /\ \A d \in DOMAIN shards :
          /\ LastOf(d) <= homeNow /\ DOMAIN shards[d] \subseteq DOMAIN homeMaster
          /\ \A v \in DOMAIN shards[d] : shards[d][v] \in Nat
    /\ \A d \in DOMAIN rankings :
          /\ DOMAIN shards[d] # {} /\ {row.v : row \in rankings[d]} = DOMAIN shards[d]
          /\ \A x, y \in rankings[d] : x.v = y.v => x = y
          /\ \A x \in rankings[d] : x.found = homeMaster[x.v].found

\* Only a stream is a livestream that is over.
CatKinds ==
    /\ \A v \in DOMAIN homeMaster :
          homeMaster[v].class = "completed" \/ homeManifest[v].class = "completed" => homeKind[v] = "stream"
    /\ \A d \in DOMAIN rankings : \A x \in rankings[d] : x.class = "completed" => homeKind[x.v] = "stream"
    /\ \A v \in verified : Home!Broadcast(v) /\ homePhase[v] = "ended"
    /\ \A v \in DOMAIN archiveTimes : Home!Premiere(v) /\ (v \in DOMAIN archives => archives[v] = archiveTimes[v])

CatEvents ==
    /\ \A e, f \in homeEvents : e.v = f.v => e = f
    /\ \A e \in homeEvents : /\ e.announced => Home!Premiere(e.v)
                             /\ ~e.announced => e.v \in DOMAIN homeMaster
    /\ \A e \in homeEvents, d \in DOMAIN shards : e.v \in DOMAIN shards[d] => e.date <= d

\* The latest moment at which the archive of an ended broadcast was verified.
EndedBy(v) == IF v \in DOMAIN archives THEN archives[v] ELSE homeNow - EndedRetention - 1
SeenBy(v) == IF v \in verified THEN EndedBy(v) ELSE homeNow

\* What shows a broadcast in progress is of a daily run before its archive was verified.
CatRelapse ==
    /\ \A d \in DOMAIN rankings : \A x \in rankings[d] :
          InProgress(x.class) /\ x.v \in verified \ unsettled => LastOf(d) <= EndedBy(x.v)
    /\ \A e \in homeEvents :
          e.v \in DOMAIN homeMaster /\ InProgress(homeMaster[e.v].class) => LastOf(e.date) <= SeenBy(e.v)
    /\ \A d \in DOMAIN shards \ DOMAIN rankings : \A v \in DOMAIN shards[d] :
          InProgress(homeManifest[v].class) /\ v \in verified \ unsettled => LastOf(d) <= EndedBy(v)

\* A day after a ranking has one, or is known to be missed.
CatDays ==
    \A d \in DOMAIN rankings, e \in Nat : d <= e /\ e < Home!Date(homeNow) => e \in DOMAIN rankings \cup missed

\* What a video had gained by the end of each day.
Curve(v, C) ==
    /\ \A d, e \in Int : d <= e => C[d] <= C[e]
    /\ \A d \in Int : C[d] <= gained[v] /\ (d < 0 => C[d] = 0)
    /\ C[Home!Date(homeNow)] = gained[v]
    /\ v \notin DOMAIN homeMaster => gained[v] = 0
    /\ v \in DOMAIN homeMaster =>
          /\ homeMaster[v].views <= gained[v] /\ (homeMaster[v].views = -1 => gained[v] = 0)
          /\ homeMaster[v].found # -1 => \A d \in Int : d < Home!Date(homeMaster[v].found) => C[d] = 0
    /\ \A d \in DOMAIN shards : v \in DOMAIN shards[d] =>
          /\ homeMaster[v].views # -1 /\ homeMaster[v].views - shards[d][v] <= gained[v] - C[d]
          /\ d = Home!Date(homeNow) \/ (d = Home!Date(homeNow) - 1 /\ Home!Date(homeNow) \notin DOMAIN shards) =>
                shards[d][v] = homeMaster[v].views
    /\ \A d \in DOMAIN rankings : \A x \in rankings[d] :
          x.v = v => \A p \in Periods : Home!ViewGrowth(x, p) \in 0..(C[d] - C[d - p])

CatCounts == \A v \in HomeVideos : \E C \in [Int -> Nat] : Curve(v, C)

CatInv == CatTypes /\ CatShards /\ CatKinds /\ CatEvents /\ CatRelapse /\ CatDays /\ CatCounts

LEMMA CatNow ==
    ASSUME CatTypes
    PROVE  /\ homeNow \in Nat /\ Home!Date(homeNow) \in Nat
           /\ homeKind \in [HomeVideos -> Home!Kinds] /\ homePhase \in [HomeVideos -> Home!Phases]
           /\ DOMAIN homeManifest = DOMAIN homeMaster /\ DOMAIN homeMaster \subseteq HomeVideos
           /\ verified \subseteq HomeVideos /\ DOMAIN archives \subseteq verified
  BY HomeLimits, HomeDates DEF CatTypes

\* What YouTube shows of a video.
LEMMA ObservedIs ==
    ASSUME NEW v
    PROVE  /\ Home!Observed(v) \in {"upload", "live", "upcoming", "completed"}
           /\ Home!Observed(v) = "completed" => homeKind[v] = "stream"
           /\ InProgress(Home!Observed(v)) => homePhase[v] # "ended"
  <1> DEFINE item == Home!Item(homeKind[v], homePhase[v])
  <1>1. /\ item.details = (homeKind[v] \in {"stream", "premiere"})
        /\ item.ended = (homeKind[v] \in {"stream", "premiere"} /\ homePhase[v] = "ended")
        /\ item.started = (homeKind[v] \in {"stream", "premiere"} /\ homePhase[v] # "upcoming")
        /\ item.atStart = (homeKind[v] = "premiere" /\ homePhase[v] # "upcoming")
    BY DEF Home!Item
  <1> HIDE DEF item
  <1>2. Home!Observed(v) = Home!Classification(item)
    BY DEF Home!Observed, item
  <1>3. QED
    BY <1>1, <1>2, Zenon DEF Home!Classification, Home!IsCompletedPremiere, InProgress

LEMMA SettledIs ==
    ASSUME NEW v, homeMaster[v].class \in Home!Classes
    PROVE  /\ Home!Settled(v) \in Home!Classes
           /\ Home!Settled(v) # "none"
           /\ Home!Settled(v) = "completed" => homeKind[v] = "stream"
           /\ InProgress(Home!Settled(v)) => homePhase[v] # "ended"
  <1>1. \/ Home!Settled(v) = Home!Observed(v)
        \/ Home!Settled(v) \in {"short", "upload"}
    BY DEF Home!Settled
  <1>2. Home!Observed(v) \in Home!Classes /\ Home!Observed(v) # "none"
    BY ObservedIs DEF Home!Classes, Home!InProgressStatuses
  <1>3. QED
    BY <1>1, <1>2, ObservedIs DEF Home!Classes, InProgress

LEMMA WithIs ==
    ASSUME NEW f, NEW g
    PROVE  /\ DOMAIN Home!With(f, g) = DOMAIN f \cup DOMAIN g
           /\ \A x \in DOMAIN g : Home!With(f, g)[x] = g[x]
           /\ \A x \in DOMAIN f \ DOMAIN g : Home!With(f, g)[x] = f[x]
  BY DEF Home!With

LEMMA NoMapIs == DOMAIN Home!NoMap = {}
  BY DEF Home!NoMap

LEMMA InitCat == Home!Init => CatInv
  <1> SUFFICES ASSUME Home!Init PROVE CatInv
    OBVIOUS
  <1>1. /\ homeNow = PerDay - 1 /\ homeKind \in HomeKinds /\ homePhase = [v \in HomeVideos |-> "upcoming"]
        /\ homeEvents = {} /\ DOMAIN shards = {} /\ DOMAIN rankings = {} /\ DOMAIN archives = {} /\ DOMAIN archiveTimes = {}
        /\ verified = {} /\ gained = [v \in HomeVideos |-> 0]
    BY NoMapIs DEF Home!Init
  <1>2. PICK legacy \in SUBSET HomeVideos :
            /\ homeMaster = [v \in legacy |-> [class |-> "none", found |-> -1, views |-> -1]]
            /\ homeManifest = [v \in legacy |-> [class |-> "none", found |-> -1]]
    BY DEF Home!Init, Home!None
  <1>3. homeNow \in 0..HomeMaxNow
    BY <1>1, HomeLimits
  <1>4. homePhase \in [HomeVideos -> Home!Phases]
    BY <1>1 DEF Home!Phases
  <1>5. /\ DOMAIN homeMaster = legacy /\ DOMAIN homeManifest = legacy
        /\ \A v \in legacy : homeMaster[v] \in MasterRows /\ homeManifest[v] \in ManifestRows
        /\ \A v \in legacy : homeMaster[v].found = -1 /\ homeManifest[v].found = -1 /\ homeMaster[v].views = -1
        /\ \A v \in legacy : homeMaster[v].class = "none" /\ homeManifest[v].class = "none"
    BY <1>2 DEF MasterRows, ManifestRows, Home!Classes
  <1>6. CatTypes
    BY <1>1, <1>3, <1>4, <1>5, HomeLimits DEF CatTypes
  <1>7. CatShards /\ CatEvents /\ CatDays
    BY <1>1 DEF CatShards, CatEvents, CatDays
  <1>8. CatKinds
    BY <1>1, <1>5 DEF CatKinds
  <1>9. CatRelapse
    BY <1>1 DEF CatRelapse
  <1>10. CatCounts
    <2>1. ASSUME NEW v \in HomeVideos PROVE \E C \in [Int -> Nat] : Curve(v, C)
      <3>1. PICK C : C = [d \in Int |-> 0]
        OBVIOUS
      <3>2. C \in [Int -> Nat] /\ \A d \in Int : C[d] = 0
        BY <3>1
      <3>3. gained[v] = 0
        BY <1>1
      <3>4. Home!Date(homeNow) \in Int
        BY <1>6, CatNow
      <3>5. Curve(v, C)
        BY <1>1, <1>5, <3>2, <3>3, <3>4 DEF Curve
      <3>6. QED
        BY <3>2, <3>5
    <2>2. QED
      BY <2>1 DEF CatCounts
  <1>11. QED
    BY <1>6, <1>7, <1>8, <1>9, <1>10 DEF CatInv

\* A curve says nothing of classes.
LEMMA CurvesStand ==
    ASSUME CatCounts, CatShards, UNCHANGED <<homeNow, gained, shards, rankings>>, DOMAIN homeMaster' = DOMAIN homeMaster,
           \A v \in DOMAIN homeMaster : homeMaster'[v].views = homeMaster[v].views /\ homeMaster'[v].found = homeMaster[v].found
    PROVE  CatCounts'
  <1>1. Home!Date(homeNow)' = Home!Date(homeNow)
    BY DEF Home!Date
  <1>2. \A x, p : Home!ViewGrowth(x, p)' = Home!ViewGrowth(x, p)
    BY DEF Home!ViewGrowth, Home!Growth
  <1>3. ASSUME NEW v \in HomeVideos, NEW C \in [Int -> Nat], Curve(v, C) PROVE Curve(v, C)'
    <2>1. \A t : Home!Date(t)' = Home!Date(t)
      BY DEF Home!Date
    <2>2. \A d \in DOMAIN shards : v \in DOMAIN shards[d] => v \in DOMAIN homeMaster
      BY DEF CatShards
    <2>3. v \in DOMAIN homeMaster => homeMaster'[v].views = homeMaster[v].views /\ homeMaster'[v].found = homeMaster[v].found
      OBVIOUS
    <2>4. QED
      BY <1>1, <1>2, <1>3, <2>1, <2>2, <2>3 DEF Curve
  <1>4. QED
    BY <1>3 DEF CatCounts

LEMMA CatBroadcasts ==
    ASSUME CatInv, NEW u \in HomeVideos, Home!Broadcasts(u)
    PROVE  CatInv'
  <1>1. /\ homePhase[u] # "ended"
        /\ homePhase' = [homePhase EXCEPT ![u] = IF @ = "upcoming" THEN "running" ELSE "ended"]
        /\ UNCHANGED <<homeNow, homeKind, homeMaster, homeManifest, homeEvents, shards, rankings, gained, missed, unsettled,
                       archives, archiveTimes, verified>>
    BY DEF Home!Broadcasts, Home!catalog, Home!daily, Home!lifecycle
  <1>2. homePhase \in [HomeVideos -> Home!Phases]
    BY CatNow DEF CatInv
  <1>3. homePhase' \in [HomeVideos -> Home!Phases]
    BY <1>1, <1>2 DEF Home!Phases
  <1>4. Home!Date(homeNow)' = Home!Date(homeNow)
    BY <1>1 DEF Home!Date
  <1>5. CatTypes'
    BY <1>1, <1>3, <1>4 DEF CatInv, CatTypes, MasterRows, ManifestRows, EventRows, Home!Classes, Home!Phases, Home!Kinds,
       Home!InProgressStatuses
  <1>6. CatShards' /\ CatDays' /\ CatEvents'
    BY <1>1, <1>4 DEF CatInv, CatShards, CatDays, CatEvents, LastOf, Home!Premiere
  <1>7. CatKinds'
    <2>1. \A v \in verified : homePhase'[v] = "ended"
      BY <1>1, <1>2 DEF CatInv, CatTypes, CatKinds
    <2>2. QED
      BY <1>1, <2>1 DEF CatInv, CatKinds, Home!Premiere, Home!Broadcast
  <1>8. CatRelapse'
    BY <1>1 DEF CatInv, CatRelapse, LastOf, EndedBy, SeenBy
  <1>9. CatCounts'
    BY <1>1, CurvesStand DEF CatInv
  <1>10. QED
    BY <1>5, <1>6, <1>7, <1>8, <1>9 DEF CatInv

LEMMA CatAnnounce ==
    ASSUME CatInv, NEW u \in HomeVideos, Home!Announce(u)
    PROVE  CatInv'
  <1>1. /\ Home!Premiere(u) /\ u \notin DOMAIN homeManifest /\ ~Home!Recorded(u)
        /\ UNCHANGED <<homeNow, homeKind, homePhase, homeMaster, homeManifest, shards, rankings, gained, missed, unsettled,
                       archives, archiveTimes, verified>>
    BY DEF Home!Announce, Home!world, Home!daily, Home!lifecycle
  <1>2. PICK e : e = Home!Event(u, TRUE)
    OBVIOUS
  <1>3. homeEvents' = homeEvents \cup {e}
    BY <1>2 DEF Home!Announce
  <1>4. homeNow \in Nat /\ Home!Date(homeNow) \in Nat /\ DOMAIN homeManifest = DOMAIN homeMaster
    BY CatNow DEF CatInv
  <1>5. e \in EventRows /\ e.v = u /\ e.date = Home!Date(homeNow) /\ e.announced
    BY <1>2, <1>4 DEF Home!Event, EventRows
  <1>6. Home!Date(homeNow)' = Home!Date(homeNow)
    BY <1>1 DEF Home!Date
  <1>7. CatTypes'
    <2>1. homeEvents' \subseteq EventRows /\ \A f \in homeEvents' : f.date <= Home!Date(homeNow)
      BY <1>3, <1>4, <1>5 DEF CatInv, CatTypes
    <2>2. QED
      BY <1>1, <1>6, <2>1 DEF CatInv, CatTypes, MasterRows, ManifestRows, EventRows, Home!Classes, Home!Phases, Home!Kinds,
         Home!InProgressStatuses
  <1>8. CatShards' /\ CatDays' /\ CatKinds'
    BY <1>1, <1>6 DEF CatInv, CatShards, CatDays, CatKinds, LastOf, Home!Premiere, Home!Broadcast
  <1>9. CatEvents'
    <2>1. \A f \in homeEvents : f.v # u
      BY <1>1 DEF Home!Recorded
    <2>2. \A d \in DOMAIN shards : u \notin DOMAIN shards[d]
      BY <1>1, <1>4 DEF CatInv, CatShards
    <2>3. \A v : Home!Premiere(v)' = Home!Premiere(v)
      BY <1>1 DEF Home!Premiere
    <2>4. QED
      BY <1>1, <1>3, <1>5, <2>1, <2>2, <2>3 DEF CatInv, CatEvents
  <1>10. CatRelapse'
    BY <1>1, <1>3, <1>4, <1>5 DEF CatInv, CatRelapse, LastOf, EndedBy, SeenBy
  <1>11. CatCounts'
    BY <1>1, CurvesStand DEF CatInv
  <1>12. QED
    BY <1>7, <1>8, <1>9, <1>10, <1>11 DEF CatInv

LEMMA CatDiscover ==
    ASSUME CatInv, NEW u \in HomeVideos, Home!Discover(u)
    PROVE  CatInv'
  <1>1. /\ u \notin DOMAIN homeManifest
        /\ UNCHANGED <<homeNow, homeKind, homePhase, shards, rankings, gained, missed, unsettled, archives, archiveTimes, verified>>
    BY DEF Home!Discover, Home!world, Home!daily, Home!lifecycle
  <1>2. PICK class \in {"short", "none"} :
            /\ homeMaster' = Home!With(homeMaster, [w \in {u} |-> [class |-> class, found |-> homeNow, views |-> -1]])
            /\ homeManifest' = Home!With(homeManifest, [w \in {u} |-> [class |-> class, found |-> homeNow]])
    BY DEF Home!Discover, Home!None
  <1>3. homeNow \in Nat /\ Home!Date(homeNow) \in Nat /\ DOMAIN homeManifest = DOMAIN homeMaster /\ DOMAIN homeMaster \subseteq HomeVideos
    BY CatNow DEF CatInv
  <1>4. /\ DOMAIN homeMaster' = DOMAIN homeMaster \cup {u} /\ DOMAIN homeManifest' = DOMAIN homeMaster \cup {u}
        /\ homeMaster'[u] = [class |-> class, found |-> homeNow, views |-> -1]
        /\ homeManifest'[u] = [class |-> class, found |-> homeNow]
        /\ \A v \in DOMAIN homeMaster : homeMaster'[v] = homeMaster[v] /\ homeManifest'[v] = homeManifest[v]
    <2>1. PICK row, entry : row = [w \in {u} |-> [class |-> class, found |-> homeNow, views |-> -1]]
                            /\ entry = [w \in {u} |-> [class |-> class, found |-> homeNow]]
      OBVIOUS
    <2>2. /\ DOMAIN row = {u} /\ row[u] = [class |-> class, found |-> homeNow, views |-> -1]
          /\ DOMAIN entry = {u} /\ entry[u] = [class |-> class, found |-> homeNow]
      BY <2>1
    <2>3. homeMaster' = Home!With(homeMaster, row) /\ homeManifest' = Home!With(homeManifest, entry)
      BY <1>2, <2>1
    <2>4. QED
      BY <1>1, <1>3, <2>2, <2>3 DEF Home!With
  <1>5. PICK e : e = Home!Event(u, FALSE)
    OBVIOUS
  <1>6. homeEvents' = homeEvents \/ (homeEvents' = homeEvents \cup {e} /\ ~Home!Recorded(u))
    BY <1>5 DEF Home!Discover
  <1>7. e \in EventRows /\ e.v = u /\ e.date = Home!Date(homeNow) /\ ~e.announced
    BY <1>3, <1>5 DEF Home!Event, EventRows
  <1>8. Home!Date(homeNow)' = Home!Date(homeNow)
    BY <1>1 DEF Home!Date
  <1>9. CatTypes'
    <2>1. homeEvents' \subseteq EventRows /\ \A f \in homeEvents' : f.date <= Home!Date(homeNow)
      BY <1>3, <1>6, <1>7 DEF CatInv, CatTypes
    <2>2. homeMaster'[u] \in MasterRows /\ homeManifest'[u] \in ManifestRows /\ homeMaster'[u].found = homeManifest'[u].found
      BY <1>3, <1>4 DEF MasterRows, ManifestRows, Home!Classes
    <2>3. \A v \in DOMAIN homeMaster' :
             homeMaster'[v] \in MasterRows /\ homeManifest'[v] \in ManifestRows /\ homeMaster'[v].found = homeManifest'[v].found
      BY <1>4, <2>2 DEF CatInv, CatTypes
    <2>4. QED
      BY <1>1, <1>3, <1>4, <1>8, <2>1, <2>3 DEF CatInv, CatTypes, MasterRows, ManifestRows, EventRows, Home!Classes, Home!Phases, Home!Kinds,
         Home!InProgressStatuses
  <1>10. \A d \in DOMAIN shards : DOMAIN shards[d] \subseteq DOMAIN homeMaster
    BY DEF CatInv, CatShards
  <1>11. \A d \in DOMAIN rankings : \A x \in rankings[d] : x.v \in DOMAIN homeMaster
    BY <1>10 DEF CatInv, CatShards
  <1>12. CatShards' /\ CatDays'
    BY <1>1, <1>4, <1>8, <1>10, <1>11 DEF CatInv, CatShards, CatDays, LastOf
  <1>13. CatKinds'
    <2>1. \A v \in DOMAIN homeMaster' :
             homeMaster'[v].class = "completed" \/ homeManifest'[v].class = "completed" => homeKind[v] = "stream"
      BY <1>4 DEF CatInv, CatKinds
    <2>2. QED
      BY <1>1, <2>1 DEF CatInv, CatKinds, Home!Premiere, Home!Broadcast
  <1>14. \A d \in DOMAIN shards : u \notin DOMAIN shards[d]
    BY <1>1, <1>3, <1>10
  <1>15. CatEvents'
    <2>1. ~Home!Recorded(u) => \A f \in homeEvents : f.v # u
      BY DEF Home!Recorded
    <2>2. \A v : Home!Premiere(v)' = Home!Premiere(v)
      BY <1>1 DEF Home!Premiere
    <2>3. \A f, g \in homeEvents' : f.v = g.v => f = g
      BY <1>6, <1>7, <2>1 DEF CatInv, CatEvents
    <2>4. \A f \in homeEvents' : (f.announced => Home!Premiere(f.v)) /\ (~f.announced => f.v \in DOMAIN homeMaster')
      BY <1>4, <1>6, <1>7 DEF CatInv, CatEvents
    <2>5. \A f \in homeEvents', d \in DOMAIN shards : f.v \in DOMAIN shards[d] => f.date <= d
      BY <1>6, <1>7, <1>14 DEF CatInv, CatEvents
    <2>6. QED
      BY <1>1, <2>2, <2>3, <2>4, <2>5 DEF CatEvents
  <1>16. CatRelapse'
    <2>1. ~InProgress(homeMaster'[u].class)
      BY <1>4 DEF InProgress
    <2>2. \A f \in homeEvents' : f.v \in DOMAIN homeMaster' /\ InProgress(homeMaster'[f.v].class) =>
             f \in homeEvents /\ f.v \in DOMAIN homeMaster /\ homeMaster'[f.v].class = homeMaster[f.v].class
      BY <1>4, <1>6, <1>7, <2>1
    <2>3. \A f \in homeEvents' : f.v \in DOMAIN homeMaster' /\ InProgress(homeMaster'[f.v].class) => LastOf(f.date) <= SeenBy(f.v)
      BY <2>2 DEF CatInv, CatRelapse
    <2>4. \A d \in DOMAIN shards : \A v \in DOMAIN shards[d] : homeManifest'[v] = homeManifest[v]
      BY <1>4, <1>10
    <2>5. QED
      BY <1>1, <2>3, <2>4 DEF CatInv, CatRelapse, LastOf, EndedBy, SeenBy
  <1>17. CatCounts'
    <2>1. ASSUME NEW v \in HomeVideos, NEW C \in [Int -> Nat], Curve(v, C) PROVE Curve(v, C)'
      <3>1. \A x, p : Home!ViewGrowth(x, p)' = Home!ViewGrowth(x, p)
        BY DEF Home!ViewGrowth, Home!Growth
      <3>2. \A t : Home!Date(t)' = Home!Date(t)
        BY DEF Home!Date
      <3>3. CASE v = u
        <4>1. gained[v] = 0 /\ \A d \in Int : C[d] = 0
          <5>1. gained[v] = 0
            BY <1>1, <1>3, <2>1, <3>3 DEF Curve
          <5>2. \A d \in Int : C[d] <= 0 /\ C[d] \in Nat
            BY <2>1, <5>1 DEF Curve
          <5>3. QED
            BY <5>1, <5>2
        <4>2. QED
          BY <1>1, <1>4, <1>8, <1>14, <2>1, <3>1, <3>2, <3>3, <4>1 DEF Curve
      <3>4. CASE v # u
        <4>1. v \in DOMAIN homeMaster' <=> v \in DOMAIN homeMaster
          BY <1>4, <3>4
        <4>2. v \in DOMAIN homeMaster => homeMaster'[v] = homeMaster[v]
          BY <1>4
        <4>3. \A d \in DOMAIN shards : v \in DOMAIN shards[d] => homeMaster'[v] = homeMaster[v]
          BY <1>4, <1>10
        <4>4. QED
          BY <1>1, <1>8, <2>1, <3>1, <3>2, <4>1, <4>2, <4>3 DEF Curve
      <3>5. QED
        BY <3>3, <3>4
    <2>2. QED
      BY <2>1 DEF CatInv, CatCounts
  <1>18. QED
    BY <1>9, <1>12, <1>13, <1>15, <1>16, <1>17 DEF CatInv

LEMMA CatRecordsTime ==
    ASSUME CatInv, NEW u \in HomeVideos, Home!RecordPremiereArchiveTime(u)
    PROVE  CatInv'
  <1>1. /\ Home!Premiere(u) /\ u \in DOMAIN archives
        /\ UNCHANGED <<homeNow, homeKind, homePhase, homeMaster, homeManifest, homeEvents, shards, rankings, gained, missed,
                       unsettled, archives, verified>>
    BY DEF Home!RecordPremiereArchiveTime, Home!world, Home!catalog, Home!daily
  <1>2. /\ DOMAIN archiveTimes' = DOMAIN archiveTimes \cup {u} /\ archiveTimes'[u] = archives[u]
        /\ \A v \in DOMAIN archiveTimes \ {u} : archiveTimes'[v] = archiveTimes[v]
    <2>1. PICK time : time = [w \in {u} |-> archives[w]]
      OBVIOUS
    <2>2. DOMAIN time = {u} /\ time[u] = archives[u]
      BY <2>1
    <2>3. archiveTimes' = Home!With(archiveTimes, time)
      BY <2>1 DEF Home!RecordPremiereArchiveTime
    <2>4. QED
      BY <2>2, <2>3 DEF Home!With
  <1>3. Home!Date(homeNow)' = Home!Date(homeNow)
    BY <1>1 DEF Home!Date
  <1>4. CatTypes'
    <2>1. DOMAIN archiveTimes' \subseteq verified /\ \A v \in DOMAIN archiveTimes' : archiveTimes'[v] \in 0..homeNow
      BY <1>1, <1>2 DEF CatInv, CatTypes
    <2>2. QED
      BY <1>1, <1>3, <2>1 DEF CatInv, CatTypes, MasterRows, ManifestRows, EventRows, Home!Classes, Home!Phases, Home!Kinds,
         Home!InProgressStatuses
  <1>5. CatShards' /\ CatDays' /\ CatEvents'
    BY <1>1, <1>3 DEF CatInv, CatShards, CatDays, CatEvents, LastOf, Home!Premiere
  <1>6. CatKinds'
    <2>1. \A v \in DOMAIN archiveTimes' : Home!Premiere(v) /\ (v \in DOMAIN archives => archives[v] = archiveTimes'[v])
      BY <1>1, <1>2 DEF CatInv, CatKinds
    <2>2. QED
      BY <1>1, <2>1 DEF CatInv, CatKinds, Home!Premiere, Home!Broadcast
  <1>7. CatRelapse'
    BY <1>1 DEF CatInv, CatRelapse, LastOf, EndedBy, SeenBy
  <1>8. CatCounts'
    BY <1>1, CurvesStand DEF CatInv
  <1>9. QED
    BY <1>4, <1>5, <1>6, <1>7, <1>8 DEF CatInv

LEMMA CatVerifies ==
    ASSUME CatInv, NEW u \in HomeVideos, Home!VerifyArchive(u)
    PROVE  CatInv'
  <1>1. /\ Home!Broadcast(u) /\ homePhase[u] = "ended" /\ u \notin verified /\ verified' = verified \cup {u}
        /\ UNCHANGED <<homeNow, homeKind, homePhase, homeManifest, homeEvents, shards, rankings, gained, missed, unsettled,
                       archiveTimes>>
    BY DEF Home!VerifyArchive, Home!world, Home!daily
  <1>2. /\ homeNow \in Nat /\ Home!Date(homeNow) \in Nat /\ DOMAIN homeManifest = DOMAIN homeMaster
        /\ DOMAIN homeMaster \subseteq HomeVideos /\ DOMAIN archives \subseteq verified
        /\ homeKind \in [HomeVideos -> Home!Kinds]
    BY CatNow DEF CatInv
  <1>3. /\ DOMAIN archives' = DOMAIN archives \cup {u} /\ archives'[u] = homeNow
        /\ \A v \in DOMAIN archives : archives'[v] = archives[v]
    <2>1. PICK time : time = [w \in {u} |-> homeNow]
      OBVIOUS
    <2>2. DOMAIN time = {u} /\ time[u] = homeNow
      BY <2>1
    <2>3. archives' = Home!With(archives, time)
      BY <2>1 DEF Home!VerifyArchive
    <2>4. QED
      BY <1>1, <1>2, <2>2, <2>3 DEF Home!With
  <1>4. /\ DOMAIN homeMaster' = DOMAIN homeMaster
        /\ \A v \in DOMAIN homeMaster :
             /\ homeMaster'[v] \in MasterRows
             /\ homeMaster'[v].views = homeMaster[v].views /\ homeMaster'[v].found = homeMaster[v].found
             /\ \/ homeMaster'[v].class = homeMaster[v].class
                \/ v = u /\ ~Home!Premiere(u) /\ homeMaster'[v].class = "completed"
    <2>1. \A v \in DOMAIN homeMaster : homeMaster[v] \in MasterRows
      BY DEF CatInv, CatTypes
    <2>2. CASE homeMaster' = homeMaster
      BY <2>1, <2>2
    <2>3. CASE u \in DOMAIN homeMaster /\ homeMaster' = [homeMaster EXCEPT ![u].class = IF Home!Premiere(u) THEN @ ELSE "completed"]
      <3>1. PICK row : row = [homeMaster[u] EXCEPT !.class = IF Home!Premiere(u) THEN @ ELSE "completed"]
        OBVIOUS
      <3>2. homeMaster' = [homeMaster EXCEPT ![u] = row]
        BY <2>3, <3>1
      <3>3. row \in MasterRows /\ row.views = homeMaster[u].views /\ row.found = homeMaster[u].found
            /\ row.class = IF Home!Premiere(u) THEN homeMaster[u].class ELSE "completed"
        BY <2>1, <2>3, <3>1 DEF MasterRows, Home!Classes
      <3>4. QED
        BY <2>1, <2>3, <3>2, <3>3
    <2>4. QED
      BY <2>2, <2>3 DEF Home!VerifyArchive
  <1>5. Home!Date(homeNow)' = Home!Date(homeNow)
    BY <1>1 DEF Home!Date
  <1>6. CatTypes'
    <2>1. \A v \in DOMAIN archives' : archives'[v] \in 0..homeNow
      BY <1>2, <1>3 DEF CatInv, CatTypes
    <2>2. DOMAIN archives' \subseteq verified' /\ DOMAIN archiveTimes' \subseteq verified' /\ verified' \subseteq HomeVideos
      BY <1>1, <1>3 DEF CatInv, CatTypes
    <2>3. QED
      BY <1>1, <1>4, <1>5, <2>1, <2>2 DEF CatInv, CatTypes, MasterRows, ManifestRows, EventRows, Home!Classes, Home!Phases, Home!Kinds,
         Home!InProgressStatuses
  <1>7. \A d \in DOMAIN rankings : \A x \in rankings[d] : x.v \in DOMAIN homeMaster
    BY DEF CatInv, CatShards
  <1>8. CatShards' /\ CatDays' /\ CatEvents'
    BY <1>1, <1>4, <1>5, <1>7 DEF CatInv, CatShards, CatDays, CatEvents, LastOf, Home!Premiere
  <1>9. CatKinds'
    <2>1. \A v : (Home!Premiere(v)' <=> Home!Premiere(v)) /\ (Home!Broadcast(v)' <=> Home!Broadcast(v))
      BY <1>1 DEF Home!Premiere, Home!Broadcast
    <2>2. ~Home!Premiere(u) => homeKind[u] = "stream"
      BY <1>1 DEF Home!Premiere, Home!Broadcast
    <2>3. \A v \in DOMAIN homeMaster : homeMaster'[v].class = "completed" => homeKind[v] = "stream"
      BY <1>4, <2>2 DEF CatInv, CatKinds
    <2>4. \A v \in DOMAIN archiveTimes : v # u
      BY <1>1 DEF CatInv, CatTypes
    <2>5. \A v \in DOMAIN archiveTimes : v \in DOMAIN archives' => archives'[v] = archiveTimes[v]
      BY <1>3, <2>4 DEF CatInv, CatKinds
    <2>6. QED
      BY <1>1, <1>4, <2>1, <2>3, <2>5 DEF CatInv, CatKinds
  <1>10. CatRelapse'
    <2>1. \A v \in verified : EndedBy(v)' = EndedBy(v)
      BY <1>1, <1>3 DEF EndedBy
    <2>2. EndedBy(u)' = homeNow
      BY <1>3 DEF EndedBy
    <2>3. \A v : SeenBy(v)' = SeenBy(v)
      BY <1>1, <2>1, <2>2 DEF SeenBy
    <2>4. \A d \in DOMAIN shards : LastOf(d)' = LastOf(d) /\ LastOf(d) <= homeNow
      BY DEF LastOf, CatInv, CatShards
    <2>5. \A e : LastOf(e.date)' = LastOf(e.date)
      BY DEF LastOf
    <2>6. ASSUME NEW d \in DOMAIN rankings, NEW x \in rankings[d], InProgress(x.class), x.v \in verified' \ unsettled
          PROVE  LastOf(d) <= EndedBy(x.v)'
      <3>1. d \in DOMAIN shards
        BY DEF CatInv, CatShards
      <3>2. CASE x.v = u
        BY <2>2, <2>4, <3>1, <3>2
      <3>3. CASE x.v # u
        BY <1>1, <2>1, <2>6, <3>3 DEF CatInv, CatRelapse
      <3>4. QED
        BY <3>2, <3>3
    <2>7. ASSUME NEW d \in DOMAIN shards \ DOMAIN rankings, NEW v \in DOMAIN shards[d], InProgress(homeManifest[v].class), v \in verified' \ unsettled
          PROVE  LastOf(d) <= EndedBy(v)'
      <3>1. CASE v = u
        BY <2>2, <2>4, <3>1
      <3>2. CASE v # u
        BY <1>1, <2>1, <2>7, <3>2 DEF CatInv, CatRelapse
      <3>3. QED
        BY <3>1, <3>2
    <2>8. ASSUME NEW e \in homeEvents, e.v \in DOMAIN homeMaster, InProgress(homeMaster'[e.v].class) PROVE LastOf(e.date) <= SeenBy(e.v)
      <3>1. InProgress(homeMaster[e.v].class)
        BY <1>4, <2>8 DEF InProgress
      <3>2. QED
        BY <2>8, <3>1 DEF CatInv, CatRelapse
    <2>9. QED
      BY <1>1, <1>4, <2>3, <2>4, <2>5, <2>6, <2>7, <2>8 DEF CatRelapse
  <1>11. CatCounts'
    BY <1>1, <1>4, CurvesStand DEF CatInv
  <1>12. QED
    BY <1>6, <1>8, <1>9, <1>10, <1>11 DEF CatInv

LEMMA CatTicks ==
    ASSUME CatInv, Home!Tick
    PROVE  CatInv'
  <1>1. /\ homeNow < HomeMaxNow /\ homeNow' = homeNow + 1
        /\ UNCHANGED <<homeKind, homePhase, homeMaster, homeManifest, homeEvents, shards, rankings, gained, unsettled, archiveTimes,
                       verified>>
        /\ missed \subseteq missed'
        /\ Home!Date(homeNow + 1) # Home!Date(homeNow) /\ Home!Date(homeNow) \notin DOMAIN rankings /\ DOMAIN homeManifest # {} =>
              Home!Date(homeNow) \in missed'
    BY DEF Home!Tick, Home!world, Home!catalog
  <1>2. /\ DOMAIN archives' = {w \in DOMAIN archives : homeNow + 1 - archives[w] <= EndedRetention}
        /\ \A v \in DOMAIN archives' : archives'[v] = archives[v]
    BY DEF Home!Tick
  <1>3. /\ homeNow \in Nat /\ Home!Date(homeNow) \in Nat /\ DOMAIN homeManifest = DOMAIN homeMaster
        /\ DOMAIN homeMaster \subseteq HomeVideos /\ DOMAIN archives \subseteq verified
    BY CatNow DEF CatInv
  <1>4. homeNow + 1 \in Nat /\ homeNow + 1 <= HomeMaxNow
    BY <1>1, <1>3, HomeLimits
  <1>5. /\ Home!Date(homeNow)' = Home!Date(homeNow + 1) /\ Home!Date(homeNow + 1) \in Nat
        /\ Home!Date(homeNow) <= Home!Date(homeNow + 1) /\ Home!Date(homeNow + 1) <= Home!Date(homeNow) + 1
    <2>1. Home!Date(homeNow)' = Home!Date(homeNow + 1)
      BY <1>1 DEF Home!Date
    <2>2. Home!Date(homeNow + 1) \in Nat /\ Home!Date(homeNow) <= Home!Date(homeNow + 1)
      BY <1>3, <1>4, HomeDates, LaterDates
    <2>3. PICK d \in Int : d = Home!Date(homeNow + 1) - 1
      BY <2>2
    <2>4. LastOf(d) < homeNow + 1
      BY <1>4, <2>2, <2>3, HomeDates
    <2>5. LastOf(d) <= homeNow
      BY <1>3, <2>4, LastMoments
    <2>6. d <= Home!Date(homeNow)
      BY <1>3, <2>5, DateBefore
    <2>7. QED
      BY <1>3, <2>1, <2>2, <2>3, <2>6
  <1>6. CatTypes'
    <2>1. homeNow' \in 0..HomeMaxNow
      BY <1>1, <1>4
    <2>2. \A n : n \in {-1} \cup (0..homeNow) => n \in {-1} \cup (0..homeNow')
      BY <1>1, <1>3
    <2>3. \A v \in DOMAIN homeMaster : homeMaster[v] \in MasterRows' /\ homeManifest[v] \in ManifestRows'
      <3>1. \A x \in MasterRows : x \in MasterRows'
        BY <2>2 DEF MasterRows, Home!Classes
      <3>2. \A x \in ManifestRows : x \in ManifestRows'
        BY <2>2 DEF ManifestRows, Home!Classes
      <3>3. QED
        BY <3>1, <3>2 DEF CatInv, CatTypes
    <2>4. EventRows' = EventRows
      BY DEF EventRows
    <2>5. \A e \in homeEvents : e.date <= Home!Date(homeNow)'
      <3>1. \A e \in homeEvents : e.date \in Nat
        BY DEF CatInv, CatTypes, EventRows
      <3>2. QED
        BY <1>3, <1>5, <3>1 DEF CatInv, CatTypes
    <2>6. /\ DOMAIN archives' \subseteq verified /\ \A v \in DOMAIN archives' : archives'[v] \in 0..homeNow'
          /\ \A v \in DOMAIN archiveTimes : archiveTimes[v] \in 0..homeNow'
      BY <1>1, <1>2, <1>3 DEF CatInv, CatTypes
    <2>7. Home!Kinds' = Home!Kinds /\ Home!Phases' = Home!Phases
      BY DEF Home!Kinds, Home!Phases
    <2>8. QED
      BY <1>1, <2>1, <2>3, <2>4, <2>5, <2>6, <2>7 DEF CatInv, CatTypes
  <1>7. CatShards'
    <2>1. \A d \in DOMAIN shards : LastOf(d)' <= homeNow'
      <3>1. \A d \in DOMAIN shards : LastOf(d) \in Int /\ LastOf(d) <= homeNow
        BY LastMoments DEF CatInv, CatShards
      <3>2. QED
        BY <1>1, <1>3, <3>1 DEF LastOf
    <2>2. QED
      BY <1>1, <2>1 DEF CatInv, CatShards
  <1>8. CatKinds'
    BY <1>1, <1>2 DEF CatInv, CatKinds, Home!Premiere, Home!Broadcast
  <1>9. CatEvents'
    BY <1>1 DEF CatInv, CatEvents, Home!Premiere
  <1>10. \A v \in HomeVideos : EndedBy(v) \in Int /\ EndedBy(v)' \in Int /\ EndedBy(v) <= EndedBy(v)' /\ SeenBy(v) \in Int /\ SeenBy(v) <= SeenBy(v)' /\ SeenBy(v)' \in Int
    <2>1. ASSUME NEW v \in HomeVideos PROVE EndedBy(v) \in Int /\ EndedBy(v)' \in Int /\ EndedBy(v) <= EndedBy(v)'
      <3>1. v \in DOMAIN archives => archives[v] \in Nat
        BY DEF CatInv, CatTypes
      <3>2. CASE v \in DOMAIN archives'
        BY <1>2, <3>1, <3>2 DEF EndedBy
      <3>3. CASE v \in DOMAIN archives \ DOMAIN archives'
        <4>1. homeNow + 1 - archives[v] > EndedRetention
          BY <1>2, <1>3, <3>1, <3>3, HomeLimits
        <4>2. QED
          BY <1>1, <1>3, <3>1, <3>3, <4>1, HomeLimits DEF EndedBy
      <3>4. CASE v \notin DOMAIN archives
        <4>1. v \notin DOMAIN archives'
          BY <1>2, <3>4
        <4>2. QED
          BY <1>1, <1>3, <3>4, <4>1, HomeLimits DEF EndedBy
      <3>5. QED
        BY <3>2, <3>3, <3>4
    <2>2. QED
      BY <1>1, <1>3, <2>1 DEF SeenBy
  <1>11. CatRelapse'
    <2>1. \A d \in Int : LastOf(d) \in Int /\ LastOf(d)' = LastOf(d)
      BY LastMoments DEF LastOf
    <2>2. \A e \in homeEvents : e.date \in Nat /\ e.v \in HomeVideos
      BY DEF CatInv, CatTypes, EventRows
    <2>3. ASSUME NEW d \in DOMAIN rankings, NEW x \in rankings[d], InProgress(x.class), x.v \in verified \ unsettled
          PROVE  LastOf(d) <= EndedBy(x.v)'
      <3>1. d \in Int /\ x.v \in HomeVideos
        BY <1>3 DEF CatInv, CatShards
      <3>2. LastOf(d) <= EndedBy(x.v)
        BY <2>3 DEF CatInv, CatRelapse
      <3>3. QED
        BY <1>10, <2>1, <3>1, <3>2
    <2>4. ASSUME NEW d \in DOMAIN shards \ DOMAIN rankings, NEW v \in DOMAIN shards[d], InProgress(homeManifest[v].class), v \in verified \ unsettled
          PROVE  LastOf(d) <= EndedBy(v)'
      <3>1. d \in Int /\ v \in HomeVideos
        BY <1>3 DEF CatInv, CatShards
      <3>2. LastOf(d) <= EndedBy(v)
        BY <2>4 DEF CatInv, CatRelapse
      <3>3. QED
        BY <1>10, <2>1, <3>1, <3>2
    <2>5. ASSUME NEW e \in homeEvents, e.v \in DOMAIN homeMaster, InProgress(homeMaster[e.v].class) PROVE LastOf(e.date) <= SeenBy(e.v)'
      <3>1. LastOf(e.date) <= SeenBy(e.v)
        BY <2>5 DEF CatInv, CatRelapse
      <3>2. QED
        BY <1>10, <2>1, <2>2, <3>1
    <2>6. \A e \in homeEvents : LastOf(e.date)' = LastOf(e.date)
      BY DEF LastOf
    <2>7. \A d \in DOMAIN shards : LastOf(d)' = LastOf(d)
      BY DEF LastOf
    <2>8. DOMAIN rankings \subseteq DOMAIN shards
      BY DEF CatInv, CatShards
    <2>9. QED
      BY <1>1, <2>3, <2>4, <2>5, <2>6, <2>7, <2>8 DEF CatRelapse
  <1>12. CatDays'
    <2>1. ASSUME NEW d \in DOMAIN rankings, NEW e \in Nat, d <= e, e < Home!Date(homeNow + 1) PROVE e \in DOMAIN rankings \cup missed'
      <3>1. CASE e < Home!Date(homeNow)
        BY <1>1, <2>1, <3>1 DEF CatInv, CatDays
      <3>2. CASE ~(e < Home!Date(homeNow))
        <4>1. e = Home!Date(homeNow) /\ Home!Date(homeNow + 1) # Home!Date(homeNow)
          BY <1>3, <1>5, <2>1, <3>2
        <4>2. DOMAIN homeManifest # {}
          BY <1>3 DEF CatInv, CatShards
        <4>3. QED
          BY <1>1, <4>1, <4>2
      <3>3. QED
        BY <3>1, <3>2
    <2>2. QED
      BY <1>1, <1>5, <2>1 DEF CatDays
  <1>13. CatCounts'
    <2>1. ASSUME NEW v \in HomeVideos, NEW C \in [Int -> Nat], Curve(v, C) PROVE Curve(v, C)'
      <3>1. \A x, p : Home!ViewGrowth(x, p)' = Home!ViewGrowth(x, p)
        BY DEF Home!ViewGrowth, Home!Growth
      <3>2. v \in DOMAIN homeMaster => Home!Date(homeMaster[v].found)' = Home!Date(homeMaster[v].found)
        BY <1>1 DEF Home!Date
      <3>3. C[Home!Date(homeNow + 1)] = gained[v]
        <4>1. gained[v] \in Nat
          BY DEF CatInv, CatTypes
        <4>2. C[Home!Date(homeNow)] = gained[v] /\ C[Home!Date(homeNow)] <= C[Home!Date(homeNow + 1)] /\ C[Home!Date(homeNow + 1)] <= gained[v]
          BY <1>3, <1>5, <2>1 DEF Curve
        <4>3. C[Home!Date(homeNow + 1)] \in Nat
          BY <1>5
        <4>4. QED
          BY <4>1, <4>2, <4>3
      <3>4. ASSUME NEW d \in DOMAIN shards, v \in DOMAIN shards[d],
                   d = Home!Date(homeNow + 1) \/ (d = Home!Date(homeNow + 1) - 1 /\ Home!Date(homeNow + 1) \notin DOMAIN shards)
            PROVE  shards[d][v] = homeMaster[v].views
        <4>1. d \in Nat /\ d <= Home!Date(homeNow)
          <5>1. d \in Nat /\ LastOf(d) <= homeNow
            BY DEF CatInv, CatShards
          <5>2. QED
            BY <1>3, <5>1, DateBefore
        <4>2. d = Home!Date(homeNow) \/ (d = Home!Date(homeNow) - 1 /\ Home!Date(homeNow) \notin DOMAIN shards)
          BY <1>3, <1>5, <3>4, <4>1
        <4>3. QED
          BY <2>1, <3>4, <4>2 DEF Curve
      <3>5. QED
        BY <1>1, <1>5, <2>1, <3>1, <3>2, <3>3, <3>4 DEF Curve
    <2>2. QED
      BY <1>1, <2>1 DEF CatInv, CatCounts
  <1>14. QED
    BY <1>6, <1>7, <1>8, <1>9, <1>11, <1>12, <1>13 DEF CatInv

\* What the daily run observes ("got"), and carries forward, on day D.
Collects(D, got) ==
    /\ D = Home!Date(homeNow) /\ homeNow = LastOf(D) /\ D \notin DOMAIN shards /\ got \subseteq DOMAIN homeMaster
    /\ UNCHANGED <<homeNow, homeKind, homePhase, homeEvents, rankings, missed, archives, archiveTimes, verified>>
    /\ DOMAIN shards' = DOMAIN shards \cup {D} /\ \A d \in DOMAIN shards : shards'[d] = shards[d]
    /\ DOMAIN homeMaster' = DOMAIN homeMaster /\ DOMAIN homeManifest' = DOMAIN homeMaster
    /\ \A v \in DOMAIN homeMaster \ got : homeMaster'[v] = homeMaster[v] /\ homeManifest'[v] = homeManifest[v]
    /\ \A v \in got : /\ homeMaster'[v] = [homeMaster[v] EXCEPT !.class = Home!Settled(v), !.views = shards'[D][v]]
                      /\ shards'[D][v] \in Nat /\ v \in DOMAIN shards'[D]
                      /\ gained'[v] = gained[v] + Home!Gain(v, shards'[D][v])
    /\ gained' \in [HomeVideos -> Int] /\ \A v \in HomeVideos \ got : gained'[v] = gained[v]
    /\ \A v \in DOMAIN shards'[D] \ got :
          /\ v \in DOMAIN homeMaster /\ ~InProgress(homeManifest[v].class)
          /\ shards'[D][v] = Home!LastKnown(v) /\ Home!LastKnown(v) # -1
    /\ unsettled \subseteq unsettled'
    /\ \A v \in got : \/ homeManifest'[v] = [homeManifest[v] EXCEPT !.class = Home!Settled(v)]
                      \/ homeManifest'[v] = homeManifest[v] /\ v \in unsettled'

LEMMA CollectsIs ==
    ASSUME CatInv, Home!CollectHistoryShard
    PROVE  \E got \in SUBSET DOMAIN homeMaster : Collects(Home!Date(homeNow), got)
  <1> DEFINE D == Home!Date(homeNow)
  <1>1. /\ homeNow \in Nat /\ D \in Nat /\ DOMAIN homeManifest = DOMAIN homeMaster
        /\ DOMAIN homeMaster \subseteq HomeVideos /\ homeNow = LastOf(D)
    <2>1. Home!DailyRunAt(homeNow)
      BY DEF Home!CollectHistoryShard
    <2>2. homeNow \in Nat /\ D \in Nat /\ DOMAIN homeManifest = DOMAIN homeMaster /\ DOMAIN homeMaster \subseteq HomeVideos
      BY CatNow DEF CatInv
    <2>3. QED
      BY <2>1, <2>2, HomeDates
  <1>2. /\ D \notin DOMAIN shards
        /\ UNCHANGED <<homeNow, homeKind, homePhase, homeEvents, rankings, missed, archives, archiveTimes, verified>>
    BY DEF Home!CollectHistoryShard, Home!world, Home!lifecycle
  <1> HIDE DEF D
  <1>3. PICK due \in SUBSET DOMAIN homeManifest :
          /\ Home!SelectClassificationDueIds(homeManifest) \subseteq due
          /\ LET carried == Home!CarryForwardNonDueRows(DOMAIN homeManifest \ due)
                 asked == DOMAIN homeManifest \ DOMAIN carried
             IN \E got \in SUBSET asked : \E counts \in [got -> ViewCounts] : \E patched \in BOOLEAN :
                /\ shards' = Home!With(shards, [d \in {D} |-> Home!With(carried, counts)])
                /\ homeMaster' = Home!With(homeMaster, [v \in got |->
                     [homeMaster[v] EXCEPT !.class = Home!Settled(v), !.views = counts[v]]])
                /\ gained' = [v \in HomeVideos |-> gained[v] + (IF v \in got THEN Home!Gain(v, counts[v]) ELSE 0)]
                /\ IF patched
                   THEN /\ homeManifest' = Home!With(homeManifest, [v \in got |-> [homeManifest[v] EXCEPT !.class = Home!Settled(v)]])
                        /\ UNCHANGED unsettled
                   ELSE /\ unsettled' = unsettled \cup got
                        /\ UNCHANGED homeManifest
    BY DEF Home!CollectHistoryShard, D
  <1> DEFINE carried == Home!CarryForwardNonDueRows(DOMAIN homeManifest \ due)
  <1>5. PICK got \in SUBSET (DOMAIN homeManifest \ DOMAIN carried) : \E counts \in [got -> ViewCounts] : \E patched \in BOOLEAN :
                /\ shards' = Home!With(shards, [d \in {D} |-> Home!With(carried, counts)])
                /\ homeMaster' = Home!With(homeMaster, [v \in got |->
                     [homeMaster[v] EXCEPT !.class = Home!Settled(v), !.views = counts[v]]])
                /\ gained' = [v \in HomeVideos |-> gained[v] + (IF v \in got THEN Home!Gain(v, counts[v]) ELSE 0)]
                /\ IF patched
                   THEN /\ homeManifest' = Home!With(homeManifest, [v \in got |-> [homeManifest[v] EXCEPT !.class = Home!Settled(v)]])
                        /\ UNCHANGED unsettled
                   ELSE /\ unsettled' = unsettled \cup got
                        /\ UNCHANGED homeManifest
    BY <1>3
  <1> HIDE DEF carried
  <1>6. PICK counts \in [got -> ViewCounts] : \E patched \in BOOLEAN :
                /\ shards' = Home!With(shards, [d \in {D} |-> Home!With(carried, counts)])
                /\ homeMaster' = Home!With(homeMaster, [v \in got |->
                     [homeMaster[v] EXCEPT !.class = Home!Settled(v), !.views = counts[v]]])
                /\ gained' = [v \in HomeVideos |-> gained[v] + (IF v \in got THEN Home!Gain(v, counts[v]) ELSE 0)]
                /\ IF patched
                   THEN /\ homeManifest' = Home!With(homeManifest, [v \in got |-> [homeManifest[v] EXCEPT !.class = Home!Settled(v)]])
                        /\ UNCHANGED unsettled
                   ELSE /\ unsettled' = unsettled \cup got
                        /\ UNCHANGED homeManifest
    BY <1>5
  <1>7. PICK shard : shard = Home!With(carried, counts)
    OBVIOUS
  <1>8. PICK day : day = [d \in {D} |-> shard]
    OBVIOUS
  <1>9. PICK rows : rows = [v \in got |-> [homeMaster[v] EXCEPT !.class = Home!Settled(v), !.views = counts[v]]]
    OBVIOUS
  <1>10. PICK entries : entries = [v \in got |-> [homeManifest[v] EXCEPT !.class = Home!Settled(v)]]
    OBVIOUS
  <1>11. /\ DOMAIN day = {D} /\ day[D] = shard
         /\ DOMAIN rows = got /\ \A v \in got : rows[v] = [homeMaster[v] EXCEPT !.class = Home!Settled(v), !.views = counts[v]]
         /\ DOMAIN entries = got /\ \A v \in got : entries[v] = [homeManifest[v] EXCEPT !.class = Home!Settled(v)]
    BY <1>8, <1>9, <1>10
  <1>12. /\ shards' = Home!With(shards, day) /\ homeMaster' = Home!With(homeMaster, rows)
         /\ gained' = [v \in HomeVideos |-> gained[v] + (IF v \in got THEN Home!Gain(v, counts[v]) ELSE 0)]
         /\ \/ homeManifest' = Home!With(homeManifest, entries) /\ unsettled' = unsettled
            \/ homeManifest' = homeManifest /\ unsettled' = unsettled \cup got
    BY <1>6, <1>7, <1>8, <1>9, <1>10
  <1>13. got \subseteq DOMAIN homeMaster /\ got \cap DOMAIN carried = {} /\ DOMAIN counts = got /\ \A v \in got : counts[v] \in Nat
    BY <1>1, HomeLimits
  <1>14. /\ DOMAIN shards' = DOMAIN shards \cup {D} /\ \A d \in DOMAIN shards : shards'[d] = shards[d]
         /\ shards'[D] = shard
    BY <1>2, <1>11, <1>12 DEF D, Home!With
  <1>15. /\ DOMAIN shard = DOMAIN carried \cup got /\ \A v \in got : shard[v] = counts[v]
         /\ \A v \in DOMAIN carried : shard[v] = carried[v]
    <2>1. \A v \in DOMAIN carried : v \in DOMAIN carried \ DOMAIN counts
      BY <1>13
    <2>2. QED
      BY <1>7, <1>13, <2>1 DEF Home!With
  <1>16. /\ DOMAIN homeMaster' = DOMAIN homeMaster
         /\ \A v \in got : homeMaster'[v] = rows[v]
         /\ \A v \in DOMAIN homeMaster \ got : homeMaster'[v] = homeMaster[v]
    <2>1. DOMAIN homeMaster' = DOMAIN homeMaster \cup DOMAIN rows
      BY <1>12, WithIs
    <2>2. \A v \in DOMAIN rows : homeMaster'[v] = rows[v]
      BY <1>12 DEF Home!With
    <2>3. \A v \in DOMAIN homeMaster \ DOMAIN rows : homeMaster'[v] = homeMaster[v]
      BY <1>12, WithIs
    <2>4. QED
      BY <1>11, <1>13, <2>1, <2>2, <2>3
  <1>17. /\ DOMAIN homeManifest' = DOMAIN homeMaster
         /\ \A v \in DOMAIN homeMaster \ got : homeManifest'[v] = homeManifest[v]
         /\ \A v \in got : \/ homeManifest'[v] = [homeManifest[v] EXCEPT !.class = Home!Settled(v)]
                           \/ homeManifest'[v] = homeManifest[v] /\ v \in unsettled'
    <2>1. CASE homeManifest' = Home!With(homeManifest, entries)
      <3>1. DOMAIN homeManifest' = DOMAIN homeManifest \cup DOMAIN entries
        BY <2>1, WithIs
      <3>2. \A v \in DOMAIN entries : homeManifest'[v] = entries[v]
        BY <2>1 DEF Home!With
      <3>3. \A v \in DOMAIN homeManifest \ DOMAIN entries : homeManifest'[v] = homeManifest[v]
        BY <2>1, WithIs
      <3>4. QED
        BY <1>1, <1>11, <1>13, <3>1, <3>2, <3>3
    <2>2. CASE homeManifest' = homeManifest /\ unsettled' = unsettled \cup got
      BY <1>1, <2>2
    <2>3. QED
      BY <1>12, <2>1, <2>2
  <1>18. unsettled \subseteq unsettled'
    BY <1>12
  <1>19. gained \in [HomeVideos -> Nat]
    BY DEF CatInv, CatTypes
  <1>20. \A v \in got : homeMaster[v].views \in {-1} \cup Nat
    BY <1>13 DEF CatInv, CatTypes, MasterRows
  <1>21. \A v \in got : Home!Gain(v, counts[v]) \in Int
    BY <1>13, <1>20 DEF Home!Gain, Home!None
  <1>22. gained' \in [HomeVideos -> Int]
    BY <1>12, <1>19, <1>21
  <1>23. \A v \in HomeVideos \ got : gained'[v] = gained[v]
    BY <1>12, <1>19
  <1>24. \A v \in got : gained'[v] = gained[v] + Home!Gain(v, counts[v])
    BY <1>1, <1>12, <1>13
  <1>25. \A v \in DOMAIN carried : /\ v \in DOMAIN homeMaster \ due /\ Home!LastKnown(v) # -1 /\ carried[v] = Home!LastKnown(v)
    BY <1>1 DEF Home!CarryForwardNonDueRows, Home!None, carried
  <1>26. \A v \in DOMAIN homeMaster \ due : ~InProgress(homeManifest[v].class)
    BY <1>1, <1>3 DEF Home!SelectClassificationDueIds, Home!InProgressStatuses, InProgress
  <1>27. \A v \in got : homeMaster'[v] = [homeMaster[v] EXCEPT !.class = Home!Settled(v), !.views = shards'[D][v]]
    <2>1. ASSUME NEW v \in got PROVE homeMaster'[v] = [homeMaster[v] EXCEPT !.class = Home!Settled(v), !.views = shards'[D][v]]
      <3>1. homeMaster'[v] = rows[v] /\ rows[v] = [homeMaster[v] EXCEPT !.class = Home!Settled(v), !.views = counts[v]]
        BY <1>11, <1>16
      <3>2. counts[v] = shards'[D][v]
        BY <1>14, <1>15
      <3>3. QED
        BY <3>1, <3>2
    <2>2. QED
      BY <2>1
  <1>28. Collects(D, got)
    BY <1>1, <1>2, <1>13, <1>14, <1>15, <1>16, <1>17, <1>18, <1>22, <1>23, <1>24, <1>25, <1>26, <1>27 DEF Collects, D
  <1>29. QED
    BY <1>13, <1>28 DEF D

\* The rows the daily run writes: what it observed, or what Video Master last held.
LEMMA CollectsRows ==
    ASSUME CatInv, NEW D, NEW got \in SUBSET DOMAIN homeMaster, Collects(D, got)
    PROVE  /\ \A d \in DOMAIN shards : d \in Nat /\ d < D
           /\ \A v \in DOMAIN shards'[D] : /\ v \in DOMAIN homeMaster' /\ shards'[D][v] \in Nat
                                           /\ shards'[D][v] = homeMaster'[v].views
           /\ \A v \in DOMAIN homeMaster :
                /\ homeMaster'[v] \in MasterRows /\ homeManifest'[v] \in ManifestRows
                /\ homeMaster'[v].found = homeMaster[v].found /\ homeManifest'[v].found = homeManifest[v].found
                /\ homeMaster'[v].views = -1 => v \notin got
  <1>1. D \in Nat /\ homeNow \in Nat /\ D = Home!Date(homeNow) /\ DOMAIN homeManifest = DOMAIN homeMaster
    BY CatNow DEF CatInv, Collects
  <1>2. ASSUME NEW d \in DOMAIN shards PROVE d \in Nat /\ d < D
    <2>1. d \in Nat /\ LastOf(d) <= homeNow /\ d # D
      BY DEF CatInv, CatShards, Collects
    <2>2. d <= D
      BY <1>1, <2>1, DateBefore
    <2>3. QED
      BY <1>1, <2>1, <2>2
  <1>3. ASSUME NEW v \in DOMAIN homeMaster
        PROVE /\ homeMaster'[v] \in MasterRows /\ homeManifest'[v] \in ManifestRows
              /\ homeMaster'[v].found = homeMaster[v].found /\ homeManifest'[v].found = homeManifest[v].found
              /\ homeMaster'[v].views = -1 => v \notin got
              /\ v \in got => homeMaster'[v].views = shards'[D][v]
    <2>1. homeMaster[v] \in MasterRows /\ homeManifest[v] \in ManifestRows /\ Home!Settled(v) \in Home!Classes
      <3>1. homeMaster[v] \in MasterRows /\ homeManifest[v] \in ManifestRows
        BY DEF CatInv, CatTypes
      <3>2. homeMaster[v].class \in Home!Classes
        BY <3>1 DEF MasterRows
      <3>3. QED
        BY <3>1, <3>2, SettledIs
    <2>2. CASE v \in got
      <3>1. homeMaster'[v] = [homeMaster[v] EXCEPT !.class = Home!Settled(v), !.views = shards'[D][v]] /\ shards'[D][v] \in Nat
        BY <2>2 DEF Collects
      <3>2. \/ homeManifest'[v] = [homeManifest[v] EXCEPT !.class = Home!Settled(v)]
            \/ homeManifest'[v] = homeManifest[v]
        BY <2>2 DEF Collects
      <3>3. /\ homeMaster'[v] \in MasterRows /\ homeMaster'[v].found = homeMaster[v].found
            /\ homeMaster'[v].views = shards'[D][v] /\ homeMaster'[v].views # -1
        <4>1. PICK class, count : class = Home!Settled(v) /\ count = shards'[D][v]
          OBVIOUS
        <4>2. homeMaster'[v] = [homeMaster[v] EXCEPT !.class = class, !.views = count] /\ count \in Nat /\ class \in Home!Classes
          BY <2>1, <3>1, <4>1
        <4>3. PICK old, new : old = homeMaster[v] /\ new = homeMaster'[v]
          OBVIOUS
        <4>4. new = [old EXCEPT !.class = class, !.views = count] /\ old \in MasterRows
          BY <2>1, <4>2, <4>3
        <4>5. new \in MasterRows /\ new.found = old.found /\ new.views = count
          BY <4>2, <4>4 DEF MasterRows
        <4>6. count # -1
          BY <4>2
        <4>7. QED
          BY <4>1, <4>3, <4>5, <4>6
      <3>4. homeManifest'[v] \in ManifestRows /\ homeManifest'[v].found = homeManifest[v].found
        BY <2>1, <3>2 DEF ManifestRows
      <3>5. QED
        BY <3>3, <3>4
    <2>3. CASE v \notin got
      <3>1. homeMaster'[v] = homeMaster[v] /\ homeManifest'[v] = homeManifest[v]
        BY <2>3 DEF Collects
      <3>2. QED
        BY <2>1, <2>3, <3>1
    <2>4. QED
      BY <2>2, <2>3
  <1>4. ASSUME NEW v \in DOMAIN shards'[D]
        PROVE  /\ v \in DOMAIN homeMaster' /\ shards'[D][v] \in Nat
               /\ shards'[D][v] = homeMaster'[v].views
    <2>1. CASE v \in got
      BY <1>3, <2>1 DEF Collects
    <2>2. CASE v \notin got
      <3>1. /\ v \in DOMAIN homeMaster /\ shards'[D][v] = Home!LastKnown(v) /\ Home!LastKnown(v) # -1
            /\ homeMaster'[v] = homeMaster[v] /\ DOMAIN homeMaster' = DOMAIN homeMaster
        BY <2>2 DEF Collects
      <3>2. homeMaster[v].views \in {-1} \cup Nat /\ v \in HomeVideos
        BY <3>1 DEF CatInv, CatTypes, MasterRows
      <3>3. PICK C \in [Int -> Nat] : Curve(v, C)
        BY <3>2 DEF CatInv, CatCounts
      <3>4. Home!LastKnown(v) = homeMaster[v].views
        <4>1. CASE D - 1 \in DOMAIN shards /\ v \in DOMAIN shards[D - 1]
          <5>1. Home!PreviousShard = shards[D - 1]
            BY <1>1, <4>1 DEF Home!PreviousShard
          <5>2. Home!LastKnown(v) = shards[D - 1][v]
            BY <4>1, <5>1 DEF Home!LastKnown
          <5>3. D \notin DOMAIN shards
            BY DEF Collects
          <5>4. QED
            BY <1>1, <3>3, <4>1, <5>2, <5>3 DEF Curve
        <4>2. CASE ~(D - 1 \in DOMAIN shards /\ v \in DOMAIN shards[D - 1])
          <5>1. v \notin DOMAIN Home!PreviousShard
            BY <1>1, <4>2, NoMapIs DEF Home!PreviousShard
          <5>2. QED
            BY <5>1 DEF Home!LastKnown
        <4>3. QED
          BY <4>1, <4>2
      <3>5. QED
        BY <3>1, <3>2, <3>4
    <2>3. QED
      BY <2>1, <2>2
  <1>5. QED
    BY <1>2, <1>3, <1>4

\* The gain of the day is what the count rose by, at least.
LEMMA GainIs ==
    ASSUME CatInv, NEW v \in DOMAIN homeMaster, NEW count \in Nat
    PROVE  /\ Home!Gain(v, count) \in Nat
           /\ homeMaster[v].views = -1 => Home!Gain(v, count) = count
           /\ homeMaster[v].views # -1 => Home!Gain(v, count) >= count - homeMaster[v].views
  <1>1. homeMaster[v].views \in {-1} \cup Nat
    BY DEF CatInv, CatTypes, MasterRows
  <1>2. QED
    BY <1>1 DEF Home!Gain, Home!None

LEMMA CollectsCurve ==
    ASSUME CatInv, NEW D, NEW got \in SUBSET DOMAIN homeMaster, Collects(D, got), gained' \in [HomeVideos -> Nat],
           NEW v \in HomeVideos
    PROVE  (\E C \in [Int -> Nat] : Curve(v, C))'
  <1>1. PICK C \in [Int -> Nat] : Curve(v, C)
    BY DEF CatInv, CatCounts
  <1>2. PICK N : N = [d \in Int |-> IF d < D THEN C[d] ELSE gained'[v]]
    OBVIOUS
  <1>3. /\ D \in Nat /\ D = Home!Date(homeNow) /\ homeNow \in Nat /\ Home!Date(homeNow)' = D
        /\ D \in DOMAIN shards' /\ DOMAIN shards' = DOMAIN shards \cup {D} /\ \A d \in DOMAIN shards : shards'[d] = shards[d]
        /\ DOMAIN homeMaster' = DOMAIN homeMaster /\ D \notin DOMAIN shards /\ rankings' = rankings
    BY CatNow DEF CatInv, Collects, Home!Date
  <1>4. N \in [Int -> Nat] /\ (\A d \in Int : d < D => N[d] = C[d]) /\ (\A d \in Int : ~(d < D) => N[d] = gained'[v])
    BY <1>2
  <1>5. /\ gained[v] \in Nat /\ gained'[v] \in Nat /\ gained[v] <= gained'[v]
        /\ v \notin DOMAIN homeMaster => gained'[v] = gained[v]
        /\ v \in DOMAIN homeMaster =>
             /\ homeMaster'[v].views <= gained'[v] /\ (homeMaster'[v].views = -1 => gained'[v] = 0)
             /\ homeMaster'[v].found = homeMaster[v].found
             /\ homeMaster[v].views # -1 =>
                  homeMaster'[v].views # -1 /\ homeMaster'[v].views - homeMaster[v].views <= gained'[v] - gained[v]
    <2>1. gained[v] \in Nat /\ gained'[v] \in Nat
      BY DEF CatInv, CatTypes
    <2>2. CASE v \in got
      <3>1. /\ homeMaster'[v] = [homeMaster[v] EXCEPT !.class = Home!Settled(v), !.views = shards'[D][v]]
            /\ shards'[D][v] \in Nat /\ gained'[v] = gained[v] + Home!Gain(v, shards'[D][v]) /\ v \in DOMAIN homeMaster
        BY <2>2 DEF Collects
      <3>2. homeMaster[v] \in MasterRows
        BY <3>1 DEF CatInv, CatTypes
      <3>3. homeMaster'[v].views = shards'[D][v] /\ homeMaster'[v].found = homeMaster[v].found /\ homeMaster[v].views \in {-1} \cup Nat
        BY <3>1, <3>2 DEF MasterRows
      <3>4. /\ Home!Gain(v, shards'[D][v]) \in Nat
            /\ homeMaster[v].views = -1 => Home!Gain(v, shards'[D][v]) = shards'[D][v]
            /\ homeMaster[v].views # -1 => Home!Gain(v, shards'[D][v]) >= shards'[D][v] - homeMaster[v].views
        BY <3>1, GainIs
      <3>5. homeMaster[v].views <= gained[v]
        BY <1>1, <3>1 DEF Curve
      <3>6. PICK gain, count : gain = Home!Gain(v, shards'[D][v]) /\ count = shards'[D][v]
        OBVIOUS
      <3>7. QED
        BY <2>1, <3>1, <3>3, <3>4, <3>5, <3>6
    <2>3. CASE v \notin got
      <3>1. gained'[v] = gained[v] /\ (v \in DOMAIN homeMaster => homeMaster'[v] = homeMaster[v])
        BY <2>3 DEF Collects
      <3>2. v \in DOMAIN homeMaster => homeMaster[v].views <= gained[v] /\ (homeMaster[v].views = -1 => gained[v] = 0)
        BY <1>1 DEF Curve
      <3>3. v \in DOMAIN homeMaster => homeMaster[v].views \in {-1} \cup Nat
        BY DEF CatInv, CatTypes, MasterRows
      <3>4. QED
        BY <2>1, <3>1, <3>2, <3>3
    <2>4. QED
      BY <2>2, <2>3
  <1>6. \A d \in DOMAIN shards : d \in Nat /\ d < D
    BY CollectsRows
  <1>7. \A d \in Int : C[d] \in Nat /\ C[d] <= gained[v] /\ (d < 0 => C[d] = 0)
    BY <1>1 DEF Curve
  <1>8. \A d, e \in Int : d <= e => N[d] <= N[e]
    <2>1. ASSUME NEW d \in Int, NEW e \in Int, d <= e PROVE N[d] <= N[e]
      <3>1. CASE e < D
        <4>1. d < D
          BY <1>3, <2>1, <3>1
        <4>2. C[d] <= C[e]
          BY <1>1, <2>1 DEF Curve
        <4>3. QED
          BY <1>4, <3>1, <4>1, <4>2
      <3>2. CASE ~(e < D) /\ d < D
        <4>1. N[d] = C[d] /\ N[e] = gained'[v] /\ C[d] <= gained[v] /\ C[d] \in Nat
          BY <1>4, <1>7, <3>2
        <4>2. QED
          BY <1>5, <4>1
      <3>3. CASE ~(e < D) /\ ~(d < D)
        <4>1. N[d] = gained'[v] /\ N[e] = gained'[v]
          BY <1>4, <3>3
        <4>2. QED
          BY <1>5, <4>1
      <3>4. QED
        BY <3>1, <3>2, <3>3
    <2>2. QED
      BY <2>1
  <1>9. \A d \in Int : N[d] <= gained'[v] /\ (d < 0 => N[d] = 0)
    <2>1. ASSUME NEW d \in Int PROVE N[d] <= gained'[v] /\ (d < 0 => N[d] = 0)
      <3>1. CASE d < D
        <4>1. N[d] = C[d] /\ C[d] \in Nat /\ C[d] <= gained[v] /\ (d < 0 => C[d] = 0)
          BY <1>4, <1>7, <3>1
        <4>2. QED
          BY <1>5, <4>1
      <3>2. CASE ~(d < D)
        BY <1>3, <1>4, <1>5, <3>2
      <3>3. QED
        BY <3>1, <3>2
    <2>2. QED
      BY <2>1
  <1>10. N[D] = gained'[v]
    BY <1>3, <1>4
  <1>11. v \notin DOMAIN homeMaster => gained'[v] = 0
    BY <1>1, <1>5 DEF Curve
  <1>12. ASSUME v \in DOMAIN homeMaster, homeMaster[v].found # -1
         PROVE  /\ Home!Date(homeMaster[v].found) \in Nat /\ Home!Date(homeMaster[v].found) <= D
                /\ \A d \in Int : d < Home!Date(homeMaster[v].found) => N[d] = 0
    <2>1. homeMaster[v].found \in Nat /\ homeMaster[v].found <= homeNow
      BY <1>3, <1>12 DEF CatInv, CatTypes, MasterRows
    <2>2. Home!Date(homeMaster[v].found) \in Nat /\ Home!Date(homeMaster[v].found) <= D
      BY <1>3, <2>1, LaterDates, HomeDates
    <2>3. \A d \in Int : d < Home!Date(homeMaster[v].found) => C[d] = 0
      BY <1>1, <1>12 DEF Curve
    <2>4. \A d \in Int : d < Home!Date(homeMaster[v].found) => d < D
      BY <1>3, <2>2
    <2>5. QED
      BY <1>4, <2>2, <2>3, <2>4
  <1>13. ASSUME NEW d \in DOMAIN shards', v \in DOMAIN shards'[d]
         PROVE  /\ homeMaster'[v].views # -1 /\ homeMaster'[v].views - shards'[d][v] <= gained'[v] - N[d]
                /\ d = D => shards'[d][v] = homeMaster'[v].views
    <2>1. CASE d = D
      <3>1. shards'[D][v] \in Nat /\ shards'[D][v] = homeMaster'[v].views
        BY <1>13, <2>1, CollectsRows
      <3>2. QED
        BY <1>5, <1>10, <2>1, <3>1
    <2>2. CASE d # D
      <3>1. d \in DOMAIN shards /\ shards'[d] = shards[d] /\ d \in Nat /\ d < D
        BY <1>3, <1>6, <1>13, <2>2
      <3>2. homeMaster[v].views # -1 /\ homeMaster[v].views - shards[d][v] <= gained[v] - C[d]
        BY <1>1, <1>13, <3>1 DEF Curve
      <3>3. v \in DOMAIN homeMaster /\ shards[d][v] \in Nat
        BY <1>13, <3>1 DEF CatInv, CatShards
      <3>4. homeMaster[v].views \in {-1} \cup Nat
        BY <3>3 DEF CatInv, CatTypes, MasterRows
      <3>5. homeMaster'[v].views \in {-1} \cup Nat
        <4>1. homeMaster'[v] \in MasterRows
          BY <3>3, CollectsRows
        <4>2. QED
          BY <4>1 DEF MasterRows
      <3>6. N[d] = C[d] /\ C[d] \in Nat
        BY <1>4, <1>7, <3>1
      <3>7. QED
        BY <1>5, <2>2, <3>1, <3>2, <3>3, <3>4, <3>5, <3>6
    <2>3. QED
      BY <2>1, <2>2
  <1>14. ASSUME NEW d \in DOMAIN rankings, NEW x \in rankings[d], x.v = v, NEW p \in Periods
         PROVE  Home!ViewGrowth(x, p)' \in 0..(N[d] - N[d - p])
    <2>1. d \in Nat /\ d < D /\ p \in Nat
      BY <1>6, HomeLimits DEF CatInv, CatShards
    <2>2. d \in Int /\ d - p \in Int /\ d < D /\ d - p < D
      BY <1>3, <2>1
    <2>3. N[d] = C[d] /\ N[d - p] = C[d - p]
      BY <1>4, <2>2
    <2>4. Home!ViewGrowth(x, p) \in 0..(C[d] - C[d - p])
      BY <1>1, <1>14 DEF Curve
    <2>5. Home!ViewGrowth(x, p)' = Home!ViewGrowth(x, p)
      BY DEF Home!ViewGrowth, Home!Growth
    <2>6. QED
      BY <2>3, <2>4, <2>5
  <1>15. \A t : Home!Date(t)' = Home!Date(t)
    BY DEF Home!Date
  <1>16. ASSUME NEW d \in DOMAIN shards', d = D \/ (d = D - 1 /\ D \notin DOMAIN shards') PROVE d = D
    BY <1>3, <1>16
  <1>17. Curve(v, N)'
    BY <1>3, <1>5, <1>8, <1>9, <1>10, <1>11, <1>12, <1>13, <1>14, <1>15, <1>16 DEF Curve
  <1>18. QED
    BY <1>4, <1>17

LEMMA CatCollects ==
    ASSUME CatInv, Home!CollectHistoryShard
    PROVE  CatInv'
  <1>1. PICK got \in SUBSET DOMAIN homeMaster : Collects(Home!Date(homeNow), got)
    BY CollectsIs
  <1>2. PICK D : D = Home!Date(homeNow)
    OBVIOUS
  <1>3. Collects(D, got)
    BY <1>1, <1>2
  <1>4. /\ homeNow = LastOf(D) /\ D \notin DOMAIN shards
        /\ UNCHANGED <<homeNow, homeKind, homePhase, homeEvents, rankings, missed, archives, archiveTimes, verified>>
        /\ DOMAIN shards' = DOMAIN shards \cup {D} /\ \A d \in DOMAIN shards : shards'[d] = shards[d]
        /\ DOMAIN homeMaster' = DOMAIN homeMaster /\ DOMAIN homeManifest' = DOMAIN homeMaster
        /\ unsettled \subseteq unsettled'
    BY <1>3 DEF Collects
  <1>5. /\ homeNow \in Nat /\ D \in Nat /\ DOMAIN homeManifest = DOMAIN homeMaster /\ DOMAIN homeMaster \subseteq HomeVideos
        /\ verified \subseteq HomeVideos /\ Home!Date(homeNow)' = D
    BY <1>2, <1>4, CatNow DEF CatInv, Home!Date
  <1>6. \A d \in DOMAIN shards : d \in Nat /\ d < D
    BY <1>3, CollectsRows
  <1>7. /\ \A v \in DOMAIN shards'[D] : v \in DOMAIN homeMaster /\ shards'[D][v] \in Nat
        /\ \A v \in DOMAIN homeMaster :
             /\ homeMaster'[v] \in MasterRows /\ homeManifest'[v] \in ManifestRows
             /\ homeMaster'[v].found = homeMaster[v].found /\ homeManifest'[v].found = homeManifest[v].found
    BY <1>3, <1>4, CollectsRows
  <1>8. gained' \in [HomeVideos -> Nat]
    <2>1. gained \in [HomeVideos -> Nat] /\ gained' \in [HomeVideos -> Int]
      BY <1>3 DEF CatInv, CatTypes, Collects
    <2>2. ASSUME NEW v \in HomeVideos PROVE gained'[v] \in Nat
      <3>1. CASE v \in got
        <4>1. shards'[D][v] \in Nat /\ gained'[v] = gained[v] + Home!Gain(v, shards'[D][v]) /\ v \in DOMAIN homeMaster
          BY <1>3, <3>1 DEF Collects
        <4>2. Home!Gain(v, shards'[D][v]) \in Nat
          BY <4>1, GainIs
        <4>3. QED
          BY <2>1, <4>1, <4>2
      <3>2. CASE v \notin got
        BY <1>3, <2>1, <3>2 DEF Collects
      <3>3. QED
        BY <3>1, <3>2
    <2>3. QED
      BY <2>1, <2>2
  <1>9. CatTypes'
    <2>1. \A v \in DOMAIN homeMaster : homeMaster[v].found = homeManifest[v].found
      BY DEF CatInv, CatTypes
    <2>2. \A v \in DOMAIN homeMaster' :
             homeMaster'[v] \in MasterRows' /\ homeManifest'[v] \in ManifestRows' /\ homeMaster'[v].found = homeManifest'[v].found
      <3>1. MasterRows' = MasterRows /\ ManifestRows' = ManifestRows
        BY <1>4 DEF MasterRows, ManifestRows, Home!Classes, Home!InProgressStatuses
      <3>2. QED
        BY <1>4, <1>7, <2>1, <3>1
    <2>3. Home!Kinds' = Home!Kinds /\ Home!Phases' = Home!Phases /\ EventRows' = EventRows
      BY DEF Home!Kinds, Home!Phases, EventRows
    <2>4. Home!Date(homeNow)' = Home!Date(homeNow)
      BY <1>2, <1>5
    <2>5. QED
      BY <1>4, <1>5, <1>8, <2>2, <2>3, <2>4 DEF CatInv, CatTypes
  <1>10. \A d \in Int : LastOf(d)' = LastOf(d)
    BY DEF LastOf
  <1>11. \A d \in DOMAIN shards : DOMAIN shards[d] \subseteq DOMAIN homeMaster
    BY DEF CatInv, CatShards
  <1>12. CatShards'
    <2>1. DOMAIN shards' \subseteq Nat /\ DOMAIN rankings' \subseteq DOMAIN shards'
      BY <1>4, <1>5, <1>6 DEF CatInv, CatShards
    <2>2. ASSUME NEW d \in DOMAIN shards'
          PROVE  /\ LastOf(d)' <= homeNow' /\ DOMAIN shards'[d] \subseteq DOMAIN homeMaster'
                 /\ \A v \in DOMAIN shards'[d] : shards'[d][v] \in Nat
      <3>1. CASE d = D
        <4>1. LastOf(D)' = homeNow'
          BY <1>4 DEF LastOf
        <4>2. QED
          BY <1>4, <1>5, <1>7, <3>1, <4>1
      <3>2. CASE d # D
        <4>1. d \in DOMAIN shards /\ d \in Int /\ shards'[d] = shards[d]
          BY <1>4, <1>6, <3>2
        <4>2. QED
          BY <1>4, <1>10, <4>1 DEF CatInv, CatShards
      <3>3. QED
        BY <3>1, <3>2
    <2>3. ASSUME NEW d \in DOMAIN rankings
          PROVE  /\ DOMAIN shards'[d] # {} /\ {row.v : row \in rankings[d]} = DOMAIN shards'[d]
                 /\ \A x, y \in rankings[d] : x.v = y.v => x = y
                 /\ \A x \in rankings[d] : x.found = homeMaster'[x.v].found
      <3>1. /\ d \in DOMAIN shards /\ DOMAIN shards[d] # {} /\ {row.v : row \in rankings[d]} = DOMAIN shards[d]
            /\ \A x, y \in rankings[d] : x.v = y.v => x = y
            /\ \A x \in rankings[d] : x.found = homeMaster[x.v].found
        BY DEF CatInv, CatShards
      <3>2. shards'[d] = shards[d]
        BY <1>4, <3>1
      <3>3. \A x \in rankings[d] : x.v \in DOMAIN homeMaster
        BY <1>11, <3>1
      <3>4. QED
        BY <1>7, <3>1, <3>2, <3>3
    <2>4. QED
      BY <1>4, <2>1, <2>2, <2>3 DEF CatShards
  <1>13. \A v \in got : v \in DOMAIN homeMaster /\ homeMaster[v].class \in Home!Classes
    BY DEF CatInv, CatTypes, MasterRows
  <1>14. \A v \in DOMAIN homeMaster :
            /\ homeMaster'[v].class = homeMaster[v].class \/ (v \in got /\ homeMaster'[v].class = Home!Settled(v))
            /\ homeManifest'[v].class = homeManifest[v].class \/ (v \in got /\ homeManifest'[v].class = Home!Settled(v))
            /\ v \in got => homeManifest'[v].class = Home!Settled(v) \/ v \in unsettled'
    <2>1. ASSUME NEW v \in DOMAIN homeMaster, v \in got
          PROVE  /\ homeMaster'[v].class = Home!Settled(v)
                 /\ \/ homeManifest'[v].class = Home!Settled(v)
                    \/ homeManifest'[v].class = homeManifest[v].class /\ v \in unsettled'
      <3>1. /\ homeMaster'[v] = [homeMaster[v] EXCEPT !.class = Home!Settled(v), !.views = shards'[D][v]]
            /\ \/ homeManifest'[v] = [homeManifest[v] EXCEPT !.class = Home!Settled(v)]
               \/ homeManifest'[v] = homeManifest[v] /\ v \in unsettled'
        BY <1>3, <2>1 DEF Collects
      <3>2. homeMaster[v] \in MasterRows /\ homeManifest[v] \in ManifestRows
        BY DEF CatInv, CatTypes
      <3>3. QED
        BY <3>1, <3>2 DEF MasterRows, ManifestRows
    <2>2. ASSUME NEW v \in DOMAIN homeMaster, v \notin got PROVE homeMaster'[v] = homeMaster[v] /\ homeManifest'[v] = homeManifest[v]
      BY <1>3, <2>2 DEF Collects
    <2>3. QED
      BY <2>1, <2>2
  <1>15. CatKinds'
    <2>1. \A v \in got : Home!Settled(v) = "completed" => homeKind[v] = "stream"
      BY <1>13, SettledIs
    <2>2. \A v \in DOMAIN homeMaster :
             homeMaster'[v].class = "completed" \/ homeManifest'[v].class = "completed" => homeKind[v] = "stream"
      BY <1>14, <2>1 DEF CatInv, CatKinds
    <2>3. \A v : (Home!Premiere(v)' <=> Home!Premiere(v)) /\ (Home!Broadcast(v)' <=> Home!Broadcast(v))
      BY <1>4 DEF Home!Premiere, Home!Broadcast
    <2>4. QED
      BY <1>4, <2>2, <2>3 DEF CatInv, CatKinds
  <1>16. CatEvents'
    <2>1. \A v : Home!Premiere(v)' <=> Home!Premiere(v)
      BY <1>4 DEF Home!Premiere
    <2>2. ASSUME NEW e \in homeEvents, NEW d \in DOMAIN shards', e.v \in DOMAIN shards'[d] PROVE e.date <= d
      <3>1. e.date <= D
        BY <1>2 DEF CatInv, CatTypes
      <3>2. d # D => d \in DOMAIN shards /\ shards'[d] = shards[d]
        BY <1>4
      <3>3. QED
        BY <2>2, <3>1, <3>2 DEF CatInv, CatEvents
    <2>3. QED
      BY <1>4, <2>1, <2>2 DEF CatInv, CatEvents
  <1>17. \A v \in got : InProgress(Home!Settled(v)) => v \notin verified
    BY <1>13, SettledIs DEF CatInv, CatKinds
  <1>18. CatRelapse'
    <2>1. \A v : EndedBy(v)' = EndedBy(v) /\ SeenBy(v)' = SeenBy(v)
      BY <1>4 DEF EndedBy, SeenBy
    <2>2. \A d \in DOMAIN rankings : d \in Int
      BY DEF CatInv, CatShards
    <2>3. \A d \in DOMAIN rankings : \A x \in rankings[d] :
             InProgress(x.class) /\ x.v \in verified \ unsettled' => LastOf(d) <= EndedBy(x.v)
      BY <1>4 DEF CatInv, CatRelapse
    <2>4. ASSUME NEW e \in homeEvents, e.v \in DOMAIN homeMaster, InProgress(homeMaster'[e.v].class) PROVE LastOf(e.date) <= SeenBy(e.v)
      <3>1. CASE homeMaster'[e.v].class = homeMaster[e.v].class
        BY <2>4, <3>1 DEF CatInv, CatRelapse
      <3>2. CASE e.v \in got /\ homeMaster'[e.v].class = Home!Settled(e.v)
        <4>1. SeenBy(e.v) = homeNow
          BY <1>17, <2>4, <3>2 DEF SeenBy
        <4>2. e.date \in Int /\ e.date <= D
          BY <1>2 DEF CatInv, CatTypes, EventRows
        <4>3. LastOf(e.date) <= LastOf(D)
          BY <1>5, <4>2, LastMoments
        <4>4. QED
          BY <1>4, <4>1, <4>3
      <3>3. QED
        BY <1>14, <2>4, <3>1, <3>2
    <2>5. \A e \in homeEvents : LastOf(e.date)' = LastOf(e.date)
      BY DEF LastOf
    <2>6. ASSUME NEW d \in DOMAIN shards' \ DOMAIN rankings, NEW v \in DOMAIN shards'[d],
                 InProgress(homeManifest'[v].class), v \in verified \ unsettled'
          PROVE  LastOf(d) <= EndedBy(v)
      <3>1. v \in DOMAIN homeMaster
        BY <1>4, <1>7, <1>11
      <3>2. v \notin got
        BY <1>14, <1>17, <2>6, <3>1
      <3>3. homeManifest'[v] = homeManifest[v]
        BY <1>3, <3>1, <3>2 DEF Collects
      <3>4. d # D
        BY <1>3, <2>6, <3>2, <3>3 DEF Collects
      <3>5. d \in DOMAIN shards \ DOMAIN rankings /\ v \in DOMAIN shards[d] /\ v \in verified \ unsettled
        BY <1>4, <2>6, <3>4
      <3>6. QED
        BY <2>6, <3>3, <3>5 DEF CatInv, CatRelapse
    <2>7. \A d \in DOMAIN shards' : LastOf(d)' = LastOf(d)
      BY DEF LastOf
    <2>8. DOMAIN rankings \subseteq DOMAIN shards'
      BY <1>4 DEF CatInv, CatShards
    <2>9. QED
      BY <1>4, <2>1, <2>3, <2>4, <2>5, <2>6, <2>7, <2>8 DEF CatRelapse
  <1>19. CatDays'
    BY <1>2, <1>4, <1>5 DEF CatInv, CatDays
  <1>20. CatCounts'
    <2>1. \A v \in HomeVideos : (\E C \in [Int -> Nat] : Curve(v, C))'
      BY <1>3, <1>8, CollectsCurve
    <2>2. QED
      BY <2>1 DEF CatCounts
  <1>21. QED
    BY <1>9, <1>12, <1>15, <1>16, <1>18, <1>19, <1>20 DEF CatInv

\* The row of the day's ranking.
CatalogRow(v, d) ==
    [v |-> v, class |-> IF v \in DOMAIN homeManifest THEN homeManifest[v].class ELSE "none",
     found |-> IF v \in DOMAIN homeManifest THEN homeManifest[v].found ELSE -1,
     views |-> shards[d][v], anchors |-> Home!ExactAnchors(d, v)]

LEMMA CatalogIs ==
    ASSUME NEW d
    PROVE  Home!BuildCreatorVideoCatalog(d) = {CatalogRow(v, d) : v \in DOMAIN shards[d]}
  BY DEF Home!BuildCreatorVideoCatalog, CatalogRow, Home!None

\* The anchor of a period, and what may be counted from it.
LEMMA AnchorIs ==
    ASSUME CatInv, NEW d \in DOMAIN shards, NEW v \in DOMAIN shards[d], NEW p \in Periods
    PROVE  \/ Home!ExactAnchors(d, v)[p] = -1
           \/ /\ d - p \in DOMAIN shards /\ v \in DOMAIN shards[d - p]
              /\ Home!ExactAnchors(d, v)[p] = shards[d - p][v]
           \/ /\ homeManifest[v].found # -1 /\ v \in DOMAIN homeManifest /\ Home!Date(homeManifest[v].found) > d - p
              /\ Home!ExactAnchors(d, v)[p] = 0
  <1> DEFINE anchor == Home!AnchorCount(d - p, v)
             since == Home!DiscoveredDate(v)
  <1>1. Home!ExactAnchors(d, v)[p] =
           IF Home!PeriodValue(shards[d][v], anchor, d - p, since).known
           THEN shards[d][v] - Home!PeriodValue(shards[d][v], anchor, d - p, since).gain ELSE -1
    BY DEF Home!ExactAnchors, Home!None
  <1>2. shards[d][v] \in Nat /\ d \in Nat /\ p \in Nat
    BY HomeLimits DEF CatInv, CatShards
  <1>3. anchor = -1 \/ (d - p \in DOMAIN shards /\ v \in DOMAIN shards[d - p] /\ anchor = shards[d - p][v] /\ anchor \in Nat)
    BY DEF Home!AnchorCount, Home!None, CatInv, CatShards
  <1>4. since = -1 \/ (v \in DOMAIN homeManifest /\ homeManifest[v].found # -1 /\ since = Home!Date(homeManifest[v].found))
    BY DEF Home!DiscoveredDate, Home!None
  <1> HIDE DEF anchor, since
  <1>5. CASE anchor # -1
    <2>1. Home!PeriodValue(shards[d][v], anchor, d - p, since) = [known |-> TRUE, gain |-> shards[d][v] - anchor]
      BY <1>5 DEF Home!PeriodValue, Home!None
    <2>2. Home!ExactAnchors(d, v)[p] = shards[d][v] - (shards[d][v] - anchor)
      BY <1>1, <2>1
    <2>3. QED
      BY <1>2, <1>3, <1>5, <2>2
  <1>6. CASE anchor = -1 /\ since # -1 /\ since > d - p
    <2>1. Home!PeriodValue(shards[d][v], anchor, d - p, since) = [known |-> TRUE, gain |-> shards[d][v]]
      BY <1>6 DEF Home!PeriodValue, Home!None
    <2>2. Home!ExactAnchors(d, v)[p] = shards[d][v] - shards[d][v]
      BY <1>1, <2>1
    <2>3. QED
      BY <1>2, <1>4, <1>6, <2>2
  <1>7. CASE anchor = -1 /\ ~(since # -1 /\ since > d - p)
    <2>1. Home!PeriodValue(shards[d][v], anchor, d - p, since) = [known |-> FALSE, gain |-> 0]
      BY <1>7 DEF Home!PeriodValue, Home!None
    <2>2. QED
      BY <1>1, <2>1
  <1>8. QED
    BY <1>5, <1>6, <1>7

\* The growth the ranking of the day shows is a part of what was gained.
LEMMA GrowthIs ==
    ASSUME CatInv, NEW D \in DOMAIN shards, D = Home!Date(homeNow), NEW v \in DOMAIN shards[D], NEW p \in Periods,
           NEW C \in [Int -> Nat], Curve(v, C)
    PROVE  Home!ViewGrowth(CatalogRow(v, D), p) \in 0..(C[D] - C[D - p])
  <1>1. D \in Nat /\ p \in Nat \ {0} /\ D - p \in Int /\ D \in Int /\ v \in DOMAIN homeMaster /\ DOMAIN homeManifest = DOMAIN homeMaster
        /\ shards[D][v] \in Nat /\ homeMaster[v].found = homeManifest[v].found
    BY HomeLimits DEF CatInv, CatTypes, CatShards
  <1>2. C[D] \in Nat /\ C[D - p] \in Nat /\ C[D - p] <= C[D] /\ C[D] = gained[v]
    BY <1>1 DEF Curve
  <1>3. shards[D][v] = homeMaster[v].views /\ homeMaster[v].views <= gained[v]
    BY <1>1 DEF Curve
  <1>4. PICK anchor : anchor = Home!ExactAnchors(D, v)[p]
    OBVIOUS
  <1>5. Home!ViewGrowth(CatalogRow(v, D), p) =
           IF anchor = -1 \/ shards[D][v] - anchor < 0 THEN 0 ELSE shards[D][v] - anchor
    BY <1>4 DEF Home!ViewGrowth, Home!Growth, CatalogRow, Home!None
  <1>6. CASE anchor = -1
    BY <1>2, <1>5, <1>6
  <1>7. CASE D - p \in DOMAIN shards /\ v \in DOMAIN shards[D - p] /\ anchor = shards[D - p][v]
    <2>1. homeMaster[v].views - shards[D - p][v] <= gained[v] - C[D - p]
      BY <1>7 DEF Curve
    <2>2. anchor \in Nat
      BY <1>7 DEF CatInv, CatShards
    <2>3. QED
      BY <1>1, <1>2, <1>3, <1>5, <1>7, <2>1, <2>2
  <1>8. CASE homeManifest[v].found # -1 /\ Home!Date(homeManifest[v].found) > D - p /\ anchor = 0
    <2>1. C[D - p] = 0
      BY <1>1, <1>8 DEF Curve
    <2>2. QED
      BY <1>1, <1>2, <1>3, <1>5, <1>8, <2>1
  <1>9. QED
    BY <1>4, <1>6, <1>7, <1>8, AnchorIs

LEMMA CatBuilds ==
    ASSUME CatInv, Home!BuildAndPersistVideoRankings
    PROVE  CatInv'
  <1>1. PICK D : D = Home!Date(homeNow)
    OBVIOUS
  <1>2. /\ D \in DOMAIN shards \ DOMAIN rankings /\ DOMAIN shards[D] # {}
        /\ UNCHANGED <<homeNow, homeKind, homePhase, homeMaster, homeManifest, homeEvents, shards, gained, missed, unsettled,
                       archives, archiveTimes, verified>>
    BY <1>1 DEF Home!BuildAndPersistVideoRankings, Home!world, Home!catalog, Home!lifecycle
  <1>3. PICK day : day = [d \in {D} |-> Home!BuildCreatorVideoCatalog(d)]
    OBVIOUS
  <1>4. rankings' = Home!With(rankings, day)
    BY <1>1, <1>3 DEF Home!BuildAndPersistVideoRankings
  <1>5. DOMAIN day = {D} /\ day[D] = Home!BuildCreatorVideoCatalog(D)
    BY <1>3
  <1>6. /\ DOMAIN rankings' = DOMAIN rankings \cup {D} /\ \A d \in DOMAIN rankings : rankings'[d] = rankings[d]
        /\ rankings'[D] = {CatalogRow(v, D) : v \in DOMAIN shards[D]}
    BY <1>2, <1>4, <1>5, CatalogIs DEF Home!With
  <1>7. /\ homeNow \in Nat /\ D \in Nat /\ DOMAIN homeManifest = DOMAIN homeMaster /\ DOMAIN homeMaster \subseteq HomeVideos
        /\ Home!Date(homeNow)' = D
    BY <1>1, <1>2, CatNow DEF CatInv, Home!Date
  <1>8. \A v \in DOMAIN shards[D] : v \in DOMAIN homeMaster
    BY <1>2 DEF CatInv, CatShards
  <1>9. \A v \in DOMAIN shards[D] :
           /\ CatalogRow(v, D).v = v /\ CatalogRow(v, D).class = homeManifest[v].class
           /\ CatalogRow(v, D).found = homeMaster[v].found
    <2>1. \A v \in DOMAIN homeMaster : homeMaster[v].found = homeManifest[v].found
      BY DEF CatInv, CatTypes
    <2>2. QED
      BY <1>7, <1>8, <2>1 DEF CatalogRow
  <1>10. \A x \in rankings'[D] : x.v \in DOMAIN shards[D] /\ x = CatalogRow(x.v, D)
    BY <1>6, <1>9
  <1>11. CatTypes'
    <2>1. Home!Date(homeNow)' = Home!Date(homeNow)
      BY <1>1, <1>7
    <2>2. QED
      BY <1>2, <2>1 DEF CatInv, CatTypes, MasterRows, ManifestRows, EventRows, Home!Classes, Home!Phases, Home!Kinds,
         Home!InProgressStatuses
  <1>12. CatShards'
    <2>1. {row.v : row \in rankings'[D]} = DOMAIN shards[D]
      BY <1>6, <1>9
    <2>2. \A x, y \in rankings'[D] : x.v = y.v => x = y
      BY <1>10
    <2>3. \A x \in rankings'[D] : x.found = homeMaster[x.v].found
      BY <1>9, <1>10
    <2>4. ASSUME NEW d \in DOMAIN rankings'
          PROVE  /\ DOMAIN shards[d] # {} /\ {row.v : row \in rankings'[d]} = DOMAIN shards[d]
                 /\ \A x, y \in rankings'[d] : x.v = y.v => x = y
                 /\ \A x \in rankings'[d] : x.found = homeMaster[x.v].found
      <3>1. CASE d = D
        BY <1>2, <2>1, <2>2, <2>3, <3>1
      <3>2. CASE d # D
        <4>1. d \in DOMAIN rankings /\ rankings'[d] = rankings[d]
          BY <1>6, <2>4, <3>2
        <4>2. QED
          BY <4>1 DEF CatInv, CatShards
      <3>3. QED
        BY <3>1, <3>2
    <2>5. DOMAIN rankings' \subseteq DOMAIN shards
      BY <1>2, <1>6 DEF CatInv, CatShards
    <2>6. \A d \in DOMAIN shards : LastOf(d)' = LastOf(d)
      BY DEF LastOf
    <2>7. QED
      BY <1>2, <2>4, <2>5, <2>6 DEF CatInv, CatShards
  <1>13. CatKinds'
    <2>1. \A v : (Home!Premiere(v)' <=> Home!Premiere(v)) /\ (Home!Broadcast(v)' <=> Home!Broadcast(v))
      BY <1>2 DEF Home!Premiere, Home!Broadcast
    <2>2. \A x \in rankings'[D] : x.class = "completed" => homeKind[x.v] = "stream"
      BY <1>8, <1>9, <1>10 DEF CatInv, CatKinds
    <2>3. QED
      BY <1>2, <1>6, <2>1, <2>2 DEF CatInv, CatKinds
  <1>14. CatEvents'
    BY <1>2 DEF CatInv, CatEvents, Home!Premiere
  <1>15. CatRelapse'
    <2>1. \A v : EndedBy(v)' = EndedBy(v) /\ SeenBy(v)' = SeenBy(v)
      BY <1>2 DEF EndedBy, SeenBy
    <2>2. \A d : LastOf(d)' = LastOf(d)
      BY DEF LastOf
    <2>3. \A x \in rankings'[D] : InProgress(x.class) /\ x.v \in verified \ unsettled => LastOf(D) <= EndedBy(x.v)
      BY <1>2, <1>9, <1>10 DEF CatInv, CatRelapse
    <2>4. QED
      BY <1>2, <1>6, <2>1, <2>2, <2>3 DEF CatInv, CatRelapse
  <1>16. CatDays'
    BY <1>1, <1>2, <1>6, <1>7 DEF CatInv, CatDays
  <1>17. CatCounts'
    <2>1. ASSUME NEW v \in HomeVideos, NEW C \in [Int -> Nat], Curve(v, C) PROVE Curve(v, C)'
      <3>1. \A x, p : Home!ViewGrowth(x, p)' = Home!ViewGrowth(x, p)
        BY DEF Home!ViewGrowth, Home!Growth
      <3>2. \A t : Home!Date(t)' = Home!Date(t)
        BY DEF Home!Date
      <3>3. Home!Date(homeNow)' = Home!Date(homeNow)
        BY <1>1, <1>7
      <3>4. ASSUME NEW x \in rankings'[D], x.v = v, NEW p \in Periods
            PROVE  Home!ViewGrowth(x, p) \in 0..(C[D] - C[D - p])
        BY <1>1, <1>2, <1>10, <2>1, <3>4, GrowthIs
      <3>5. \A d \in DOMAIN rankings' : \A x \in rankings'[d] :
               x.v = v => \A p \in Periods : Home!ViewGrowth(x, p) \in 0..(C[d] - C[d - p])
        BY <1>6, <2>1, <3>4 DEF Curve
      <3>6. QED
        BY <1>2, <2>1, <3>1, <3>2, <3>3, <3>5 DEF Curve
    <2>2. QED
      BY <2>1 DEF CatInv, CatCounts
  <1>18. QED
    BY <1>11, <1>12, <1>13, <1>14, <1>15, <1>16, <1>17 DEF CatInv

\* Every step of the lists keeps the invariant.
LEMMA StepCat == CatInv /\ Home!Next => CatInv'
  BY CatBroadcasts, CatAnnounce, CatDiscover, CatVerifies, CatRecordsTime, CatCollects, CatBuilds, CatTicks DEF Home!Next

LEMMA CatStands == CatInv /\ UNCHANGED homeVars => CatInv'
  <1> SUFFICES ASSUME CatInv, UNCHANGED homeVars PROVE CatInv'
    OBVIOUS
  <1>1. UNCHANGED <<homeNow, homeKind, homePhase, homeMaster, homeManifest, homeEvents, shards, rankings, gained, missed,
                    unsettled, archives, archiveTimes, verified>>
    BY DEF homeVars
  <1>2. \A t : Home!Date(t)' = Home!Date(t)
    BY DEF Home!Date
  <1>3. Home!Date(homeNow)' = Home!Date(homeNow)
    BY <1>1 DEF Home!Date
  <1>4. CatTypes'
    BY <1>1, <1>3 DEF CatInv, CatTypes, MasterRows, ManifestRows, EventRows, Home!Classes, Home!Phases, Home!Kinds,
       Home!InProgressStatuses
  <1>5. CatShards' /\ CatDays' /\ CatKinds' /\ CatEvents'
    BY <1>1, <1>3 DEF CatInv, CatShards, CatDays, CatKinds, CatEvents, LastOf, Home!Premiere, Home!Broadcast
  <1>6. CatRelapse'
    BY <1>1 DEF CatInv, CatRelapse, LastOf, EndedBy, SeenBy
  <1>7. CatCounts'
    BY <1>1, CurvesStand DEF CatInv
  <1>8. QED
    BY <1>4, <1>5, <1>6, <1>7 DEF CatInv

-----------------------------------------------------------------------------
(* What the invariant of the lists says *)

LEMMA GreatestExists ==
    ASSUME NEW S \in SUBSET Nat, S # {}, NEW bound \in Nat, \A d \in S : d <= bound
    PROVE  \E d \in S : \A e \in S : d >= e
  <1>1. PICK T : T = {bound - d : d \in S}
    OBVIOUS
  <1>2. T \subseteq Nat /\ T # {}
    <2>1. \A d \in S : d \in Nat /\ bound - d \in Nat
      OBVIOUS
    <2>2. T \subseteq Nat
      BY <1>1, <2>1
    <2>3. QED
      BY <1>1, <2>2, Zenon
  <1>3. PICK t \in T : \A u \in T : ~(u < t)
    <2>1. PICK t \in T : \A u \in T : <<u, t>> \notin OpToRel(<, Nat)
      BY <1>2, NatLessThanWellFounded, WFMin
    <2>2. QED
      BY <1>2, <2>1 DEF OpToRel
  <1>4. PICK d \in S : t = bound - d
    BY <1>1
  <1>5. \A e \in S : bound - e \in T /\ e \in Nat
    BY <1>1
  <1>6. QED
    BY <1>3, <1>4, <1>5

\* The newest ranking that the list may use.
LEMMA ReportDateIs ==
    ASSUME CatTypes, CatShards, Home!Ready
    PROVE  /\ Home!ReportDate \in DOMAIN rankings /\ Home!ReportDate \in DOMAIN shards /\ Home!ReportDate \in Nat
           /\ Home!ReportDate > Home!Date(homeNow) - ReportLookback /\ Home!ReportDate <= Home!Date(homeNow)
           /\ \A d \in DOMAIN rankings : d > Home!Date(homeNow) - ReportLookback => d <= Home!ReportDate
  <1>1. homeNow \in Nat /\ Home!Date(homeNow) \in Nat
    BY CatNow
  <1>2. \A d \in DOMAIN rankings : d \in DOMAIN shards /\ d \in Nat /\ LastOf(d) <= homeNow
    BY DEF CatShards
  <1>3. \A d \in DOMAIN rankings : d <= Home!Date(homeNow)
    BY <1>1, <1>2, DateBefore
  <1>4. Home!ReportDates \in SUBSET Nat /\ Home!ReportDates # {} /\ \A d \in Home!ReportDates : d <= Home!Date(homeNow)
    BY <1>2, <1>3 DEF Home!ReportDates, Home!Ready
  <1>5. \E d \in Home!ReportDates : \A e \in Home!ReportDates : d >= e
    BY <1>1, <1>4, GreatestExists
  <1>6. Home!ReportDate \in Home!ReportDates /\ \A e \in Home!ReportDates : Home!ReportDate >= e
    BY <1>5 DEF Home!ReportDate, Home!Max
  <1>7. QED
    BY <1>2, <1>3, <1>6 DEF Home!ReportDates

LEMMA CatTypeOK == CatInv => Home!TypeOK
  <1> SUFFICES ASSUME CatInv PROVE Home!TypeOK
    OBVIOUS
  <1>1. homeNow \in 0..HomeMaxNow /\ homeNow \in Nat /\ homeNow <= HomeMaxNow /\ HomeMaxNow \in Nat
    BY HomeLimits DEF CatInv, CatTypes
  <1>2. Home!Date(homeNow) <= Home!Date(HomeMaxNow) /\ Home!Date(homeNow) \in Nat /\ Home!Date(HomeMaxNow) \in Nat
    BY <1>1, LaterDates, HomeDates
  <1>3. \A v \in DOMAIN homeMaster :
           homeMaster[v].class \in Home!Classes /\ homeManifest[v].class \in Home!Classes /\ homeMaster[v].found = homeManifest[v].found
    BY DEF CatInv, CatTypes, MasterRows, ManifestRows
  <1>4. \A d \in DOMAIN shards : d \in Nat /\ d <= Home!Date(homeNow)
    BY <1>1, DateBefore DEF CatInv, CatShards
  <1>5. DOMAIN shards \subseteq Home!Days
    BY <1>2, <1>4 DEF Home!Days
  <1>6. \A d \in DOMAIN rankings : {row.v : row \in rankings[d]} = DOMAIN shards[d]
    BY DEF CatInv, CatShards
  <1>7. QED
    BY <1>1, <1>3, <1>5, <1>6 DEF CatInv, CatTypes, CatShards, Home!TypeOK

\* The views that reports show, a period apart or more, lie side by side under the curve.
LEMMA CatViews == CatInv => Home!NoViewsCountedTwice
  <1> SUFFICES ASSUME CatInv, NEW v \in HomeVideos, NEW p \in Periods,
                      NEW dates \in SUBSET {d \in DOMAIN rankings : v \in DOMAIN shards[d]}, Home!Apart(dates, p)
               PROVE  Home!Cardinality(Home!ShownViews(v, dates, p)) <= gained[v]
    BY DEF Home!NoViewsCountedTwice
  <1>1. PICK C \in [Int -> Nat] : Curve(v, C)
    BY DEF CatInv, CatCounts
  <1>2. p \in Nat \ {0} /\ gained[v] \in Nat /\ dates \subseteq Nat /\ dates \subseteq DOMAIN rankings
    BY HomeLimits DEF CatInv, CatTypes, CatShards
  <1>3. ASSUME NEW d \in dates PROVE Home!Shown(v, d, p) \in 0..(C[d] - C[d - p])
    <2>1. {row.v : row \in rankings[d]} = DOMAIN shards[d]
      BY <1>2 DEF CatInv, CatShards
    <2>2. \E row \in rankings[d] : row.v = v
      BY <2>1
    <2>3. PICK row : row = CHOOSE r \in rankings[d] : r.v = v
      OBVIOUS
    <2>4. row \in rankings[d] /\ row.v = v
      BY <2>2, <2>3
    <2>5. Home!Shown(v, d, p) = Home!ViewGrowth(row, p)
      BY <2>3 DEF Home!Shown
    <2>6. QED
      BY <1>1, <1>2, <2>4, <2>5 DEF Curve
  <1>4. \A d \in dates : C[d] \in Nat /\ C[d - p] \in Nat /\ C[d] <= gained[v]
    BY <1>1, <1>2 DEF Curve
  <1>5. \A d \in dates : Home!Shown(v, d, p) \in Nat /\ C[d] - Home!Shown(v, d, p) >= C[d - p] /\ C[d] - Home!Shown(v, d, p) \in Nat
    BY <1>3, <1>4
  <1>6. PICK shown : shown = Home!ShownViews(v, dates, p)
    OBVIOUS
  <1>7. \A x \in shown : /\ x[1] \in dates /\ x[2] \in 1..Home!Shown(v, x[1], p) /\ x = <<x[1], x[2]>>
    BY <1>6 DEF Home!ShownViews
  <1>8. PICK place : place = [x \in shown |-> C[x[1]] - Home!Shown(v, x[1], p) + x[2]]
    OBVIOUS
  <1>9. \A x \in shown : /\ place[x] \in 1..gained[v] /\ place[x] <= C[x[1]] /\ place[x] > C[x[1] - p]
                         /\ place[x] = C[x[1]] - Home!Shown(v, x[1], p) + x[2] /\ x[2] \in Nat
    <2>1. ASSUME NEW x \in shown PROVE
             /\ place[x] \in 1..gained[v] /\ place[x] <= C[x[1]] /\ place[x] > C[x[1] - p]
             /\ place[x] = C[x[1]] - Home!Shown(v, x[1], p) + x[2] /\ x[2] \in Nat
      <3>1. place[x] = C[x[1]] - Home!Shown(v, x[1], p) + x[2]
        BY <1>8
      <3>2. PICK d, n : d = x[1] /\ n = x[2]
        OBVIOUS
      <3>3. d \in dates /\ n \in 1..Home!Shown(v, d, p) /\ place[x] = C[d] - Home!Shown(v, d, p) + n
        BY <1>7, <3>1, <3>2
      <3>4. QED
        BY <1>2, <1>4, <1>5, <3>1, <3>2, <3>3
    <2>2. QED
      BY <2>1
  <1>10. ASSUME NEW x \in shown, NEW y \in shown, place[x] = place[y] PROVE x = y
    <2>1. ASSUME NEW s \in shown, NEW t \in shown, s[1] < t[1] PROVE place[s] # place[t]
      <3>1. s[1] \in dates /\ t[1] \in dates
        BY <1>7
      <3>2. t[1] - s[1] >= p
        <4>1. PICK d, e : d = s[1] /\ e = t[1]
          OBVIOUS
        <4>2. d \in dates /\ e \in dates /\ d < e
          BY <2>1, <3>1, <4>1
        <4>3. d \in Nat /\ e \in Nat
          BY <1>2, <4>2
        <4>4. d = e \/ d - e >= p \/ e - d >= p
          BY <4>2 DEF Home!Apart
        <4>5. e - d >= p
          BY <1>2, <4>2, <4>3, <4>4
        <4>6. QED
          BY <4>1, <4>5
      <3>3. s[1] \in Int /\ t[1] - p \in Int /\ s[1] <= t[1] - p
        <4>1. PICK d, e : d = s[1] /\ e = t[1]
          OBVIOUS
        <4>2. d \in Nat /\ e \in Nat /\ e - d >= p
          BY <1>2, <3>1, <3>2, <4>1
        <4>3. d \in Int /\ e - p \in Int /\ d <= e - p
          BY <1>2, <4>2
        <4>4. QED
          BY <4>1, <4>3
      <3>4. C[s[1]] <= C[t[1] - p] /\ C[s[1]] \in Nat /\ C[t[1] - p] \in Nat
        BY <1>1, <3>3 DEF Curve
      <3>5. place[s] <= C[s[1]] /\ place[t] > C[t[1] - p] /\ place[s] \in Int /\ place[t] \in Int
        BY <1>2, <1>9
      <3>6. QED
        BY <3>4, <3>5
    <2>2. x[1] \in Nat /\ y[1] \in Nat
      BY <1>2, <1>7
    <2>3. x[1] = y[1]
      BY <1>10, <2>1, <2>2
    <2>4. x[2] = y[2]
      <3>1. PICK base : base = C[x[1]] - Home!Shown(v, x[1], p)
        OBVIOUS
      <3>2. base \in Nat
        BY <1>5, <1>7, <3>1
      <3>3. place[x] = base + x[2] /\ place[y] = base + y[2] /\ x[2] \in Nat /\ y[2] \in Nat
        BY <1>9, <2>3, <3>1
      <3>4. PICK m, n : m = x[2] /\ n = y[2]
        OBVIOUS
      <3>5. base + m = base + n /\ m \in Nat /\ n \in Nat
        BY <1>10, <3>3, <3>4
      <3>6. m = n
        BY <3>2, <3>5
      <3>7. QED
        BY <3>4, <3>6
    <2>5. QED
      BY <1>7, <2>3, <2>4
  <1>11. place \in [shown -> 1..gained[v]]
    <2>1. DOMAIN place = shown /\ place = [x \in shown |-> place[x]]
      BY <1>8
    <2>2. QED
      BY <1>9, <2>1
  <1>12. place \in Injection(shown, 1..gained[v])
    BY <1>10, <1>11 DEF Injection, IsInjective
  <1>13. IsFiniteSet(1..gained[v]) /\ Cardinality(1..gained[v]) = gained[v]
    <2>1. PICK n : n = gained[v]
      OBVIOUS
    <2>2. n \in Nat
      BY <1>2, <2>1
    <2>3. IsFiniteSet(1..n) /\ Cardinality(1..n) = IF 1 > n THEN 0 ELSE n - 1 + 1
      BY <2>2, FS_Interval
    <2>4. IsFiniteSet(1..n) /\ Cardinality(1..n) = n
      BY <2>2, <2>3
    <2>5. QED
      BY <2>1, <2>4
  <1>14. Cardinality(shown) <= gained[v]
    BY <1>12, <1>13, FS_Injection
  <1>15. QED
    BY <1>6, <1>14, SameHomeSize

-----------------------------------------------------------------------------
(* The order of a ranking *)

Ordered(order, p) == \A i, j \in DOMAIN order : i < j => Home!RanksBefore(order[i], order[j], p)

\* What can be ranked: one row of each video, with counts to compare.
Comparable(S, p) ==
    IsFiniteSet(S) /\ \A x, y \in S : x.v \in Int /\ Home!Growth(x, p) \in Int /\ (x.v = y.v => x = y)

LEMMA RanksAreTotal ==
    ASSUME NEW S, NEW p, Comparable(S, p), NEW x \in S, NEW y \in S
    PROVE  /\ x = y \/ Home!RanksBefore(x, y, p) \/ Home!RanksBefore(y, x, p)
           /\ ~(Home!RanksBefore(x, y, p) /\ Home!RanksBefore(y, x, p))
           /\ ~Home!RanksBefore(x, x, p)
           /\ \A z \in S : Home!RanksBefore(x, y, p) /\ Home!RanksBefore(y, z, p) => Home!RanksBefore(x, z, p)
           /\ Home!RanksBefore(x, y, p) => Home!Growth(x, p) >= Home!Growth(y, p)
  <1>1. \A z \in S : z.v \in Int /\ Home!Growth(z, p) \in Int
    BY DEF Comparable
  <1>2. x.v = y.v => x = y
    BY DEF Comparable
  <1>3. QED
    BY <1>1, <1>2 DEF Home!RanksBefore

\* Rows that can be compared can be put in order.
LEMMA RanksExist ==
    ASSUME NEW S, NEW p, Comparable(S, p)
    PROVE  \E order \in [1..Cardinality(S) -> S] : Ordered(order, p)
  <1> DEFINE n == Cardinality(S)
             Ahead(x) == {y \in S : Home!RanksBefore(y, x, p)}
             place == [x \in S |-> Cardinality(Ahead(x)) + 1]
  <1>1. IsFiniteSet(S) /\ n \in Nat
    BY FS_CardinalityType DEF Comparable
  <1>2. ASSUME NEW x \in S PROVE IsFiniteSet(Ahead(x)) /\ Cardinality(Ahead(x)) \in Nat /\ Cardinality(Ahead(x)) + 1 <= n
    <2>1. Ahead(x) \in SUBSET (S \ {x})
      BY RanksAreTotal
    <2>2. IsFiniteSet(S \ {x}) /\ Cardinality(S \ {x}) = n - 1
      BY <1>1, FS_RemoveElement
    <2> HIDE DEF Ahead, n
    <2>3. IsFiniteSet(Ahead(x)) /\ Cardinality(Ahead(x)) <= Cardinality(S \ {x})
      BY <2>1, <2>2, FS_Subset
    <2>4. Cardinality(Ahead(x)) \in Nat
      BY <2>3, FS_CardinalityType
    <2>5. QED
      BY <1>1, <2>2, <2>3, <2>4
  <1>3. ASSUME NEW x \in S, NEW y \in S, Home!RanksBefore(x, y, p) PROVE place[x] < place[y]
    <2>1. Ahead(x) \in SUBSET (Ahead(y) \ {x}) /\ x \in Ahead(y)
      BY <1>3, RanksAreTotal
    <2>2. IsFiniteSet(Ahead(y)) /\ Cardinality(Ahead(y)) \in Nat /\ Cardinality(Ahead(x)) \in Nat
      BY <1>2
    <2> HIDE DEF Ahead
    <2>3. IsFiniteSet(Ahead(y) \ {x}) /\ Cardinality(Ahead(y) \ {x}) = Cardinality(Ahead(y)) - 1
      BY <2>1, <2>2, FS_RemoveElement
    <2>4. Cardinality(Ahead(x)) <= Cardinality(Ahead(y)) - 1
      BY <2>1, <2>3, FS_Subset
    <2>5. QED
      BY <2>2, <2>4
  <1>4. \A x \in S : place[x] \in 1..n
    <2> HIDE DEF Ahead, n
    <2>1. QED
      BY <1>1, <1>2
  <1>5. place \in [S -> 1..n]
    <2> HIDE DEF n
    <2>1. QED
      BY <1>4
  <1>6. \A x, y \in S : place[x] = place[y] => x = y
    <2> HIDE DEF place, n
    <2>1. SUFFICES ASSUME NEW x \in S, NEW y \in S, place[x] = place[y], x # y PROVE FALSE
      OBVIOUS
    <2>2. place[x] < place[y] \/ place[y] < place[x]
      BY <1>3, <2>1, RanksAreTotal
    <2>3. place[x] \in Int /\ place[y] \in Int
      BY <1>1, <1>4
    <2>4. QED
      BY <2>1, <2>2, <2>3
  <1> HIDE DEF place
  <1>7. \A i \in 1..n : \E x \in S : place[x] = i
    <2> HIDE DEF n
    <2>1. place \in Injection(S, 1..n)
      BY <1>5, <1>6 DEF Injection, IsInjective
    <2>2. IsFiniteSet(1..n) /\ Cardinality(1..n) = n
      BY <1>1, FS_Interval
    <2>3. Cardinality(S) = Cardinality(1..n)
      BY <2>2 DEF n
    <2>4. place \in Surjection(S, 1..n)
      BY <2>1, <2>2, <2>3, FS_Injection
    <2>5. QED
      BY <2>4 DEF Surjection
  <1> DEFINE order == [i \in 1..n |-> CHOOSE x \in S : place[x] = i]
  <1> HIDE DEF n
  <1>8. \A i \in 1..n : order[i] \in S /\ place[order[i]] = i
    BY <1>7
  <1>9. order \in [1..n -> S] /\ DOMAIN order = 1..n
    BY <1>8
  <1> HIDE DEF order
  <1>10. \A i, j \in 1..n : i < j => Home!RanksBefore(order[i], order[j], p)
    <2>1. SUFFICES ASSUME NEW i \in 1..n, NEW j \in 1..n, i < j PROVE Home!RanksBefore(order[i], order[j], p)
      OBVIOUS
    <2>2. order[i] # order[j]
      BY <1>1, <1>8, <2>1
    <2>3. ~Home!RanksBefore(order[j], order[i], p)
      <3>1. SUFFICES ASSUME Home!RanksBefore(order[j], order[i], p) PROVE FALSE
        OBVIOUS
      <3>2. place[order[j]] < place[order[i]]
        BY <1>3, <1>8, <3>1
      <3>3. QED
        BY <1>1, <1>8, <2>1, <3>2
    <2>4. QED
      BY <1>8, <2>2, <2>3, RanksAreTotal
  <1>11. QED
    BY <1>9, <1>10 DEF Ordered, n

\* An order has each row in one place.
LEMMA RanksHaveAPlace ==
    ASSUME NEW S, NEW p, Comparable(S, p), NEW order \in [1..Cardinality(S) -> S], Ordered(order, p)
    PROVE  /\ Cardinality(S) \in Nat
           /\ \A i, j \in DOMAIN order : order[i] = order[j] => i = j
           /\ \A x \in S : \E i \in DOMAIN order : order[i] = x
  <1> DEFINE n == Cardinality(S)
  <1>1. n \in Nat
    BY FS_CardinalityType DEF Comparable
  <1>2. IsFiniteSet(1..n) /\ Cardinality(1..n) = n
    BY <1>1, FS_Interval
  <1>3. DOMAIN order = 1..n /\ \A i \in 1..n : order[i] \in S
    OBVIOUS
  <1> HIDE DEF n
  <1>4. ASSUME NEW i \in 1..n, NEW j \in 1..n, order[i] = order[j] PROVE i = j
    <2>1. \A k, l \in 1..n : k < l => Home!RanksBefore(order[k], order[l], p)
      BY <1>3 DEF Ordered
    <2>2. ~Home!RanksBefore(order[i], order[j], p) /\ ~Home!RanksBefore(order[j], order[i], p)
      BY <1>3, <1>4, RanksAreTotal
    <2>3. ~(i < j) /\ ~(j < i)
      BY <2>1, <2>2
    <2>4. QED
      BY <1>1, <2>3
  <1>5. order \in Injection(1..n, S)
    BY <1>3, <1>4 DEF Injection, IsInjective, n
  <1>6. order \in Surjection(1..n, S)
    <2>1. Cardinality(S) = n /\ IsFiniteSet(S)
      BY DEF n, Comparable
    <2>2. QED
      BY <1>2, <1>5, <2>1, FS_Injection
  <1>7. QED
    BY <1>1, <1>3, <1>4, <1>6 DEF Surjection, n

LEMMA RankVideoRowsIs ==
    ASSUME NEW rows, NEW p, NEW scope, Comparable(Home!Rankable(rows, p, scope), p)
    PROVE  /\ Home!RankVideoRows(rows, p, scope) \in
                 [1..Cardinality(Home!Rankable(rows, p, scope)) -> Home!Rankable(rows, p, scope)]
           /\ Ordered(Home!RankVideoRows(rows, p, scope), p)
  <1> DEFINE S == Home!Rankable(rows, p, scope)
             InOrder(order) == \A i, j \in DOMAIN order : i < j => Home!RanksBefore(order[i], order[j], p)
  <1>1. Home!RankVideoRows(rows, p, scope) = CHOOSE order \in [1..Home!Cardinality(S) -> S] : InOrder(order)
    BY DEF Home!RankVideoRows
  <1>2. \A order : InOrder(order) <=> Ordered(order, p)
    BY DEF Ordered
  <1>3. Home!Cardinality(S) = Cardinality(S)
    BY SameHomeSize
  <1>4. \E order \in [1..Cardinality(S) -> S] : Ordered(order, p)
    BY RanksExist
  <1> HIDE DEF S, InOrder
  <1>5. QED
    BY <1>1, <1>2, <1>3, <1>4 DEF S

\* A filter takes rows out of a ranking and leaves the order of the others.
LEMMA FiltersKeepOrder == Home!FilterKeepsOrder
  <1> SUFFICES ASSUME NEW f \in [RankedVideos -> Home!RankableRows], NEW p \in Periods
               PROVE  LET rows == {[v |-> v, class |-> f[v].class, views |-> f[v].views, anchors |-> f[v].anchors] : v \in RankedVideos}
                          order == Home!RankVideoRows(rows, p, "all")
                          filtered == Home!RankVideoRows(rows, p, "archived")
                          Places(row) == {i \in DOMAIN order : order[i] = row}
                      IN /\ \A row \in rows : Home!Cardinality(Places(row)) = IF row.anchors[p] = Home!None THEN 0 ELSE 1
                         /\ \A i, j \in DOMAIN order : i < j => Home!Growth(order[i], p) >= Home!Growth(order[j], p)
                         /\ {filtered[i] : i \in DOMAIN filtered} =
                               {row \in {order[i] : i \in DOMAIN order} : Home!RowMatchesLiveStatus(row, "archived")}
                         /\ \A i, j \in DOMAIN filtered : i < j => \A k \in Places(filtered[i]), l \in Places(filtered[j]) : k < l
    BY DEF Home!FilterKeepsOrder
  <1> DEFINE Rows == {[v |-> v, class |-> f[v].class, views |-> f[v].views, anchors |-> f[v].anchors] : v \in RankedVideos}
             order == Home!RankVideoRows(Rows, p, "all")
             filtered == Home!RankVideoRows(Rows, p, "archived")
             Places(row) == {i \in DOMAIN order : order[i] = row}
             S == Home!Rankable(Rows, p, "all")
             T == Home!Rankable(Rows, p, "archived")
  <1>1. IsFiniteSet(RankedVideos) /\ RankedVideos \subseteq Int /\ ViewCounts \subseteq Nat
    BY HomeLimits
  <1>2. \A v \in RankedVideos : f[v].views \in Nat /\ f[v].anchors[p] \in Nat \cup {-1}
    <2>1. ASSUME NEW x \in Home!RankableRows PROVE x.views \in Nat /\ x.anchors[p] \in Nat \cup {-1}
      <3>1. x.views \in ViewCounts /\ x.anchors \in [Periods -> ViewCounts \cup {-1}]
        BY DEF Home!RankableRows, Home!None
      <3>2. x.anchors[p] \in ViewCounts \cup {-1}
        BY <3>1
      <3>3. QED
        BY <1>1, <3>1, <3>2
    <2>2. QED
      BY <2>1
  <1>3. /\ \A x \in Rows : /\ x.v \in RankedVideos
                           /\ x = [v |-> x.v, class |-> f[x.v].class, views |-> f[x.v].views, anchors |-> f[x.v].anchors]
        /\ \A x, y \in Rows : x.v = y.v => x = y
    OBVIOUS
  <1>4. IsFiniteSet(Rows)
    <2>1. PICK g : g = [x \in Rows |-> x.v]
      OBVIOUS
    <2>2. g \in [Rows -> RankedVideos] /\ \A x, y \in Rows : g[x] = g[y] => x = y
      <3> HIDE DEF Rows
      <3>1. QED
        BY <1>3, <2>1
    <2> HIDE DEF Rows
    <2>3. g \in Injection(Rows, RankedVideos)
      BY <2>2 DEF Injection, IsInjective
    <2>4. QED
      BY <1>1, <2>3, FS_Injection
  <1>5. \A x \in Rows : x.v \in Int /\ x.views \in Nat /\ x.anchors[p] \in Nat \cup {-1}
    BY <1>1, <1>2
  <1> HIDE DEF Rows
  <1>6. S \subseteq Rows /\ T \subseteq Rows /\ T = {x \in S : Home!RowMatchesLiveStatus(x, "archived")}
        /\ \A x \in Rows : x \in S <=> x.anchors[p] # -1
    BY DEF Home!Rankable, Home!RowMatchesLiveStatus, Home!None
  <1> HIDE DEF S, T
  <1>7. Comparable(S, p) /\ Comparable(T, p)
    <2>1. ASSUME NEW U \in SUBSET Rows PROVE Comparable(U, p)
      <3>1. IsFiniteSet(U)
        BY <1>4, FS_Subset
      <3>2. \A x \in U : Home!Growth(x, p) \in Int
        BY <1>5 DEF Home!Growth
      <3>3. QED
        BY <1>3, <1>5, <3>1, <3>2 DEF Comparable
    <2>2. QED
      BY <1>6, <2>1
  <1>8. order \in [1..Cardinality(S) -> S] /\ Ordered(order, p)
    BY <1>7, RankVideoRowsIs DEF S
  <1>9. filtered \in [1..Cardinality(T) -> T] /\ Ordered(filtered, p)
    BY <1>7, RankVideoRowsIs DEF T
  <1> HIDE DEF order, filtered
  <1>10. /\ Cardinality(S) \in Nat /\ DOMAIN order = 1..Cardinality(S)
         /\ \A i \in DOMAIN order : order[i] \in S
         /\ \A i, j \in DOMAIN order : order[i] = order[j] => i = j
         /\ \A x \in S : \E i \in DOMAIN order : order[i] = x
    BY <1>7, <1>8, RanksHaveAPlace
  <1>11. /\ Cardinality(T) \in Nat /\ DOMAIN filtered = 1..Cardinality(T)
         /\ \A i \in DOMAIN filtered : filtered[i] \in T
         /\ \A x \in T : \E i \in DOMAIN filtered : filtered[i] = x
    BY <1>7, <1>9, RanksHaveAPlace
  <1>12. ASSUME NEW row \in Rows PROVE Home!Cardinality(Places(row)) = IF row.anchors[p] = Home!None THEN 0 ELSE 1
    <2>1. CASE row \in S
      <3>1. PICK i \in DOMAIN order : order[i] = row
        BY <1>10, <2>1
      <3>2. Places(row) = {i}
        BY <1>10, <3>1
      <3>3. Cardinality({i}) = 1
        BY FS_Singleton
      <3>4. row.anchors[p] # -1
        BY <1>6, <2>1
      <3>5. QED
        BY <3>2, <3>3, <3>4, SameHomeSize DEF Home!None
    <2>2. CASE row \notin S
      <3>1. Places(row) = {}
        BY <1>10, <2>2
      <3>2. Cardinality({}) = 0
        BY FS_EmptySet
      <3>3. row.anchors[p] = -1
        BY <1>6, <2>2
      <3>4. QED
        BY <3>1, <3>2, <3>3, SameHomeSize DEF Home!None
    <2>3. QED
      BY <2>1, <2>2
  <1>13. \A i, j \in DOMAIN order : i < j => Home!Growth(order[i], p) >= Home!Growth(order[j], p)
    BY <1>7, <1>8, <1>10, RanksAreTotal DEF Ordered
  <1>14. {filtered[i] : i \in DOMAIN filtered} = T /\ {order[i] : i \in DOMAIN order} = S
    BY <1>10, <1>11
  <1>15. ASSUME NEW i \in DOMAIN filtered, NEW j \in DOMAIN filtered, i < j, NEW k \in Places(filtered[i]), NEW l \in Places(filtered[j])
         PROVE  k < l
    <2>1. k \in DOMAIN order /\ l \in DOMAIN order /\ order[k] = filtered[i] /\ order[l] = filtered[j]
      OBVIOUS
    <2>2. Home!RanksBefore(order[k], order[l], p)
      BY <1>9, <1>15, <2>1 DEF Ordered
    <2>3. order[k] \in S /\ order[l] \in S
      BY <1>10, <2>1
    <2>4. k # l /\ ~(l < k)
      BY <1>7, <1>8, <2>1, <2>2, <2>3, RanksAreTotal DEF Ordered
    <2>5. k \in Int /\ l \in Int
      BY <1>10, <2>1
    <2>6. QED
      BY <2>4, <2>5
  <1> HIDE DEF Places
  <1>16. QED
    BY <1>6, <1>12, <1>13, <1>14, <1>15 DEF Rows, order, filtered, Places

-----------------------------------------------------------------------------
(* The rows of the list *)

ReportDay == Home!ReportDate
ListRow(v, class, found, archived, provisional, told) ==
    [v |-> v, class |-> class, found |-> found, archived |-> archived, provisional |-> provisional, announced |-> told]
ArchivedAt(v) == IF v \in DOMAIN archives /\ Home!Premiere(v) THEN archives[v] ELSE -1
OverClass(v) == IF Home!Premiere(v) THEN "upload" ELSE "completed"
OverClasses == {"completed", "upload", "short"}

\* Where a row comes from: the ranking, the lifecycle's record, or a discovery event.
FromRanking(row) == \E x \in rankings[ReportDay] : \E class, provisional :
    /\ row = ListRow(x.v, class, x.found, ArchivedAt(x.v), provisional, FALSE)
    /\ \/ class = x.class /\ (x.v \in DOMAIN archives => x.class \in OverClasses)
       \/ x.v \in DOMAIN archives /\ class = OverClass(x.v)
FromLifecycle(row) == \E v \in DOMAIN archives \ DOMAIN shards[ReportDay] : \E provisional :
    row = ListRow(v, OverClass(v), IF v \in DOMAIN homeMaster THEN homeMaster[v].found ELSE -1, ArchivedAt(v), provisional, FALSE)
FromDiscovery(row) == \E e \in homeEvents :
    /\ e.v \notin DOMAIN shards[ReportDay] /\ e.v \notin DOMAIN archives /\ e.date >= ReportDay
    /\ row = ListRow(e.v, IF e.v \in DOMAIN homeMaster THEN homeMaster[e.v].class ELSE "none",
                     IF e.v \in DOMAIN homeMaster THEN homeMaster[e.v].found ELSE e.found, -1, TRUE, e.announced)

Completed == Home!WithVerifiedCompletedStreams(Home!PersistedRows(ReportDay))
WithDiscovered == Home!WithProvisionalDiscoveries(Completed, ReportDay)

LEMMA PersistedIs ==
    ASSUME CatInv, Home!Ready
    PROVE  /\ Home!Listed(Home!PersistedRows(ReportDay)) = DOMAIN shards[ReportDay]
           /\ \A r, s \in Home!PersistedRows(ReportDay) : r.v = s.v => r = s
           /\ \A r \in Home!PersistedRows(ReportDay) :
                \E x \in rankings[ReportDay] : r = ListRow(x.v, x.class, x.found, -1, FALSE, FALSE)
  <1>1. ReportDay \in DOMAIN rankings
    BY ReportDateIs DEF CatInv, ReportDay
  <1>2. /\ {row.v : row \in rankings[ReportDay]} = DOMAIN shards[ReportDay]
        /\ \A x, y \in rankings[ReportDay] : x.v = y.v => x = y
    BY <1>1 DEF CatInv, CatShards
  <1>3. Home!PersistedRows(ReportDay) = {ListRow(x.v, x.class, x.found, -1, FALSE, FALSE) : x \in rankings[ReportDay]}
    BY DEF Home!PersistedRows, Home!Row, ListRow, Home!None
  <1>4. \A x : ListRow(x.v, x.class, x.found, -1, FALSE, FALSE).v = x.v
    BY DEF ListRow
  <1> DEFINE Shape(x) == ListRow(x.v, x.class, x.found, -1, FALSE, FALSE)
  <1> HIDE DEF Shape
  <1>5. Home!PersistedRows(ReportDay) = {Shape(x) : x \in rankings[ReportDay]} /\ \A x : Shape(x).v = x.v
    BY <1>3, <1>4 DEF Shape
  <1>6. Home!Listed(Home!PersistedRows(ReportDay)) = {row.v : row \in rankings[ReportDay]}
    BY <1>5 DEF Home!Listed
  <1>7. \A r, s \in Home!PersistedRows(ReportDay) : r.v = s.v => r = s
    BY <1>2, <1>5
  <1>8. QED
    BY <1>2, <1>3, <1>6, <1>7

LEMMA OverlaidIs ==
    ASSUME CatInv, Home!Ready, NEW r \in Home!PersistedRows(ReportDay)
    PROVE  FromRanking(Home!Overlaid(r)) /\ Home!Overlaid(r).v = r.v
  <1>1. PICK x \in rankings[ReportDay] : r = ListRow(x.v, x.class, x.found, -1, FALSE, FALSE)
    BY PersistedIs
  <1>2. r = [v |-> x.v, class |-> x.class, found |-> x.found, archived |-> -1, provisional |-> FALSE, announced |-> FALSE]
    BY <1>1 DEF ListRow
  <1>3. r.v = x.v /\ r.class = x.class
    BY <1>2
  <1>4. CASE x.v \notin DOMAIN archives
    <2>1. Home!Overlaid(r) = r
      BY <1>3, <1>4 DEF Home!Overlaid
    <2>2. ArchivedAt(x.v) = -1
      BY <1>4 DEF ArchivedAt
    <2>3. Home!Overlaid(r) = ListRow(x.v, x.class, x.found, ArchivedAt(x.v), FALSE, FALSE)
      BY <1>1, <2>1, <2>2
    <2>4. FromRanking(Home!Overlaid(r))
      BY <1>4, <2>3, Zenon DEF FromRanking
    <2>5. QED
      BY <1>3, <2>1, <2>4
  <1>5. CASE x.v \in DOMAIN archives /\ x.class \in OverClasses
    <2>1. Home!Overlaid(r) = [r EXCEPT !.archived = ArchivedAt(x.v)]
      BY <1>2, <1>5 DEF Home!Overlaid, OverClasses, ArchivedAt, Home!AvailableAt, Home!None
    <2>2. Home!Overlaid(r) = ListRow(x.v, x.class, x.found, ArchivedAt(x.v), FALSE, FALSE)
      BY <1>2, <2>1 DEF ListRow
    <2>3. FromRanking(Home!Overlaid(r))
      BY <1>5, <2>2, Zenon DEF FromRanking
    <2>4. Home!Overlaid(r).v = x.v
      BY <2>2 DEF ListRow
    <2>5. QED
      BY <1>3, <2>3, <2>4
  <1>6. CASE x.v \in DOMAIN archives /\ x.class \notin OverClasses
    <2>1. Home!Overlaid(r) = [r EXCEPT !.class = OverClass(x.v), !.provisional = TRUE, !.archived = ArchivedAt(x.v)]
      BY <1>2, <1>6 DEF Home!Overlaid, OverClasses, OverClass, ArchivedAt, Home!AvailableAt, Home!None
    <2>2. Home!Overlaid(r) = ListRow(x.v, OverClass(x.v), x.found, ArchivedAt(x.v), TRUE, FALSE)
      BY <1>2, <2>1 DEF ListRow
    <2>3. FromRanking(Home!Overlaid(r))
      BY <1>6, <2>2, Zenon DEF FromRanking
    <2>4. Home!Overlaid(r).v = x.v
      BY <2>2 DEF ListRow
    <2>5. QED
      BY <1>3, <2>3, <2>4
  <1>7. QED
    BY <1>4, <1>5, <1>6

LEMMA CompletedIs ==
    ASSUME CatInv, Home!Ready
    PROVE  /\ Home!Listed(Completed) = DOMAIN shards[ReportDay] \cup DOMAIN archives
           /\ \A r, s \in Completed : r.v = s.v => r = s
           /\ \A r \in Completed : FromRanking(r) \/ FromLifecycle(r)
  <1> DEFINE P == Home!PersistedRows(ReportDay)
  <1>1. Home!Listed(P) = DOMAIN shards[ReportDay] /\ \A r, s \in P : r.v = s.v => r = s
    BY PersistedIs
  <1>2. \A r \in P : FromRanking(Home!Overlaid(r)) /\ Home!Overlaid(r).v = r.v
    BY OverlaidIs
  <1>3. Completed = {Home!Overlaid(r) : r \in P} \cup {Home!AddedRow(v) : v \in DOMAIN archives \ DOMAIN shards[ReportDay]}
    BY <1>1 DEF Completed, Home!WithVerifiedCompletedStreams
  <1>4. ASSUME NEW v \in DOMAIN archives \ DOMAIN shards[ReportDay]
        PROVE  Home!AddedRow(v).v = v /\ FromLifecycle(Home!AddedRow(v))
    <2>1. PICK found : found = IF v \in DOMAIN homeMaster THEN homeMaster[v].found ELSE -1
      OBVIOUS
    <2>2. Home!AddedRow(v) = [Home!Row(v, OverClass(v), found) EXCEPT !.provisional = TRUE, !.archived = ArchivedAt(v)]
      BY <2>1 DEF Home!AddedRow, OverClass, ArchivedAt, Home!AvailableAt, Home!None
    <2>3. Home!AddedRow(v) = ListRow(v, OverClass(v), found, ArchivedAt(v), TRUE, FALSE)
      BY <2>2 DEF Home!Row, ListRow
    <2>4. FromLifecycle(Home!AddedRow(v))
      BY <1>4, <2>1, <2>3 DEF FromLifecycle
    <2>5. Home!AddedRow(v).v = v
      BY <2>3 DEF ListRow
    <2>6. QED
      BY <2>4, <2>5
  <1>5. \A r \in P : r.v \in DOMAIN shards[ReportDay]
    BY <1>1 DEF Home!Listed
  <1>6. \A v \in DOMAIN shards[ReportDay] : \E r \in P : r.v = v
    BY <1>1 DEF Home!Listed
  <1> HIDE DEF P
  <1>7. Home!Listed(Completed) = DOMAIN shards[ReportDay] \cup DOMAIN archives
    <2>1. \A r \in Completed : r.v \in DOMAIN shards[ReportDay] \cup DOMAIN archives
      BY <1>2, <1>3, <1>4, <1>5
    <2>2. ASSUME NEW v \in DOMAIN shards[ReportDay] \cup DOMAIN archives PROVE \E r \in Completed : r.v = v
      <3>1. CASE v \in DOMAIN shards[ReportDay]
        <4>1. PICK r \in P : r.v = v
          BY <1>6, <3>1
        <4>2. QED
          BY <1>2, <1>3, <4>1
      <3>2. CASE v \notin DOMAIN shards[ReportDay]
        BY <1>3, <1>4, <2>2, <3>2
      <3>3. QED
        BY <3>1, <3>2
    <2>3. QED
      BY <2>1, <2>2 DEF Home!Listed
  <1>8. \A r, s \in Completed : r.v = s.v => r = s
    BY <1>1, <1>2, <1>3, <1>4, <1>5
  <1>9. \A r \in Completed : FromRanking(r) \/ FromLifecycle(r)
    BY <1>2, <1>3, <1>4
  <1>10. QED
    BY <1>7, <1>8, <1>9

LEMMA ExtendedIs ==
    ASSUME CatInv, Home!Ready
    PROVE  /\ \A r, s \in WithDiscovered : r.v = s.v => r = s
           /\ \A r \in WithDiscovered : FromRanking(r) \/ FromLifecycle(r) \/ FromDiscovery(r)
  <1> DEFINE New == {f \in homeEvents : f.date \in Home!EventDates(ReportDay) /\ f.v \notin Home!Listed(Completed)}
  <1>1. Home!Listed(Completed) = DOMAIN shards[ReportDay] \cup DOMAIN archives
    BY CompletedIs
  <1>2. WithDiscovered = Completed \cup {Home!ProvisionalRow(e) : e \in New}
    BY DEF WithDiscovered, Home!WithProvisionalDiscoveries
  <1>3. ReportDay \in Nat /\ Home!Date(homeNow) \in Nat
    BY ReportDateIs, CatNow DEF CatInv, ReportDay
  <1>4. \A e \in New : e \in homeEvents /\ e.v \notin Home!Listed(Completed) /\ e.date >= ReportDay
    BY <1>3 DEF Home!EventDates
  <1> HIDE DEF New
  <1>5. ASSUME NEW e \in New PROVE Home!ProvisionalRow(e).v = e.v /\ FromDiscovery(Home!ProvisionalRow(e))
    <2>1. PICK class, found : /\ class = IF e.v \in DOMAIN homeMaster THEN homeMaster[e.v].class ELSE "none"
                              /\ found = IF e.v \in DOMAIN homeMaster THEN homeMaster[e.v].found ELSE e.found
      OBVIOUS
    <2>2. Home!ProvisionalRow(e) = [Home!Row(e.v, class, found) EXCEPT !.provisional = TRUE, !.announced = e.announced]
      BY <2>1 DEF Home!ProvisionalRow
    <2>3. Home!ProvisionalRow(e) = ListRow(e.v, class, found, -1, TRUE, e.announced)
      BY <2>2 DEF Home!Row, ListRow, Home!None
    <2>4. e \in homeEvents /\ e.v \notin DOMAIN shards[ReportDay] /\ e.v \notin DOMAIN archives /\ e.date >= ReportDay
      BY <1>1, <1>4
    <2>5. FromDiscovery(Home!ProvisionalRow(e))
      BY <2>1, <2>3, <2>4 DEF FromDiscovery
    <2>6. QED
      BY <2>3, <2>5 DEF ListRow
  <1>6. \A r \in Completed : r.v \in Home!Listed(Completed)
    BY DEF Home!Listed
  <1>7. \A e, f \in New : e.v = f.v => e = f
    BY <1>4 DEF CatInv, CatEvents
  <1>8. \A r, s \in WithDiscovered : r.v = s.v => r = s
    BY <1>2, <1>4, <1>5, <1>6, <1>7, CompletedIs
  <1>9. QED
    BY <1>2, <1>5, <1>8, CompletedIs

\* The time of a Premiere's archive, once it is known.
Arch(v) == IF ArchivedAt(v) # -1 THEN ArchivedAt(v) ELSE IF v \in DOMAIN archiveTimes THEN archiveTimes[v] ELSE -1
Timed(row) == IF row.v \in DOMAIN archiveTimes /\ row.archived = -1 THEN [row EXCEPT !.archived = archiveTimes[row.v]] ELSE row

\* A row of the list is a row of the ranking, of the lifecycle or of a discovery, and has
\* the time of its archive.
RowIs(row) ==
    /\ row.archived = Arch(row.v)
    /\ \/ \E x \in rankings[ReportDay] : /\ row.v = x.v /\ row.found = x.found /\ ~row.announced
                                 /\ \/ row.class = x.class /\ (x.v \in DOMAIN archives => x.class \in OverClasses)
                                    \/ x.v \in DOMAIN archives /\ row.class = OverClass(x.v)
       \/ /\ row.v \in DOMAIN archives \ DOMAIN shards[ReportDay] /\ row.class = OverClass(row.v) /\ ~row.announced
          /\ row.found = IF row.v \in DOMAIN homeMaster THEN homeMaster[row.v].found ELSE -1
       \/ /\ row.v \notin DOMAIN shards[ReportDay] /\ row.v \notin DOMAIN archives /\ row.provisional
          /\ \E e \in homeEvents : e.v = row.v /\ e.date >= ReportDay /\ row.announced = e.announced
          /\ row.class = IF row.v \in DOMAIN homeMaster THEN homeMaster[row.v].class ELSE "none"
          /\ row.v \in DOMAIN homeMaster => row.found = homeMaster[row.v].found

LEMMA TimedIs ==
    ASSUME CatInv, Home!Ready, NEW r, FromRanking(r) \/ FromLifecycle(r) \/ FromDiscovery(r)
    PROVE  RowIs(Timed(r)) /\ Timed(r).v = r.v
  <1>1. PICK v, class, found, provisional, told : r = ListRow(v, class, found, ArchivedAt(v), provisional, told)
    BY DEF FromRanking, FromLifecycle, FromDiscovery, ArchivedAt
  <1>2. r = [v |-> v, class |-> class, found |-> found, archived |-> ArchivedAt(v), provisional |-> provisional, announced |-> told]
    BY <1>1 DEF ListRow
  <1>3. /\ Timed(r).v = v /\ Timed(r).class = class /\ Timed(r).found = found /\ Timed(r).archived = Arch(v)
        /\ Timed(r).provisional = provisional /\ Timed(r).announced = told
    <2>1. CASE v \in DOMAIN archiveTimes /\ ArchivedAt(v) = -1
      <3>1. Timed(r) = [r EXCEPT !.archived = archiveTimes[v]]
        BY <1>2, <2>1 DEF Timed
      <3>2. Arch(v) = archiveTimes[v]
        BY <2>1 DEF Arch
      <3>3. QED
        BY <1>2, <3>1, <3>2
    <2>2. CASE ~(v \in DOMAIN archiveTimes /\ ArchivedAt(v) = -1)
      <3>1. Timed(r) = r
        BY <1>2, <2>2 DEF Timed
      <3>2. Arch(v) = ArchivedAt(v)
        BY <2>2 DEF Arch
      <3>3. QED
        BY <1>2, <3>1, <3>2
    <2>3. QED
      BY <2>1, <2>2
  <1>4. r.v = v /\ r.class = class /\ r.found = found /\ r.provisional = provisional /\ r.announced = told
    BY <1>2
  <1>5. ASSUME NEW x \in rankings[ReportDay], NEW c, NEW q, r = ListRow(x.v, c, x.found, ArchivedAt(x.v), q, FALSE)
        PROVE  v = x.v /\ class = c /\ found = x.found /\ told = FALSE
    BY <1>4, <1>5 DEF ListRow
  <1>6. CASE FromRanking(r)
    <2>1. \E x \in rankings[ReportDay] : /\ v = x.v /\ found = x.found /\ told = FALSE
                                 /\ \/ class = x.class /\ (x.v \in DOMAIN archives => x.class \in OverClasses)
                                    \/ x.v \in DOMAIN archives /\ class = OverClass(x.v)
      BY <1>5, <1>6 DEF FromRanking
    <2>2. QED
      BY <1>3, <1>4, <2>1 DEF RowIs
  <1>7. CASE FromLifecycle(r)
    <2>1. PICK w \in DOMAIN archives \ DOMAIN shards[ReportDay] : \E q :
             r = ListRow(w, OverClass(w), IF w \in DOMAIN homeMaster THEN homeMaster[w].found ELSE -1, ArchivedAt(w), q, FALSE)
      BY <1>7 DEF FromLifecycle
    <2>2. w = v /\ class = OverClass(v) /\ told = FALSE /\ found = IF v \in DOMAIN homeMaster THEN homeMaster[v].found ELSE -1
      <3>1. PICK q : r = ListRow(w, OverClass(w), IF w \in DOMAIN homeMaster THEN homeMaster[w].found ELSE -1, ArchivedAt(w), q, FALSE)
        BY <2>1
      <3>2. PICK f : f = IF w \in DOMAIN homeMaster THEN homeMaster[w].found ELSE -1
        OBVIOUS
      <3>3. r = ListRow(w, OverClass(w), f, ArchivedAt(w), q, FALSE)
        BY <3>1, <3>2
      <3>4. w = v /\ class = OverClass(w) /\ told = FALSE /\ found = f
        BY <1>4, <3>3 DEF ListRow
      <3>5. QED
        BY <3>2, <3>4
    <2>3. QED
      BY <1>3, <1>4, <2>1, <2>2 DEF RowIs
  <1>8. CASE FromDiscovery(r)
    <2>1. PICK e \in homeEvents :
            /\ e.v \notin DOMAIN shards[ReportDay] /\ e.v \notin DOMAIN archives /\ e.date >= ReportDay
            /\ r = ListRow(e.v, IF e.v \in DOMAIN homeMaster THEN homeMaster[e.v].class ELSE "none",
                           IF e.v \in DOMAIN homeMaster THEN homeMaster[e.v].found ELSE e.found, -1, TRUE, e.announced)
      BY <1>8 DEF FromDiscovery
    <2>2. /\ e.v = v /\ told = e.announced /\ provisional = TRUE
          /\ class = IF v \in DOMAIN homeMaster THEN homeMaster[v].class ELSE "none"
          /\ v \in DOMAIN homeMaster => found = homeMaster[v].found
      BY <1>4, <2>1 DEF ListRow
    <2>3. QED
      BY <1>3, <1>4, <2>1, <2>2 DEF RowIs
  <1>9. QED
    BY <1>3, <1>4, <1>6, <1>7, <1>8

LEMMA ListIs ==
    ASSUME CatInv, Home!Ready
    PROVE  /\ \A r, s \in Home!RecentCreatorVideos : r.v = s.v => r = s
           /\ \A r \in Home!RecentCreatorVideos : RowIs(r)
  <1>1. Home!RecentCreatorVideos = {Timed(row) : row \in WithDiscovered}
    BY DEF Home!RecentCreatorVideos, Home!WithDurablePremiereArchiveTimes, Timed, WithDiscovered, Completed, ReportDay, Home!None
  <1>2. \A r \in WithDiscovered : RowIs(Timed(r)) /\ Timed(r).v = r.v
    BY ExtendedIs, TimedIs
  <1>3. \A r, s \in WithDiscovered : r.v = s.v => r = s
    BY ExtendedIs
  <1>4. QED
    BY <1>1, <1>2, <1>3

\* What a listed video is, when it shows as a livestream that is over or in progress.
LEMMA ListedIsRight ==
    ASSUME CatInv, Home!Ready, NEW r \in Home!RecentCreatorVideos
    PROVE  /\ r.class = "completed" => homeKind[r.v] = "stream"
           /\ InProgress(r.class) => r.v \notin DOMAIN archives
           /\ InProgress(r.class) /\ r.v \in verified /\ missed = {} => r.v \in unsettled
  <1>1. RowIs(r)
    BY ListIs
  <1>2. /\ ReportDay \in DOMAIN rankings /\ ReportDay \in Nat /\ ReportDay > Home!Date(homeNow) - ReportLookback
        /\ \A d \in DOMAIN rankings : d > Home!Date(homeNow) - ReportLookback => d <= ReportDay
    BY ReportDateIs DEF CatInv, ReportDay
  <1>3. homeNow \in Nat /\ Home!Date(homeNow) \in Nat /\ DOMAIN archives \subseteq verified
    BY CatNow DEF CatInv
  <1>4. \A v \in DOMAIN archives : OverClass(v) = "completed" => homeKind[v] = "stream"
    <2>1. \A v \in verified : homeKind[v] \in {"stream", "premiere"}
      BY DEF CatInv, CatKinds, Home!Broadcast
    <2>2. QED
      BY <1>3, <2>1 DEF OverClass, Home!Premiere
  <1>5. \A v : ~InProgress(OverClass(v))
    BY DEF OverClass, InProgress
  <1>6. \A class \in OverClasses : ~InProgress(class)
    BY DEF OverClasses, InProgress
  <1>7. \A d \in DOMAIN rankings : \A x \in rankings[d] : x.class = "completed" => homeKind[x.v] = "stream"
    BY DEF CatInv, CatKinds
  <1>8. \A v \in DOMAIN homeMaster : homeMaster[v].class = "completed" => homeKind[v] = "stream"
    BY DEF CatInv, CatKinds
  <1>9. r.class = "completed" => homeKind[r.v] = "stream"
    BY <1>1, <1>2, <1>4, <1>7, <1>8 DEF RowIs
  <1>10. InProgress(r.class) => r.v \notin DOMAIN archives
    BY <1>1, <1>5, <1>6 DEF RowIs
  <1>11. ASSUME NEW d \in Nat, ReportDay <= d, LastOf(d) <= homeNow - EndedRetention - 1, missed = {} PROVE FALSE
    <2>1. LastOf(d) \in Int /\ LastOf(d + 1) = LastOf(d) + PerDay
      BY LastMoments
    <2>2. LastOf(d + 1) < homeNow
      BY <1>3, <1>11, <2>1, HomeLimits
    <2>3. d + 1 < Home!Date(homeNow) /\ d + 1 \in Nat
      BY <1>3, <2>2, HomeDates
    <2>4. d + 1 \in DOMAIN rankings
      BY <1>2, <1>11, <2>3 DEF CatInv, CatDays
    <2>5. d + 1 > Home!Date(homeNow) - ReportLookback
      BY <1>2, <1>3, <1>11, HomeLimits
    <2>6. QED
      BY <1>2, <1>11, <2>4, <2>5
  <1>12. ASSUME InProgress(r.class), r.v \in verified, missed = {} PROVE r.v \in unsettled
    <2>1. r.v \notin DOMAIN archives /\ EndedBy(r.v) = homeNow - EndedRetention - 1 /\ SeenBy(r.v) = EndedBy(r.v)
      BY <1>10, <1>12 DEF EndedBy, SeenBy
    <2>2. CASE \E x \in rankings[ReportDay] : r.v = x.v /\ r.class = x.class
      <3>1. r.v \in unsettled \/ LastOf(ReportDay) <= EndedBy(r.v)
        BY <1>2, <1>12, <2>2 DEF CatInv, CatRelapse
      <3>2. QED
        BY <1>2, <1>11, <1>12, <2>1, <3>1
    <2>3. CASE /\ \E e \in homeEvents : e.v = r.v /\ e.date >= ReportDay
               /\ r.class = IF r.v \in DOMAIN homeMaster THEN homeMaster[r.v].class ELSE "none"
      <3>1. PICK e \in homeEvents : e.v = r.v /\ e.date >= ReportDay
        BY <2>3
      <3>2. e.date \in Nat
        BY DEF CatInv, CatTypes, EventRows
      <3>3. r.v \in DOMAIN homeMaster /\ InProgress(homeMaster[r.v].class)
        BY <1>12, <2>3 DEF InProgress
      <3>4. LastOf(e.date) <= EndedBy(r.v)
        BY <2>1, <3>1, <3>3 DEF CatInv, CatRelapse
      <3>5. QED
        BY <1>2, <1>11, <1>12, <2>1, <3>1, <3>2, <3>4
    <2>4. QED
      BY <1>1, <2>1, <2>2, <2>3 DEF RowIs
  <1>13. QED
    BY <1>9, <1>10, <1>12

LEMMA CatLists == CatInv => Home!ListedOnceAsItIs
  <1> SUFFICES ASSUME CatInv, Home!Ready
               PROVE  /\ \A r, s \in Home!RecentCreatorVideos : r.v = s.v => r = s
                      /\ \A r \in Home!RecentCreatorVideos : r.class = "completed" => homeKind[r.v] = "stream"
                      /\ Home!Relapsed \cap DOMAIN archives = {}
                      /\ missed = {} => Home!Relapsed \subseteq unsettled
                      /\ \A r \in rankings[Home!ReportDate] : Home!OshiStatusKind(r) = "livestream" => homeKind[r.v] = "stream"
    BY DEF Home!ListedOnceAsItIs
  <1>1. \A r \in Home!RecentCreatorVideos : r.class \in Home!InProgressStatuses <=> InProgress(r.class)
    BY DEF Home!InProgressStatuses, InProgress
  <1>2. Home!Relapsed \cap DOMAIN archives = {}
    BY <1>1, ListedIsRight DEF Home!Relapsed
  <1>3. missed = {} => Home!Relapsed \subseteq unsettled
    BY <1>1, ListedIsRight DEF Home!Relapsed
  <1>4. Home!ReportDate \in DOMAIN rankings
    BY ReportDateIs DEF CatInv
  <1>5. \A r : Home!OshiStatusKind(r) = "livestream" => r.class = "completed"
    BY DEF Home!OshiStatusKind
  <1>6. \A r \in rankings[Home!ReportDate] : Home!OshiStatusKind(r) = "livestream" => homeKind[r.v] = "stream"
    BY <1>4, <1>5 DEF CatInv, CatKinds
  <1>7. QED
    BY <1>2, <1>3, <1>6, ListIs, ListedIsRight

LEMMA CatSound == CatInv => Home!CatalogIsSound
  BY CatTypeOK, CatViews, CatLists, FiltersKeepOrder DEF Home!CatalogIsSound

-----------------------------------------------------------------------------
(* From when a video counts as NEW *)

\* An announced Premiere is not there to be watched.
Hidden(v) == \E e \in homeEvents :
    /\ e.v = v /\ e.announced /\ e.date >= ReportDay
    /\ homeMaster[v].class = "none" /\ v \notin DOMAIN shards[ReportDay]
NewTime(v) == IF Arch(v) # -1 THEN Arch(v)
              ELSE IF v \in DOMAIN homeMaster /\ ~Hidden(v) THEN homeMaster[v].found ELSE -1

NewTimesAre == Home!Ready => \A row \in Home!RecentCreatorVideos :
    Home!NewAt(row) = NewTime(row.v) /\ row.archived = Arch(row.v)

LEMMA NewTimesOf == CatInv => NewTimesAre
  <1> SUFFICES ASSUME CatInv, Home!Ready, NEW row \in Home!RecentCreatorVideos
               PROVE  Home!NewAt(row) = NewTime(row.v) /\ row.archived = Arch(row.v)
    BY DEF NewTimesAre
  <1>1. RowIs(row)
    BY ListIs
  <1>2. row.archived = Arch(row.v)
    BY <1>1 DEF RowIs
  <1>3. ReportDay \in DOMAIN rankings /\ ReportDay \in DOMAIN shards
    BY ReportDateIs DEF CatInv, ReportDay
  <1>4. CASE Arch(row.v) # -1
    BY <1>2, <1>4 DEF Home!NewAt, Home!Unwatchable, NewTime, Home!None
  <1>5. CASE Arch(row.v) = -1 /\ ~row.announced /\ row.found = (IF row.v \in DOMAIN homeMaster THEN homeMaster[row.v].found ELSE -1)
             /\ (row.v \in DOMAIN homeMaster => ~Hidden(row.v))
    BY <1>2, <1>5 DEF Home!NewAt, Home!Unwatchable, NewTime, Home!None
  <1>6. \A x \in rankings[ReportDay] : x.v \in DOMAIN shards[ReportDay] /\ x.v \in DOMAIN homeMaster /\ x.found = homeMaster[x.v].found
    BY <1>3 DEF CatInv, CatShards
  <1>7. \A e, f \in homeEvents : e.v = f.v => e = f
    BY DEF CatInv, CatEvents
  <1>8. \A e \in homeEvents : (e.announced => Home!Premiere(e.v)) /\ (~e.announced => e.v \in DOMAIN homeMaster)
    BY DEF CatInv, CatEvents
  <1>9. CASE Arch(row.v) = -1 /\ \E x \in rankings[ReportDay] : row.v = x.v /\ row.found = x.found /\ ~row.announced
    <2>1. row.v \in DOMAIN shards[ReportDay] /\ row.v \in DOMAIN homeMaster /\ row.found = homeMaster[row.v].found
      BY <1>6, <1>9
    <2>2. ~Hidden(row.v)
      BY <2>1 DEF Hidden
    <2>3. QED
      BY <1>5, <1>9, <2>1, <2>2
  <1>10. CASE Arch(row.v) = -1 /\ row.v \in DOMAIN archives \ DOMAIN shards[ReportDay] /\ ~row.announced
              /\ row.found = IF row.v \in DOMAIN homeMaster THEN homeMaster[row.v].found ELSE -1
    <2>1. archives[row.v] # -1
      BY <1>10 DEF CatInv, CatTypes
    <2>2. ~Home!Premiere(row.v)
      BY <1>10, <2>1 DEF Arch, ArchivedAt
    <2>3. ~Hidden(row.v)
      BY <1>8, <2>2 DEF Hidden
    <2>4. QED
      BY <1>5, <1>10, <2>3
  <1>11. CASE /\ Arch(row.v) = -1
              /\ row.v \notin DOMAIN shards[ReportDay] /\ row.v \notin DOMAIN archives /\ row.provisional
              /\ \E e \in homeEvents : e.v = row.v /\ e.date >= ReportDay /\ row.announced = e.announced
              /\ row.class = IF row.v \in DOMAIN homeMaster THEN homeMaster[row.v].class ELSE "none"
              /\ row.v \in DOMAIN homeMaster => row.found = homeMaster[row.v].found
    <2>1. PICK e \in homeEvents : e.v = row.v /\ e.date >= ReportDay /\ row.announced = e.announced
      BY <1>11
    <2>2. CASE row.v \notin DOMAIN homeMaster
      <3>1. e.announced
        BY <1>8, <2>1, <2>2
      <3>2. Home!Unwatchable(row)
        BY <1>2, <1>11, <2>1, <2>2, <3>1 DEF Home!Unwatchable, Home!None
      <3>3. QED
        BY <1>2, <1>11, <2>2, <3>2 DEF Home!NewAt, NewTime, Home!None
    <2>3. CASE row.v \in DOMAIN homeMaster
      <3>1. Hidden(row.v) <=> e.announced /\ homeMaster[row.v].class = "none"
        BY <1>7, <1>11, <2>1 DEF Hidden
      <3>2. Home!Unwatchable(row) <=> e.announced /\ homeMaster[row.v].class = "none"
        BY <1>2, <1>11, <2>1, <2>3 DEF Home!Unwatchable, Home!None
      <3>3. QED
        BY <1>2, <1>11, <2>3, <3>1, <3>2 DEF Home!NewAt, NewTime, Home!None
    <2>4. QED
      BY <2>2, <2>3
  <1>12. QED
    BY <1>1, <1>2, <1>4, <1>9, <1>10, <1>11 DEF RowIs

\* What no step takes back.
ListKept ==
    /\ homeNow <= homeNow' /\ homeKind' = homeKind /\ DOMAIN rankings \subseteq DOMAIN rankings'
    /\ \A d \in DOMAIN shards : shards'[d] = shards[d]
    /\ \A v \in DOMAIN homeMaster : /\ v \in DOMAIN homeMaster' /\ homeMaster'[v].found = homeMaster[v].found
                                    /\ homeMaster[v].class # "none" => homeMaster'[v].class # "none"
    /\ \A e \in homeEvents' : e.v \in DOMAIN homeMaster => e \in homeEvents
TimesKept ==
    \A v \in HomeVideos : \/ Arch(v)' = Arch(v)
                          \/ Arch(v) = -1 /\ Home!Premiere(v) /\ Arch(v)' = homeNow

LEMMA ArchStands ==
    ASSUME UNCHANGED <<homeKind, archives, archiveTimes>>
    PROVE  \A v : Arch(v)' = Arch(v)
  BY DEF Arch, ArchivedAt, Home!Premiere

LEMMA KeptByUsual ==
    ASSUME CatInv, \/ \E v \in HomeVideos : Home!Broadcasts(v) \/ Home!Announce(v) \/ Home!Discover(v)
                   \/ Home!BuildAndPersistVideoRankings \/ UNCHANGED homeVars
    PROVE  ListKept /\ TimesKept
  <1>1. UNCHANGED <<homeNow, homeKind, shards, archives, archiveTimes>>
    BY DEF Home!Broadcasts, Home!Announce, Home!Discover, Home!BuildAndPersistVideoRankings, homeVars,
       Home!world, Home!catalog, Home!daily, Home!lifecycle
  <1>2. homeNow \in Nat /\ DOMAIN homeManifest = DOMAIN homeMaster
    BY CatNow DEF CatInv
  <1>3. TimesKept
    BY <1>1, ArchStands DEF TimesKept
  <1>4. CASE UNCHANGED homeVars \/ \E v \in HomeVideos : Home!Broadcasts(v)
    <2>1. UNCHANGED <<homeMaster, homeEvents, rankings>>
      BY <1>4 DEF homeVars, Home!Broadcasts, Home!catalog, Home!daily
    <2>2. QED
      BY <1>1, <1>2, <1>3, <2>1 DEF ListKept
  <1>5. ASSUME NEW u \in HomeVideos, Home!Announce(u) PROVE ListKept
    <2>1. PICK e : e = Home!Event(u, TRUE)
      OBVIOUS
    <2>2. UNCHANGED <<homeMaster, rankings>> /\ u \notin DOMAIN homeMaster /\ homeEvents' = homeEvents \cup {e} /\ e.v = u
      BY <1>2, <1>5, <2>1 DEF Home!Announce, Home!daily, Home!Event
    <2>3. QED
      BY <1>1, <1>2, <2>2 DEF ListKept
  <1>6. ASSUME NEW u \in HomeVideos, Home!Discover(u) PROVE ListKept
    <2>1. PICK e : e = Home!Event(u, FALSE)
      OBVIOUS
    <2>2. rankings' = rankings /\ u \notin DOMAIN homeMaster /\ homeEvents' \subseteq homeEvents \cup {e} /\ e.v = u
      BY <1>2, <1>6, <2>1 DEF Home!Discover, Home!daily, Home!Event
    <2>3. \E g : DOMAIN g = {u} /\ homeMaster' = Home!With(homeMaster, g)
      <3>1. PICK class : homeMaster' = Home!With(homeMaster, [w \in {u} |-> [class |-> class, found |-> homeNow, views |-> -1]])
        BY <1>6 DEF Home!Discover, Home!None
      <3>2. DOMAIN [w \in {u} |-> [class |-> class, found |-> homeNow, views |-> -1]] = {u}
        OBVIOUS
      <3>3. QED
        BY <3>1, <3>2
    <2>4. \A v \in DOMAIN homeMaster : v \in DOMAIN homeMaster' /\ homeMaster'[v] = homeMaster[v]
      BY <2>2, <2>3 DEF Home!With
    <2>5. QED
      BY <1>1, <1>2, <2>2, <2>4 DEF ListKept
  <1>7. CASE Home!BuildAndPersistVideoRankings
    <2>1. homeMaster' = homeMaster /\ homeEvents' = homeEvents
      BY <1>7 DEF Home!BuildAndPersistVideoRankings, Home!catalog
    <2>2. \E g : rankings' = Home!With(rankings, g)
      BY <1>7 DEF Home!BuildAndPersistVideoRankings
    <2>3. DOMAIN rankings \subseteq DOMAIN rankings'
      BY <2>2 DEF Home!With
    <2>4. QED
      BY <1>1, <1>2, <1>3, <2>1, <2>3 DEF ListKept
  <1>8. QED
    BY <1>3, <1>4, <1>5, <1>6, <1>7

LEMMA KeptByCollection ==
    ASSUME CatInv, Home!CollectHistoryShard
    PROVE  ListKept /\ TimesKept
  <1>1. PICK got \in SUBSET DOMAIN homeMaster : Collects(Home!Date(homeNow), got)
    BY CollectsIs
  <1>2. PICK D : D = Home!Date(homeNow)
    OBVIOUS
  <1>3. Collects(D, got)
    BY <1>1, <1>2
  <1>4. /\ UNCHANGED <<homeNow, homeKind, homeEvents, rankings, archives, archiveTimes>>
        /\ \A d \in DOMAIN shards : shards'[d] = shards[d]
        /\ DOMAIN homeMaster' = DOMAIN homeMaster
    BY <1>3 DEF Collects
  <1>5. ASSUME NEW v \in DOMAIN homeMaster
        PROVE  homeMaster'[v].found = homeMaster[v].found /\ (homeMaster[v].class # "none" => homeMaster'[v].class # "none")
    <2>1. homeMaster[v] \in MasterRows
      BY DEF CatInv, CatTypes
    <2>2. CASE v \in got
      <3>1. homeMaster'[v] = [homeMaster[v] EXCEPT !.class = Home!Settled(v), !.views = shards'[D][v]]
        BY <1>3, <2>2 DEF Collects
      <3>2. homeMaster'[v].found = homeMaster[v].found /\ homeMaster'[v].class = Home!Settled(v)
        BY <2>1, <3>1 DEF MasterRows
      <3>3. homeMaster[v].class \in Home!Classes
        BY <2>1 DEF MasterRows
      <3>4. QED
        BY <3>2, <3>3, SettledIs
    <2>3. CASE v \notin got
      BY <1>3, <2>3 DEF Collects
    <2>4. QED
      BY <2>2, <2>3
  <1>6. homeNow \in Nat
    BY CatNow DEF CatInv
  <1>7. QED
    BY <1>4, <1>5, <1>6, ArchStands DEF ListKept, TimesKept

LEMMA KeptByLifecycle ==
    ASSUME CatInv, NEW u \in HomeVideos, Home!VerifyArchive(u) \/ Home!RecordPremiereArchiveTime(u)
    PROVE  ListKept /\ TimesKept
  <1>1. /\ homeNow \in Nat /\ DOMAIN homeManifest = DOMAIN homeMaster /\ DOMAIN archives \subseteq verified
        /\ DOMAIN archiveTimes \subseteq verified
    BY CatNow DEF CatInv, CatTypes
  <1>2. UNCHANGED <<homeNow, homeKind, homeEvents, shards, rankings>>
    BY DEF Home!VerifyArchive, Home!RecordPremiereArchiveTime, Home!world, Home!daily, Home!catalog
  <1>3. \A v \in DOMAIN homeMaster : /\ v \in DOMAIN homeMaster' /\ homeMaster'[v].found = homeMaster[v].found
                                     /\ homeMaster[v].class # "none" => homeMaster'[v].class # "none"
    <2>1. CASE homeMaster' = homeMaster
      BY <2>1
    <2>2. CASE u \in DOMAIN homeMaster /\ homeMaster' = [homeMaster EXCEPT ![u].class = IF Home!Premiere(u) THEN @ ELSE "completed"]
      <3>1. homeMaster[u] \in MasterRows
        BY <2>2 DEF CatInv, CatTypes
      <3>2. PICK row : row = [homeMaster[u] EXCEPT !.class = IF Home!Premiere(u) THEN @ ELSE "completed"]
        OBVIOUS
      <3>3. homeMaster' = [homeMaster EXCEPT ![u] = row]
        BY <2>2, <3>2
      <3>4. row.found = homeMaster[u].found /\ row.class = IF Home!Premiere(u) THEN homeMaster[u].class ELSE "completed"
        BY <3>1, <3>2 DEF MasterRows
      <3>5. QED
        BY <3>3, <3>4
    <2>3. QED
      BY <2>1, <2>2 DEF Home!VerifyArchive, Home!RecordPremiereArchiveTime, Home!catalog
  <1>4. ListKept
    BY <1>1, <1>2, <1>3 DEF ListKept
  <1>5. \A v : Home!Premiere(v)' <=> Home!Premiere(v)
    BY <1>2 DEF Home!Premiere
  <1>6. CASE Home!VerifyArchive(u)
    <2>1. u \notin verified /\ archiveTimes' = archiveTimes /\ u \notin DOMAIN archives /\ u \notin DOMAIN archiveTimes
      BY <1>1, <1>6 DEF Home!VerifyArchive
    <2>2. /\ DOMAIN archives' = DOMAIN archives \cup {u} /\ archives'[u] = homeNow
          /\ \A v \in DOMAIN archives : archives'[v] = archives[v]
      <3>1. PICK time : time = [w \in {u} |-> homeNow]
        OBVIOUS
      <3>2. DOMAIN time = {u} /\ time[u] = homeNow
        BY <3>1
      <3>3. archives' = Home!With(archives, time)
        BY <1>6, <3>1 DEF Home!VerifyArchive
      <3>4. QED
        BY <2>1, <3>2, <3>3 DEF Home!With
    <2>3. \A v \in HomeVideos \ {u} : Arch(v)' = Arch(v)
      BY <1>5, <2>1, <2>2 DEF Arch, ArchivedAt
    <2>4. Arch(u) = -1 /\ (Home!Premiere(u) => Arch(u)' = homeNow) /\ (~Home!Premiere(u) => Arch(u)' = -1)
      BY <1>1, <1>5, <2>1, <2>2 DEF Arch, ArchivedAt
    <2>5. QED
      BY <1>4, <2>3, <2>4 DEF TimesKept
  <1>7. CASE Home!RecordPremiereArchiveTime(u)
    <2>1. Home!Premiere(u) /\ u \in DOMAIN archives /\ archives' = archives
      BY <1>7 DEF Home!RecordPremiereArchiveTime
    <2>2. archives[u] \in Nat
      BY <2>1 DEF CatInv, CatTypes
    <2>3. \A v \in DOMAIN archiveTimes \ {u} : v \in DOMAIN archiveTimes' /\ archiveTimes'[v] = archiveTimes[v]
      <3>1. PICK time : time = [w \in {u} |-> archives[w]]
        OBVIOUS
      <3>2. DOMAIN time = {u}
        BY <3>1
      <3>3. archiveTimes' = Home!With(archiveTimes, time)
        BY <1>7, <3>1 DEF Home!RecordPremiereArchiveTime
      <3>4. QED
        BY <3>2, <3>3 DEF Home!With
    <2>4. \A v : v \in DOMAIN archiveTimes' => v \in DOMAIN archiveTimes \cup {u}
      <3>1. archiveTimes' = Home!With(archiveTimes, [w \in {u} |-> archives[w]])
        BY <1>7 DEF Home!RecordPremiereArchiveTime
      <3>2. DOMAIN [w \in {u} |-> archives[w]] = {u}
        OBVIOUS
      <3>3. QED
        BY <3>1, <3>2, WithIs
    <2>5. \A v : ArchivedAt(v)' = ArchivedAt(v)
      BY <1>5, <2>1 DEF ArchivedAt
    <2>6. ArchivedAt(u) # -1
      BY <2>1, <2>2 DEF ArchivedAt
    <2>7. \A v \in HomeVideos : Arch(v)' = Arch(v)
      BY <2>3, <2>4, <2>5, <2>6 DEF Arch
    <2>8. QED
      BY <1>4, <2>7 DEF TimesKept
  <1>8. QED
    BY <1>6, <1>7

\* The lifecycle forgets a Premiere only when its time is kept.
LEMMA KeptByTime ==
    ASSUME CatInv, Home!Tick
    PROVE  ListKept /\ TimesKept
  <1>1. /\ homeNow' = homeNow + 1
        /\ UNCHANGED <<homeKind, homeMaster, homeEvents, shards, rankings, archiveTimes>>
        /\ \A v \in DOMAIN archives : Home!Premiere(v) => v \in DOMAIN archiveTimes
        /\ DOMAIN archives' \subseteq DOMAIN archives /\ \A v \in DOMAIN archives' : archives'[v] = archives[v]
    BY DEF Home!Tick, Home!world, Home!catalog
  <1>2. homeNow \in Nat
    BY CatNow DEF CatInv
  <1>3. ListKept
    BY <1>1, <1>2 DEF ListKept
  <1>4. \A v : Home!Premiere(v)' <=> Home!Premiere(v)
    BY <1>1 DEF Home!Premiere
  <1>5. \A v \in DOMAIN archiveTimes : archiveTimes[v] # -1 /\ (v \in DOMAIN archives => archives[v] = archiveTimes[v])
    BY DEF CatInv, CatTypes, CatKinds
  <1>6. ASSUME NEW v \in HomeVideos PROVE Arch(v)' = Arch(v)
    <2>1. CASE v \in DOMAIN archives /\ Home!Premiere(v)
      <3>1. v \in DOMAIN archiveTimes /\ archives[v] = archiveTimes[v] /\ archiveTimes[v] # -1
        BY <1>1, <1>5, <2>1
      <3>2. Arch(v) = archiveTimes[v]
        BY <2>1, <3>1 DEF Arch, ArchivedAt
      <3>3. ArchivedAt(v)' = -1 \/ ArchivedAt(v)' = archiveTimes[v]
        BY <1>1, <3>1 DEF ArchivedAt
      <3>4. Arch(v)' = archiveTimes[v]
        BY <1>1, <3>1, <3>3 DEF Arch
      <3>5. QED
        BY <3>2, <3>4
    <2>2. CASE ~(v \in DOMAIN archives /\ Home!Premiere(v))
      BY <1>1, <1>4, <2>2 DEF Arch, ArchivedAt
    <2>3. QED
      BY <2>1, <2>2
  <1>7. QED
    BY <1>3, <1>6 DEF TimesKept

LEMMA StepKeeps == CatInv /\ (Home!Next \/ UNCHANGED homeVars) => ListKept /\ TimesKept
  BY KeptByUsual, KeptByCollection, KeptByLifecycle, KeptByTime DEF Home!Next

\* What counted as NEW still does, and from the same time on.
NewTimeHolds == Home!Ready /\ Home!Ready' =>
    \A v \in Home!Listed(Home!RecentCreatorVideos) \cap Home!Listed(Home!RecentCreatorVideos)' :
        LET old == Home!RowOf(v) new == Home!RowOf(v)' IN
        Home!NewAt(old) # Home!None =>
             \/ Home!NewAt(new) = Home!NewAt(old)
             \/ Home!Premiere(v) /\ Home!NewAt(new) = new.archived /\ new.archived >= Home!NewAt(old)

DayIs ==
    /\ homeNow \in Nat /\ Home!Date(homeNow) \in Nat
    /\ Home!Ready =>
          /\ ReportDay \in DOMAIN rankings /\ ReportDay \in DOMAIN shards /\ ReportDay \in Nat
          /\ ReportDay > Home!Date(homeNow) - ReportLookback
          /\ \A d \in DOMAIN rankings : d > Home!Date(homeNow) - ReportLookback => d <= ReportDay

LEMMA DayFacts == CatInv => DayIs
  BY ReportDateIs, CatNow DEF CatInv, DayIs, ReportDay

LEMMA NewTimesKept ==
    ASSUME CatInv, CatInv', ListKept, TimesKept, Home!Ready, Home!Ready', NEW v \in HomeVideos, NewTime(v) # -1
    PROVE  \/ NewTime(v)' = NewTime(v)
           \/ Home!Premiere(v) /\ NewTime(v)' = Arch(v)' /\ Arch(v)' >= NewTime(v)
  <1>1. CASE Arch(v) # -1
    <2>1. Arch(v)' = Arch(v)
      BY <1>1 DEF TimesKept
    <2>2. QED
      BY <1>1, <2>1 DEF NewTime
  <1>2. CASE Arch(v) = -1 /\ Arch(v)' # -1
    <2>1. Home!Premiere(v) /\ Arch(v)' = homeNow
      BY <1>2 DEF TimesKept
    <2>2. v \in DOMAIN homeMaster /\ NewTime(v) = homeMaster[v].found
      BY <1>2 DEF NewTime
    <2>3. homeNow \in Nat /\ homeMaster[v].found \in {-1} \cup (0..homeNow)
      BY <2>2, CatNow DEF CatInv, CatTypes, MasterRows
    <2>4. NewTime(v)' = Arch(v)'
      BY <1>2 DEF NewTime
    <2>5. QED
      BY <2>1, <2>2, <2>3, <2>4
  <1>3. CASE Arch(v) = -1 /\ Arch(v)' = -1
    <2>1. v \in DOMAIN homeMaster /\ ~Hidden(v) /\ NewTime(v) = homeMaster[v].found
      BY <1>3 DEF NewTime
    <2>2. v \in DOMAIN homeMaster' /\ homeMaster'[v].found = homeMaster[v].found
      BY <2>1 DEF ListKept
    <2>3. DayIs /\ DayIs'
      BY DayFacts, PTL
    <2>4. /\ ReportDay \in DOMAIN rankings /\ ReportDay \in DOMAIN shards /\ ReportDay \in Nat
          /\ ReportDay' \in Nat /\ ReportDay' \in DOMAIN shards'
          /\ ReportDay' > Home!Date(homeNow)' - ReportLookback
          /\ \A d \in DOMAIN rankings' : d > Home!Date(homeNow)' - ReportLookback => d <= ReportDay'
      BY <2>3 DEF DayIs
    <2>5. homeNow \in Nat /\ homeNow' \in Nat /\ Home!Date(homeNow)' \in Nat
      BY <2>3 DEF DayIs
    <2>6. ReportDay <= ReportDay'
      <3>1. ReportDay \in DOMAIN rankings'
        BY <2>4 DEF ListKept
      <3>2. QED
        BY <2>4, <2>5, <3>1, HomeLimits
    <2>7. ~Hidden(v)'
      <3>1. SUFFICES ASSUME NEW e \in homeEvents', e.v = v, e.announced, e.date >= ReportDay',
                            homeMaster'[v].class = "none", v \notin DOMAIN shards'[ReportDay']
                     PROVE  FALSE
        BY DEF Hidden
      <3>2. e \in homeEvents
        BY <2>1, <3>1 DEF ListKept
      <3>3. e.date \in Nat
        BY <3>2 DEF CatInv, CatTypes, EventRows
      <3>4. homeMaster[v].class = "none"
        BY <2>1, <3>1 DEF ListKept
      <3>5. CASE v \in DOMAIN shards[ReportDay]
        <4>1. e.date <= ReportDay
          BY <2>4, <3>1, <3>2, <3>5 DEF CatInv, CatEvents
        <4>2. ReportDay' = ReportDay
          BY <2>4, <2>6, <3>1, <3>3, <4>1
        <4>3. shards'[ReportDay] = shards[ReportDay]
          BY <2>4 DEF ListKept
        <4>4. QED
          BY <3>1, <3>5, <4>2, <4>3
      <3>6. CASE v \notin DOMAIN shards[ReportDay]
        <4>1. e.date >= ReportDay
          BY <2>4, <2>6, <3>1, <3>3
        <4>2. Hidden(v)
          BY <3>1, <3>2, <3>4, <3>6, <4>1 DEF Hidden
        <4>3. QED
          BY <2>1, <4>2
      <3>7. QED
        BY <3>5, <3>6
    <2>8. NewTime(v)' = homeMaster'[v].found
      BY <1>3, <2>2, <2>7 DEF NewTime
    <2>9. QED
      BY <2>1, <2>2, <2>8
  <1>4. QED
    BY <1>1, <1>2, <1>3

LEMMA NewTimeHoldsIs == CatInv /\ CatInv' /\ (Home!Next \/ UNCHANGED homeVars) => NewTimeHolds
  <1> SUFFICES ASSUME CatInv, CatInv', Home!Next \/ UNCHANGED homeVars, Home!Ready, Home!Ready',
                      NEW v \in Home!Listed(Home!RecentCreatorVideos) \cap Home!Listed(Home!RecentCreatorVideos)'
               PROVE  LET old == Home!RowOf(v) new == Home!RowOf(v)' IN
                      Home!NewAt(old) # Home!None =>
                           \/ Home!NewAt(new) = Home!NewAt(old)
                           \/ Home!Premiere(v) /\ Home!NewAt(new) = new.archived /\ new.archived >= Home!NewAt(old)
    BY DEF NewTimeHolds
  <1>1. ListKept /\ TimesKept
    BY StepKeeps
  <1>2. NewTimesAre /\ NewTimesAre'
    BY NewTimesOf, PTL
  <1> DEFINE old == Home!RowOf(v)
  <1>3. old \in Home!RecentCreatorVideos /\ old.v = v
    BY DEF Home!Listed, Home!RowOf
  <1>4. PICK new : new = old'
    OBVIOUS
  <1>5. new \in Home!RecentCreatorVideos' /\ new.v = v
    BY <1>4 DEF Home!Listed, Home!RowOf
  <1>6. Home!NewAt(old) = NewTime(v)
    BY <1>2, <1>3 DEF NewTimesAre
  <1>7. Home!NewAt(new) = NewTime(v)' /\ new.archived = Arch(v)'
    <2>1. \A row \in Home!RecentCreatorVideos' : Home!NewAt(row) = NewTime(row.v)' /\ row.archived = Arch(row.v)'
      BY <1>2 DEF NewTimesAre, Home!NewAt, Home!Unwatchable
    <2>2. QED
      BY <1>5, <2>1
  <1>8. NewTime(v) # -1 => v \in HomeVideos
    BY DEF NewTime, Arch, ArchivedAt, CatInv, CatTypes
  <1> HIDE DEF old
  <1>9. Home!NewAt(old) # Home!None =>
           \/ Home!NewAt(new) = Home!NewAt(old)
           \/ Home!Premiere(v) /\ Home!NewAt(new) = new.archived /\ new.archived >= Home!NewAt(old)
    BY <1>1, <1>6, <1>7, <1>8, NewTimesKept DEF Home!None
  <1>10. QED
    BY <1>4, <1>9 DEF old
-----------------------------------------------------------------------------
(* The topics *)

TopicFields == {"at", "mode", "items", "topicOf", "skipped", "incomplete", "errors", "shard", "planned",
                "patched", "failed", "status", "touched"}
InShards == {"read", "patch", "verify"}
Below(shard) == {x \in Shards : x < shard}

TopicTypes ==
    /\ topicMaster \in [TopicVideos -> Topic!Value] /\ topicManifest \in [TopicVideos -> Topic!Value]
    /\ held \in [TopicVideos -> Topic!Value] /\ topicRun = [r \in TopicRuns |-> topicRun[r]]

TopicRunTypes(s) ==
    /\ s = [f \in TopicFields |-> s[f]]
    /\ s.at \in {"new", "scan", "classify", "over"} \cup InShards
    /\ s.mode \in Modes /\ s.incomplete \in BOOLEAN
    /\ DOMAIN s.items \subseteq TopicVideos /\ DOMAIN s.topicOf \subseteq TopicVideos
    /\ \A v \in DOMAIN s.topicOf : s.topicOf[v] \in Topics
    /\ s.errors \in Nat /\ s.errors < MaxErrors
    /\ s.at \notin InShards => s.failed = 0
    /\ s.at \in InShards =>
          /\ DOMAIN s.items = {} /\ s.mode.manifest
          /\ s.shard \in Shards /\ s.failed \in Nat /\ s.failed <= Cardinality(Below(s.shard))
    /\ s.at # "over" => s.status = "none"
    /\ s.at = "patch" => s.mode.execute

\* What has come of a row that nobody else wrote, whose topic it is: it waits as it was
\* read, or it is mirrored, and is as its title asks unless the run is not about it.
RowDone(s, v, topic) ==
    /\ topic \in Topics => v \in DOMAIN s.topicOf /\ s.topicOf[v] = topic
    /\ topic \notin Topics => v \in s.skipped /\ s.mode.reclassify /\ ~Topic!InScope(s.mode, topic, v)
    /\ s.mode.reclassify => topic = Title[v] \/ ~Topic!InScope(s.mode, topic, v)
RowOK(s, v, topic) ==
    topic # "absent" => IF v \in DOMAIN s.items THEN s.items[v] = topic ELSE RowDone(s, v, topic)

Unwritten(s) == TopicVideos \ s.touched
Promises(s) == s.mode.execute /\ ~s.incomplete

Mirrors(mode, topic, entry) ==
    entry # "absent" /\ topic \in Topics /\ Topic!Concerns(mode, {topic, entry}) => entry = topic

\* An entry that carries another topic than its row is left alone by a plain run.
Undisputed(s, v, entry) ==
    ~s.mode.reclassify /\ entry \notin {"none", "absent"} /\ v \in DOMAIN s.topicOf => s.topicOf[v] = entry

NoWorkLeft(mode, v, topic, entry) ==
    topic # "absent" =>
        /\ Topic!Concerns(mode, {"none"}) => topic \in Topics
        /\ mode.reclassify /\ Topic!Concerns(mode, {topic, Title[v]}) => topic = Title[v]
        /\ mode.manifest => Mirrors(mode, topic, entry)

\* What a run may say of the rows and entries that only it wrote.
TopicRunOn(s, M, N) ==
    /\ TopicRunTypes(s)
    /\ s.at \in {"classify"} \cup InShards /\ Promises(s) => \A v \in Unwritten(s) : RowOK(s, v, M[v])
    /\ s.at \in InShards /\ Promises(s) =>
          \A v \in Unwritten(s) : ShardOf[v] < s.shard => Mirrors(s.mode, M[v], N[v])
    /\ s.at \in {"patch", "verify"} /\ Promises(s) =>
          \A v \in Unwritten(s) : ShardOf[v] = s.shard => Undisputed(s, v, N[v])
    /\ s.status = "COMPLETE" => \A v \in Unwritten(s) : NoWorkLeft(s.mode, v, M[v], N[v])

TopicInv == TopicTypes /\ \A r \in TopicRuns : TopicRunOn(topicRun[r], topicMaster, topicManifest)

LEMMA SameTopicSize == \A S : Topic!Cardinality(S) = Cardinality(S)
  BY DEF Topic!Cardinality, Cardinality

LEMMA SameTopicFinite == \A S : Topic!IsFiniteSet(S) <=> IsFiniteSet(S)
  BY DEF Topic!IsFiniteSet, IsFiniteSet

LEMMA TopicLimits ==
    /\ TopicVideos \subseteq Int /\ IsFiniteSet(TopicVideos)
    /\ Shards \subseteq Int /\ IsFiniteSet(Shards) /\ Shards # {}
    /\ ShardOf \in [TopicVideos -> Shards] /\ Title \in [TopicVideos -> Topics]
    /\ "none" \notin Topics /\ "bad" \notin Topics /\ "malformed" \notin Topics /\ "absent" \notin Topics /\ "any" \notin Topics
    /\ Modes # {} /\ Modes \subseteq [execute : BOOLEAN, reclassify : BOOLEAN, manifest : BOOLEAN, only : Topics \cup {"any"}]
    /\ MaxErrors \in Nat \ {0}
  BY HomeAssumption, SameTopicFinite DEF Topic!TopicAssumption

LEMMA LeastNumber ==
    ASSUME NEW S \in SUBSET Nat, S # {}
    PROVE  \E n \in S : \A m \in S : n <= m
  <1>1. PICK n \in S : \A m \in S : <<m, n>> \notin OpToRel(<, Nat)
    BY NatLessThanWellFounded, WFMin
  <1>2. \A m \in S : ~(m < n)
    BY <1>1 DEF OpToRel
  <1>3. QED
    BY <1>2

\* A finite set of integers has a least element.
LEMMA LeastIsThere ==
    ASSUME NEW S, S \subseteq Int, IsFiniteSet(S), S # {}
    PROVE  Topic!Least(S) \in S /\ \A x \in S : Topic!Least(S) <= x
  <1> DEFINE Lower(x) == {y \in S : y < x}
             Sizes == {Cardinality(Lower(x)) : x \in S}
  <1>1. ASSUME NEW x \in S PROVE IsFiniteSet(Lower(x)) /\ Cardinality(Lower(x)) \in Nat
    <2>1. Lower(x) \in SUBSET S
      OBVIOUS
    <2> HIDE DEF Lower
    <2>2. IsFiniteSet(Lower(x))
      BY <2>1, FS_Subset
    <2>3. QED
      BY <2>2, FS_CardinalityType
  <1>2. PICK x \in S : \A y \in S : Cardinality(Lower(x)) <= Cardinality(Lower(y))
    <2>1. Sizes \subseteq Nat /\ Sizes # {}
      BY <1>1
    <2> HIDE DEF Sizes
    <2>2. PICK n \in Sizes : \A m \in Sizes : n <= m
      BY <2>1, LeastNumber
    <2> USE DEF Sizes
    <2>3. PICK x \in S : n = Cardinality(Lower(x))
      OBVIOUS
    <2>4. QED
      BY <2>2, <2>3
  <1>3. ASSUME NEW y \in S, y < x PROVE FALSE
    <2>1. Lower(y) \in SUBSET (Lower(x) \ {y}) /\ y \in Lower(x)
      <3>1. y \in Lower(x)
        BY <1>3
      <3>2. \A z \in Lower(y) : z \in S /\ z < x /\ z # y
        BY <1>3
      <3>3. QED
        BY <3>1, <3>2
    <2>2. Cardinality(Lower(x) \ {y}) = Cardinality(Lower(x)) - 1 /\ IsFiniteSet(Lower(x) \ {y})
      BY <2>1, <1>1, FS_RemoveElement
    <2> HIDE DEF Lower
    <2>3. Cardinality(Lower(y)) <= Cardinality(Lower(x) \ {y})
      BY <2>1, <2>2, FS_Subset
    <2>4. QED
      BY <2>2, <2>3, <1>1, <1>2
  <1>4. \A y \in S : x <= y
    BY <1>3
  <1>5. QED
    BY <1>4 DEF Topic!Least

LEMMA InitTopic == Topic!Init => TopicInv
  <1> SUFFICES ASSUME Topic!Init PROVE TopicInv
    OBVIOUS
  <1>1. TopicTypes
    BY DEF Topic!Init, TopicTypes, Topic!Value
  <1>2. TopicRunOn(Topic!NewRun, topicMaster, topicManifest)
    <2>1. TopicRunTypes(Topic!NewRun)
      <3>1. Topic!AnyMode \in Modes
        BY TopicLimits DEF Topic!AnyMode
      <3>2. DOMAIN <<>> = {} /\ MaxErrors \in Nat /\ 0 < MaxErrors
        BY TopicLimits
      <3>3. Topic!NewRun = [f \in TopicFields |-> Topic!NewRun[f]]
        BY DEF TopicFields, Topic!NewRun
      <3>4. QED
        BY <3>1, <3>2, <3>3 DEF TopicRunTypes, Topic!NewRun, InShards
    <2>2. QED
      BY <2>1 DEF TopicRunOn, Topic!NewRun, InShards
  <1>3. QED
    BY <1>1, <1>2 DEF TopicInv, Topic!Init

LEMMA TopicSound == TopicInv => Topic!TopicsAreSound
  <1> SUFFICES ASSUME TopicInv PROVE Topic!TopicsAreSound
    OBVIOUS
  <1>1. Topic!TypeOK
    <2>1. ASSUME NEW r \in TopicRuns PROVE topicRun[r].errors < MaxErrors /\ topicRun[r].failed <= Topic!Cardinality(Shards)
      <3>1. TopicRunTypes(topicRun[r])
        BY DEF TopicInv, TopicRunOn
      <3>2. Cardinality(Shards) \in Nat
        BY TopicLimits, FS_CardinalityType
      <3>3. ASSUME topicRun[r].at \in InShards PROVE Cardinality(Below(topicRun[r].shard)) <= Cardinality(Shards)
        BY TopicLimits, FS_Subset DEF Below
      <3>4. ASSUME topicRun[r].at \in InShards PROVE Cardinality(Below(topicRun[r].shard)) \in Nat
        BY TopicLimits, FS_Subset, FS_CardinalityType DEF Below
      <3>5. topicRun[r].failed <= Cardinality(Shards)
        BY <3>1, <3>2, <3>3, <3>4 DEF TopicRunTypes
      <3>6. Topic!Cardinality(Shards) = Cardinality(Shards)
        BY SameTopicSize
      <3>7. QED
        BY <3>1, <3>5, <3>6 DEF TopicRunTypes
    <2>2. QED
      BY <2>1 DEF TopicInv, TopicTypes, Topic!TypeOK
  <1>2. Topic!CompleteLeavesNoWork
    BY DEF TopicInv, TopicRunOn, Unwritten, NoWorkLeft, Mirrors, Topic!CompleteLeavesNoWork
  <1>3. QED
    BY <1>1, <1>2 DEF Topic!TopicsAreSound

\* A step of one run: the others stand, or hear of what it has written.
LEMMA TopicGoes ==
    ASSUME TopicInv, TopicTypes', NEW r \in TopicRuns, NEW t, TopicRunOn(t, topicMaster', topicManifest'),
           topicRun' = [topicRun EXCEPT ![r] = t], UNCHANGED <<topicMaster, topicManifest>>
    PROVE  TopicInv'
  <1>1. ASSUME NEW x \in TopicRuns PROVE TopicRunOn(topicRun'[x], topicMaster', topicManifest')
    BY DEF TopicInv, TopicTypes
  <1>2. QED
    BY <1>1 DEF TopicInv

Told(s, W) == IF s.at = "new" THEN s ELSE [s EXCEPT !.touched = @ \cup W]

LEMMA TopicTouched ==
    ASSUME NEW s, NEW W, NEW M, NEW N, NEW M1, NEW N1, TopicRunOn(s, M, N),
           \A v \in TopicVideos \ W : M1[v] = M[v] /\ N1[v] = N[v]
    PROVE  TopicRunOn(Told(s, W), M1, N1)
  <1>0. PICK t : t = Told(s, W)
    OBVIOUS
  <1>1. s = [f \in TopicFields |-> s[f]]
    BY DEF TopicRunOn, TopicRunTypes
  <1>2. /\ t = [f \in TopicFields |-> t[f]] /\ \A f \in TopicFields \ {"touched"} : t[f] = s[f]
        /\ s.at # "new" => Unwritten(t) \subseteq Unwritten(s) \ W
    BY <1>0, <1>1 DEF TopicFields, Unwritten, Told
  <1>3. t.mode = s.mode /\ t.status = s.status /\ t.at = s.at /\ t.shard = s.shard /\ t.topicOf = s.topicOf /\ t.items = s.items
        /\ t.skipped = s.skipped /\ t.incomplete = s.incomplete /\ t.errors = s.errors /\ t.failed = s.failed
    BY <1>2 DEF TopicFields
  <1>4. TopicRunTypes(t)
    BY <1>2, <1>3 DEF TopicRunOn, TopicRunTypes
  <1>5. ASSUME NEW v \in Unwritten(t), s.at # "new" PROVE v \in Unwritten(s) /\ M1[v] = M[v] /\ N1[v] = N[v]
    BY <1>2, <1>5 DEF Unwritten
  <1>6. s.at # "new" \/ t.status = "none"
    BY <1>3 DEF TopicRunOn, TopicRunTypes
  <1>7. \A v, topic, entry : (RowOK(t, v, topic) <=> RowOK(s, v, topic)) /\ (Undisputed(t, v, entry) <=> Undisputed(s, v, entry))
    BY <1>3 DEF RowOK, RowDone, Undisputed
  <1>8. Promises(t) = Promises(s)
    BY <1>3 DEF Promises
  <1>9. QED
    BY <1>0, <1>3, <1>4, <1>5, <1>6, <1>7, <1>8 DEF TopicRunOn, InShards

LEMMA TopicOthers ==
    ASSUME TopicInv, TopicTypes', NEW r \in TopicRuns, NEW W, NEW t, TopicRunOn(t, topicMaster', topicManifest'),
           topicRun' = [Topic!Wrote(W) EXCEPT ![r] = t],
           \A v \in TopicVideos \ W : topicMaster'[v] = topicMaster[v] /\ topicManifest'[v] = topicManifest[v]
    PROVE  TopicInv'
  <1>1. ASSUME NEW x \in TopicRuns PROVE TopicRunOn(topicRun'[x], topicMaster', topicManifest')
    <2>1. CASE x = r
      BY <2>1 DEF Topic!Wrote
    <2>2. CASE x # r
      <3>1. topicRun'[x] = Told(topicRun[x], W)
        BY <2>2 DEF Topic!Wrote, Told
      <3>2. TopicRunOn(topicRun[x], topicMaster, topicManifest)
        BY DEF TopicInv
      <3>3. QED
        BY <3>1, <3>2, TopicTouched
    <2>3. QED
      BY <2>1, <2>2
  <1>2. QED
    BY <1>1 DEF TopicInv

\* The end of a run.
LEMMA TopicEnds ==
    ASSUME NEW s, NEW M, NEW N, s.mode \in Modes, M \in [TopicVideos -> Topic!Value],
           Promises(s) => \A v \in Unwritten(s) :
               /\ M[v] # "absent" => RowDone(s, v, M[v])
               /\ s.mode.manifest => Mirrors(s.mode, M[v], N[v])
    PROVE  TopicRunOn(Topic!Ended(s), M, N)
  <1>0. PICK t : t = Topic!Ended(s)
    OBVIOUS
  <1>1. /\ t = [f \in TopicFields |-> t[f]] /\ t.at = "over" /\ t.mode = s.mode /\ t.status = Topic!FinalStatus(s)
        /\ t.touched = s.touched /\ t.items = <<>> /\ t.topicOf = <<>> /\ t.incomplete = FALSE /\ t.errors = 0 /\ t.failed = 0
    BY <1>0 DEF Topic!Ended, Topic!NewRun, TopicFields
  <1>2. MaxErrors \in Nat /\ 0 < MaxErrors
    BY TopicLimits
  <1>3. TopicRunTypes(t)
    <2>0. DOMAIN <<>> = {}
      OBVIOUS
    <2>4. DOMAIN t.items = {} /\ DOMAIN t.topicOf = {}
      BY <1>1, <2>0
    <2>1. t.mode \in Modes /\ t.incomplete \in BOOLEAN /\ t.errors \in Nat /\ t.errors < MaxErrors
      <3>1. t.mode \in Modes
        BY <1>1
      <3>2. t.incomplete \in BOOLEAN
        BY <1>1
      <3>3. t.errors \in Nat /\ t.errors < MaxErrors
        BY <1>1, <1>2
      <3>4. QED
        BY <3>1, <3>2, <3>3
    <2>2. t.at \in {"new", "scan", "classify", "over"} \cup InShards /\ t.at \notin InShards /\ t.at # "patch"
      BY <1>1 DEF InShards
    <2>3. QED
      BY <1>1, <2>1, <2>2, <2>4 DEF TopicRunTypes
  <1>4. ASSUME Topic!FinalStatus(s) = "COMPLETE" PROVE Promises(s)
    BY <1>4 DEF Topic!FinalStatus, Promises
  <1>5. ASSUME Topic!FinalStatus(s) = "COMPLETE", NEW v \in Unwritten(s) PROVE NoWorkLeft(s.mode, v, M[v], N[v])
    <2>1. /\ M[v] # "absent" => RowDone(s, v, M[v])
          /\ s.mode.manifest => Mirrors(s.mode, M[v], N[v])
      BY <1>4, <1>5
    <2>2. s.mode.only \in Topics \cup {"any"} /\ s.mode.only # "none" /\ Title[v] \in Topics
      BY TopicLimits DEF Unwritten
    <2>3. QED
      BY <2>1, <2>2 DEF NoWorkLeft, RowDone, Topic!Concerns, Topic!InScope
  <1>6. Unwritten(t) = Unwritten(s)
    BY <1>1 DEF Unwritten
  <1>7. QED
    BY <1>0, <1>1, <1>3, <1>5, <1>6 DEF TopicRunOn, InShards

LEMMA TopicAborts ==
    ASSUME NEW s, NEW M, NEW N, s.mode \in Modes
    PROVE  TopicRunOn(Topic!Aborted(s), M, N)
  <1>0. PICK t : t = Topic!Aborted(s)
    OBVIOUS
  <1>1. /\ t = [f \in TopicFields |-> t[f]] /\ t.at = "over" /\ t.mode = s.mode /\ t.status = "FAILED"
        /\ t.items = <<>> /\ t.topicOf = <<>> /\ t.incomplete = FALSE /\ t.errors = 0 /\ t.failed = 0
    BY <1>0 DEF Topic!Aborted, Topic!Ended, Topic!NewRun, TopicFields
  <1>2. MaxErrors \in Nat /\ 0 < MaxErrors
    BY TopicLimits
  <1>3. TopicRunTypes(t)
    <2>0. DOMAIN <<>> = {}
      OBVIOUS
    <2>4. DOMAIN t.items = {} /\ DOMAIN t.topicOf = {}
      BY <1>1, <2>0
    <2>1. t.mode \in Modes /\ t.incomplete \in BOOLEAN /\ t.errors \in Nat /\ t.errors < MaxErrors
      <3>1. t.mode \in Modes
        BY <1>1
      <3>2. t.incomplete \in BOOLEAN
        BY <1>1
      <3>3. t.errors \in Nat /\ t.errors < MaxErrors
        BY <1>1, <1>2
      <3>4. QED
        BY <3>1, <3>2, <3>3
    <2>2. t.at \in {"new", "scan", "classify", "over"} \cup InShards /\ t.at \notin InShards /\ t.at # "patch"
      BY <1>1 DEF InShards
    <2>3. QED
      BY <1>1, <2>1, <2>2, <2>4 DEF TopicRunTypes
  <1>4. QED
    BY <1>0, <1>1, <1>3 DEF TopicRunOn, InShards

LEMMA BelowIsFinite ==
    ASSUME NEW shard \in Shards
    PROVE  IsFiniteSet(Below(shard)) /\ Cardinality(Below(shard)) \in Nat
  <1>1. Below(shard) \in SUBSET Shards
    BY DEF Below
  <1>2. IsFiniteSet(Below(shard))
    BY <1>1, TopicLimits, FS_Subset
  <1>3. QED
    BY <1>2, FS_CardinalityType

LEMMA NextInOrder ==
    ASSUME NEW shard \in Shards, \E x \in Shards : x > shard
    PROVE  LET next == Topic!Least({x \in Shards : x > shard}) IN
           /\ next \in Shards /\ shard < next
           /\ \A y \in Shards : y < next => y <= shard
           /\ Cardinality(Below(shard)) + 1 <= Cardinality(Below(next))
  <1> DEFINE later == {x \in Shards : x > shard}
  <1>1. PICK next : next = Topic!Least(later)
    OBVIOUS
  <1>2. later \subseteq Int /\ later # {} /\ later \in SUBSET Shards
    BY TopicLimits
  <1>3. IsFiniteSet(later)
    BY <1>2, TopicLimits, FS_Subset
  <1> HIDE DEF later
  <1>4. next \in later /\ \A x \in later : next <= x
    BY <1>1, <1>2, <1>3, LeastIsThere
  <1> USE DEF later
  <1>5. next \in Shards /\ shard < next
    BY <1>4, TopicLimits
  <1>6. ASSUME NEW y \in Shards, y < next PROVE y <= shard
    BY <1>4, <1>6, TopicLimits
  <1>7. Below(shard) \cup {shard} \in SUBSET Below(next) /\ shard \notin Below(shard)
    <2>1. shard \in Int /\ next \in Int /\ shard < next
      BY <1>5, TopicLimits
    <2>2. ASSUME NEW x \in Shards, x < shard PROVE x < next
      BY <2>1, <2>2, TopicLimits
    <2>3. shard \notin Below(shard)
      BY <2>1 DEF Below
    <2>4. QED
      BY <1>5, <2>2, <2>3 DEF Below
  <1>8. IsFiniteSet(Below(shard) \cup {shard}) /\ Cardinality(Below(shard) \cup {shard}) = Cardinality(Below(shard)) + 1
    BY <1>7, BelowIsFinite, FS_AddElement
  <1>9. Cardinality(Below(shard) \cup {shard}) <= Cardinality(Below(next))
    BY <1>5, <1>7, BelowIsFinite, FS_Subset
  <1>10. QED
    BY <1>1, <1>5, <1>6, <1>8, <1>9

\* A run that is done with its shard.
Passed(s, M, N) ==
    /\ s = [f \in TopicFields |-> s[f]]
    /\ s.at \in InShards /\ s.mode \in Modes /\ (s.incomplete = TRUE \/ s.incomplete = FALSE)
    /\ DOMAIN s.items = {} /\ DOMAIN s.topicOf \subseteq TopicVideos
    /\ \A v \in DOMAIN s.topicOf : s.topicOf[v] \in Topics
    /\ s.errors \in Nat /\ s.errors < MaxErrors
    /\ s.mode.manifest /\ s.status = "none"
    /\ s.shard \in Shards /\ s.failed \in Nat /\ s.failed <= Cardinality(Below(s.shard)) + 1
    /\ Promises(s) => \A v \in Unwritten(s) : RowOK(s, v, M[v])
    /\ Promises(s) => \A v \in Unwritten(s) : ShardOf[v] <= s.shard => Mirrors(s.mode, M[v], N[v])

LEMMA TopicNextShard ==
    ASSUME NEW s, NEW M, NEW N, Passed(s, M, N), M \in [TopicVideos -> Topic!Value]
    PROVE  TopicRunOn(Topic!NextShard(s), M, N)
  <1>1. CASE \E shard \in Shards : shard > s.shard
    <2>1. PICK next : next = Topic!Least({shard \in Shards : shard > s.shard})
      OBVIOUS
    <2>2. PICK t : t = [s EXCEPT !.at = "read", !.shard = next]
      OBVIOUS
    <2>3. Topic!NextShard(s) = t
      BY <1>1, <2>1, <2>2 DEF Topic!NextShard
    <2>4. s.shard \in Shards /\ s.failed \in Nat /\ s.failed <= Cardinality(Below(s.shard)) + 1
      BY DEF Passed
    <2>5. /\ next \in Shards /\ s.shard < next /\ \A y \in Shards : y < next => y <= s.shard
          /\ Cardinality(Below(s.shard)) + 1 <= Cardinality(Below(next))
      BY <1>1, <2>1, <2>4, NextInOrder
    <2>6. Cardinality(Below(s.shard)) \in Nat /\ Cardinality(Below(next)) \in Nat
      BY <2>4, <2>5, BelowIsFinite
    <2>7. s.failed <= Cardinality(Below(next))
      BY <2>4, <2>5, <2>6
    <2>8. /\ t = [f \in TopicFields |-> t[f]] /\ t.at = "read" /\ t.shard = next
          /\ t.mode = s.mode /\ t.items = s.items /\ t.topicOf = s.topicOf /\ t.skipped = s.skipped /\ t.touched = s.touched
          /\ t.incomplete = s.incomplete /\ t.errors = s.errors /\ t.failed = s.failed /\ t.status = s.status
      BY <2>2 DEF Passed, TopicFields
    <2>9. TopicRunTypes(t)
      BY <2>5, <2>7, <2>8 DEF Passed, TopicRunTypes, InShards
    <2>10. Promises(t) = Promises(s) /\ Unwritten(t) = Unwritten(s)
      BY <2>8 DEF Promises, Unwritten
    <2>11. \A v, topic : RowOK(t, v, topic) <=> RowOK(s, v, topic)
      BY <2>8 DEF RowOK, RowDone
    <2>12. ASSUME NEW v \in Unwritten(s), ShardOf[v] < next PROVE ShardOf[v] <= s.shard
      BY <2>12, <2>5, TopicLimits DEF Unwritten
    <2>13. TopicRunOn(t, M, N)
      BY <2>8, <2>9, <2>10, <2>11, <2>12 DEF Passed, TopicRunOn, InShards
    <2>14. QED
      BY <2>3, <2>13
  <1>2. CASE ~\E shard \in Shards : shard > s.shard
    <2>1. Topic!NextShard(s) = Topic!Ended(s)
      BY <1>2 DEF Topic!NextShard
    <2>2. ASSUME NEW v \in Unwritten(s) PROVE ShardOf[v] <= s.shard
      BY <1>2, TopicLimits DEF Unwritten, Passed
    <2>3. ASSUME Promises(s), NEW v \in Unwritten(s)
          PROVE  /\ M[v] # "absent" => RowDone(s, v, M[v])
                 /\ s.mode.manifest => Mirrors(s.mode, M[v], N[v])
      BY <2>2, <2>3 DEF Passed, RowOK
    <2>4. s.mode \in Modes
      BY DEF Passed
    <2>5. QED
      BY <2>1, <2>3, <2>4, TopicEnds
  <1>3. QED
    BY <1>1, <1>2

LEMMA TopicShardFailed ==
    ASSUME NEW s, NEW M, NEW N, TopicRunTypes(s), s.at \in InShards, M \in [TopicVideos -> Topic!Value]
    PROVE  TopicRunOn(Topic!ShardFailed(s), M, N)
  <1>1. PICK t : t = [s EXCEPT !.incomplete = TRUE, !.failed = @ + 1]
    OBVIOUS
  <1>2. /\ t = [f \in TopicFields |-> t[f]] /\ t.at = s.at /\ t.shard = s.shard
        /\ t.mode = s.mode /\ t.items = s.items /\ t.topicOf = s.topicOf
        /\ t.incomplete = TRUE /\ t.errors = s.errors /\ t.failed = s.failed + 1 /\ t.status = s.status
    BY <1>1 DEF TopicRunTypes, TopicFields
  <1>3. /\ s.shard \in Shards /\ s.failed \in Nat /\ s.failed <= Cardinality(Below(s.shard))
        /\ DOMAIN s.items = {} /\ s.mode.manifest /\ s.status = "none"
    BY DEF TopicRunTypes, InShards
  <1>4. t.failed \in Nat /\ t.failed <= Cardinality(Below(t.shard)) + 1
    BY <1>2, <1>3, BelowIsFinite
  <1>5. ~Promises(t)
    BY <1>2 DEF Promises
  <1>6. Passed(t, M, N)
    BY <1>2, <1>3, <1>4, <1>5 DEF TopicRunTypes, Passed
  <1>7. QED
    BY <1>1, <1>6, TopicNextShard DEF Topic!ShardFailed

LEMMA StepTopicStart ==
    ASSUME TopicInv, NEW r \in TopicRuns, Topic!Start(r)
    PROVE  TopicInv'
  <1>1. topicRun[r].at = "new" /\ UNCHANGED <<topicMaster, topicManifest, held>>
    BY DEF Topic!Start
  <1>2. PICK mode, t :
            /\ mode \in Modes
            /\ \/ t = [topicRun[r] EXCEPT !.mode = mode, !.at = "scan"]
               \/ t = Topic!Aborted([topicRun[r] EXCEPT !.mode = mode])
            /\ topicRun' = [topicRun EXCEPT ![r] = t]
    BY DEF Topic!Start, Topic!Goes
  <1>3. TopicTypes'
    BY <1>1, <1>2 DEF TopicInv, TopicTypes
  <1>4. TopicRunTypes(topicRun[r]) /\ topicRun[r] = [f \in TopicFields |-> topicRun[r][f]]
    BY DEF TopicInv, TopicRunOn, TopicRunTypes
  <1>5. CASE t = [topicRun[r] EXCEPT !.mode = mode, !.at = "scan"]
    <2>1. /\ t = [f \in TopicFields |-> t[f]] /\ t.at = "scan" /\ t.mode = mode
          /\ \A f \in TopicFields \ {"at", "mode"} : t[f] = topicRun[r][f]
      BY <1>4, <1>5 DEF TopicFields
    <2>2. TopicRunTypes(t)
      BY <1>1, <1>2, <1>4, <2>1 DEF TopicRunTypes, TopicFields, InShards
    <2>3. t.status = "none"
      BY <2>1, <2>2 DEF TopicRunTypes
    <2>4. TopicRunOn(t, topicMaster', topicManifest')
      BY <2>1, <2>2, <2>3 DEF TopicRunOn, InShards
    <2>5. QED
      BY <1>1, <1>2, <1>3, <2>4, TopicGoes
  <1>6. CASE t = Topic!Aborted([topicRun[r] EXCEPT !.mode = mode])
    <2>1. [topicRun[r] EXCEPT !.mode = mode].mode \in Modes
      BY <1>2, <1>4 DEF TopicFields
    <2>2. TopicRunOn(t, topicMaster', topicManifest')
      BY <1>6, <2>1, TopicAborts
    <2>3. QED
      BY <1>1, <1>2, <1>3, <2>2, TopicGoes
  <1>7. QED
    BY <1>2, <1>5, <1>6

LEMMA StepTopicScan ==
    ASSUME TopicInv, NEW r \in TopicRuns, Topic!Scan(r)
    PROVE  TopicInv'
  <1> DEFINE s == topicRun[r]
             read == [v \in {w \in TopicVideos : topicMaster[w] # "absent"} |-> topicMaster[v]]
  <1>1. s.at = "scan" /\ UNCHANGED <<topicMaster, topicManifest, held>>
    BY DEF Topic!Scan
  <1>2. PICK t :
            /\ t = [s EXCEPT !.at = "classify", !.items = read] \/ t = Topic!Aborted(s)
            /\ topicRun' = [topicRun EXCEPT ![r] = t]
    BY DEF Topic!Scan, Topic!Goes
  <1>3. TopicTypes'
    BY <1>1, <1>2 DEF TopicInv, TopicTypes
  <1>4. TopicRunTypes(s) /\ s = [f \in TopicFields |-> s[f]] /\ s.mode \in Modes
    BY DEF TopicInv, TopicRunOn, TopicRunTypes
  <1>5. CASE t = [s EXCEPT !.at = "classify", !.items = read]
    <2>1. /\ t = [f \in TopicFields |-> t[f]] /\ t.at = "classify" /\ t.items = read
          /\ \A f \in TopicFields \ {"at", "items"} : t[f] = s[f]
      BY <1>4, <1>5 DEF TopicFields
    <2>2. DOMAIN read \subseteq TopicVideos
      OBVIOUS
    <2>3. TopicRunTypes(t)
      BY <1>1, <1>4, <2>1, <2>2 DEF TopicRunTypes, TopicFields, InShards
    <2>4. t.status = "none"
      BY <2>1, <2>3 DEF TopicRunTypes
    <2>5. ASSUME NEW v \in Unwritten(t) PROVE RowOK(t, v, topicMaster'[v])
      BY <1>1, <2>1 DEF RowOK, Unwritten
    <2>6. TopicRunOn(t, topicMaster', topicManifest')
      BY <2>1, <2>3, <2>4, <2>5 DEF TopicRunOn, InShards
    <2>7. QED
      BY <1>1, <1>2, <1>3, <2>6, TopicGoes
  <1>6. CASE t = Topic!Aborted(s)
    <2>1. TopicRunOn(t, topicMaster', topicManifest')
      BY <1>4, <1>6, TopicAborts
    <2>2. QED
      BY <1>1, <1>2, <1>3, <2>1, TopicGoes
  <1>7. QED
    BY <1>2, <1>5, <1>6

LEMMA StepTopicToManifest ==
    ASSUME TopicInv, NEW r \in TopicRuns, Topic!ToManifest(r)
    PROVE  TopicInv'
  <1> DEFINE s == topicRun[r]
  <1>1. s.at = "classify" /\ DOMAIN s.items = {} /\ UNCHANGED <<topicMaster, topicManifest, held>>
    <2>1. DOMAIN <<>> = {}
      OBVIOUS
    <2>2. QED
      BY <2>1 DEF Topic!ToManifest
  <1>2. PICK t :
            /\ t = IF s.mode.manifest THEN [s EXCEPT !.at = "read", !.shard = Topic!Least(Shards)] ELSE Topic!Ended(s)
            /\ topicRun' = [topicRun EXCEPT ![r] = t]
    BY DEF Topic!ToManifest, Topic!Goes
  <1>3. TopicTypes'
    BY <1>1, <1>2 DEF TopicInv, TopicTypes
  <1>4. TopicRunTypes(s) /\ s = [f \in TopicFields |-> s[f]] /\ s.mode \in Modes
    BY DEF TopicInv, TopicRunOn, TopicRunTypes
  <1>5. Promises(s) => \A v \in Unwritten(s) : RowOK(s, v, topicMaster[v])
    BY <1>1 DEF TopicInv, TopicRunOn, InShards
  <1>6. CASE s.mode.manifest
    <2>1. t = [s EXCEPT !.at = "read", !.shard = Topic!Least(Shards)]
      BY <1>2, <1>6
    <2>2. /\ t = [f \in TopicFields |-> t[f]] /\ t.at = "read" /\ t.shard = Topic!Least(Shards)
          /\ \A f \in TopicFields \ {"at", "shard"} : t[f] = s[f]
      BY <1>4, <2>1 DEF TopicFields
    <2>3. Topic!Least(Shards) \in Shards /\ \A x \in Shards : Topic!Least(Shards) <= x
      BY LeastIsThere, TopicLimits
    <2>4. Cardinality(Below(t.shard)) \in Nat
      BY <2>2, <2>3, BelowIsFinite
    <2>5. t.failed = 0 /\ 0 <= Cardinality(Below(t.shard)) /\ t.mode = s.mode /\ t.items = s.items /\ t.status = "none"
      BY <1>1, <1>4, <2>2, <2>4 DEF TopicRunTypes, TopicFields, InShards
    <2>6. TopicRunTypes(t)
      BY <1>1, <1>4, <1>6, <2>2, <2>3, <2>5 DEF TopicRunTypes, TopicFields, InShards
    <2>7. \A v, topic : RowOK(t, v, topic) <=> RowOK(s, v, topic)
      BY <2>2 DEF RowOK, RowDone, TopicFields
    <2>8. Promises(t) = Promises(s) /\ Unwritten(t) = Unwritten(s)
      BY <2>2 DEF Promises, Unwritten, TopicFields
    <2>9. ASSUME NEW v \in Unwritten(t) PROVE ~(ShardOf[v] < t.shard)
      BY <2>2, <2>3, TopicLimits DEF Unwritten
    <2>10. TopicRunOn(t, topicMaster', topicManifest')
      BY <1>1, <1>5, <2>2, <2>5, <2>6, <2>7, <2>8, <2>9 DEF TopicRunOn, InShards
    <2>11. QED
      BY <1>1, <1>2, <1>3, <2>10, TopicGoes
  <1>7. CASE ~s.mode.manifest
    <2>1. t = Topic!Ended(s)
      BY <1>2, <1>7
    <2>2. topicMaster' \in [TopicVideos -> Topic!Value]
      BY <1>3 DEF TopicTypes
    <2>3. ASSUME Promises(s), NEW v \in Unwritten(s), topicMaster'[v] # "absent" PROVE RowDone(s, v, topicMaster'[v])
      BY <1>1, <1>5, <2>3 DEF RowOK
    <2>4. TopicRunOn(t, topicMaster', topicManifest')
      BY <1>4, <1>7, <2>1, <2>2, <2>3, TopicEnds
    <2>5. QED
      BY <1>1, <1>2, <1>3, <2>4, TopicGoes
  <1>8. QED
    BY <1>6, <1>7

LEMMA StepTopicInterrupted ==
    ASSUME TopicInv, NEW r \in TopicRuns, Topic!Interrupted(r)
    PROVE  TopicInv'
  <1>1. UNCHANGED <<topicMaster, topicManifest, held>> /\ topicRun' = [topicRun EXCEPT ![r] = Topic!Aborted(topicRun[r])]
    BY DEF Topic!Interrupted, Topic!Goes
  <1>2. TopicTypes'
    BY <1>1 DEF TopicInv, TopicTypes
  <1>3. topicRun[r].mode \in Modes
    BY DEF TopicInv, TopicRunOn, TopicRunTypes
  <1>4. TopicRunOn(Topic!Aborted(topicRun[r]), topicMaster', topicManifest')
    BY <1>3, TopicAborts
  <1>5. QED
    BY <1>1, <1>2, <1>4, TopicGoes

\* One row of the scan is dealt with.
Dealt(s, t, v, topic) ==
    /\ t = [f \in TopicFields |-> t[f]] /\ t.at = "classify" /\ t.mode = s.mode /\ t.items = Topic!Without(s.items, v)
    /\ t.topicOf = s.topicOf \/ t.topicOf = Topic!Mirrored(s, v, topic)
    /\ s.skipped \subseteq t.skipped
    /\ t.incomplete = s.incomplete \/ t.incomplete = TRUE
    /\ t.errors \in Nat /\ t.errors < MaxErrors
    /\ t.failed = s.failed /\ t.status = s.status /\ t.touched = s.touched

LEMMA TopicClassified ==
    ASSUME NEW s, NEW t, NEW M, NEW N, NEW M1, NEW v \in DOMAIN s.items, NEW topic \in Topics,
           TopicRunOn(s, M, N), s.at = "classify",
           Dealt(s, t, v, topic),
           \A w \in TopicVideos \ {v} : M1[w] = M[w],
           Promises(t) /\ v \in Unwritten(s) => (M1[v] # "absent" => RowDone(t, v, M1[v]))
    PROVE  TopicRunOn(t, M1, N)
  <1>1. TopicRunTypes(s)
    BY DEF TopicRunOn
  <1>2. /\ DOMAIN t.items = DOMAIN s.items \ {v} /\ \A w \in DOMAIN t.items : t.items[w] = s.items[w]
        /\ DOMAIN s.topicOf \subseteq DOMAIN t.topicOf /\ DOMAIN t.topicOf \subseteq DOMAIN s.topicOf \cup {v}
        /\ \A w \in DOMAIN t.topicOf : IF w = v THEN t.topicOf[w] \in Topics ELSE t.topicOf[w] = s.topicOf[w]
    <2>1. /\ DOMAIN t.items = DOMAIN s.items \ {v} /\ \A w \in DOMAIN t.items : t.items[w] = s.items[w]
      BY DEF Topic!Without, Dealt
    <2>2. CASE t.topicOf = s.topicOf
      BY <1>1, <2>1, <2>2 DEF TopicRunTypes
    <2>3. CASE t.topicOf = Topic!Mirrored(s, v, topic)
      BY <2>1, <2>3 DEF Topic!Mirrored
    <2>4. QED
      BY <2>2, <2>3 DEF Dealt
  <1>3. TopicRunTypes(t)
    <2>1. DOMAIN t.items \subseteq TopicVideos /\ DOMAIN t.topicOf \subseteq TopicVideos /\ \A w \in DOMAIN t.topicOf : t.topicOf[w] \in Topics
      BY <1>1, <1>2 DEF TopicRunTypes
    <2>2. s.failed = 0 /\ s.status = "none"
      BY <1>1 DEF TopicRunTypes, InShards
    <2>3. t.incomplete \in BOOLEAN
      BY <1>1 DEF TopicRunTypes, Dealt
    <2>4. QED
      BY <1>1, <2>1, <2>2, <2>3 DEF TopicRunTypes, InShards, Dealt
  <1>4. Promises(t) => Promises(s)
    BY DEF Promises, Dealt
  <1>5. ASSUME Promises(t), NEW w \in Unwritten(t) PROVE RowOK(t, w, M1[w])
    <2>1. w \in Unwritten(s) /\ RowOK(s, w, M[w])
      BY <1>4, <1>5 DEF TopicRunOn, Unwritten, InShards, Dealt
    <2>2. CASE w = v
      BY <1>2, <1>5, <2>1, <2>2 DEF RowOK, Dealt
    <2>3. CASE w # v
      <3>1. M1[w] = M[w]
        BY <2>1, <2>3 DEF Unwritten
      <3>2. CASE w \in DOMAIN s.items
        BY <1>2, <2>1, <2>3, <3>1, <3>2 DEF RowOK
      <3>3. CASE w \notin DOMAIN s.items
        BY <1>2, <2>1, <2>3, <3>1, <3>3 DEF RowOK, RowDone, Dealt
      <3>4. QED
        BY <3>2, <3>3
    <2>4. QED
      BY <2>2, <2>3
  <1>6. t.status = "none" /\ t.at = "classify"
    BY <1>1 DEF TopicRunTypes, Dealt
  <1>7. QED
    BY <1>3, <1>5, <1>6 DEF TopicRunOn, InShards

LEMMA VerdictMeans ==
    ASSUME NEW mode, NEW existing, NEW v, NEW verdict, verdict = Topic!Verdict(mode, existing, v)
    PROVE  /\ verdict = "keep" => (existing \in Topics /\ ~mode.reclassify) \/ existing = Title[v]
           /\ verdict = "skip" => mode.reclassify /\ ~Topic!InScope(mode, existing, v)
           /\ verdict = "report" => ~mode.execute
  BY DEF Topic!Verdict

\* What a classified row leaves of the run's record.
TopicRest(s, t) ==
    /\ t = [f \in TopicFields |-> t[f]] /\ t.at = s.at /\ t.mode = s.mode
    /\ t.failed = s.failed /\ t.status = s.status /\ t.touched = s.touched

LEMMA StepTopicClassify ==
    ASSUME TopicInv, NEW r \in TopicRuns, Topic!Classify(r)
    PROVE  TopicInv'
  <1> DEFINE s0 == topicRun[r]
             v0 == Topic!Least(DOMAIN s0.items)
             existing0 == s0.items[v0]
             verdict0 == Topic!Verdict(s0.mode, existing0, v0)
             next0 == [s0 EXCEPT !.items = Topic!Without(s0.items, v0)]
             keeps0 == [next0 EXCEPT !.topicOf = IF existing0 \in Topics THEN Topic!Mirrored(s0, v0, existing0) ELSE @]
  <1>0. \/ verdict0 = "keep" /\ topicRun' = [topicRun EXCEPT ![r] = keeps0] /\ UNCHANGED topicMaster
        \/ verdict0 = "skip" /\ topicRun' = [topicRun EXCEPT ![r] = [keeps0 EXCEPT !.skipped = @ \cup {v0}]] /\ UNCHANGED topicMaster
        \/ verdict0 = "error" /\ topicRun' = [topicRun EXCEPT ![r] = [next0 EXCEPT !.incomplete = TRUE]] /\ UNCHANGED topicMaster
        \/ /\ verdict0 = "report" /\ UNCHANGED topicMaster
           /\ topicRun' = [topicRun EXCEPT ![r] = [next0 EXCEPT !.topicOf = Topic!Mirrored(s0, v0, Title[v0])]]
        \/ /\ Topic!SetVideoTopic(v0, existing0)
           /\ topicRun' = [Topic!Wrote({v0}) EXCEPT ![r] = [next0 EXCEPT !.topicOf = Topic!Mirrored(s0, v0, Title[v0]), !.errors = 0]]
        \/ topicRun' = [topicRun EXCEPT ![r] = [next0 EXCEPT !.incomplete = TRUE, !.errors = 0]] /\ UNCHANGED topicMaster
        \/ /\ UNCHANGED topicMaster \/ Topic!SetVideoTopic(v0, existing0)
           /\ topicRun' = [Topic!Wrote({v0}) EXCEPT ![r] =
                              IF s0.errors + 1 = MaxErrors THEN Topic!Aborted(s0)
                              ELSE [next0 EXCEPT !.incomplete = TRUE, !.errors = @ + 1]]
    BY DEF Topic!Classify, Topic!Goes, Topic!Others
  <1> HIDE DEF s0, v0, existing0, verdict0, next0, keeps0
  <1>50. PICK s, v, existing, verdict, next, keeps :
            s = s0 /\ v = v0 /\ existing = existing0 /\ verdict = verdict0 /\ next = next0 /\ keeps = keeps0
    OBVIOUS
  <1>1. /\ s = topicRun[r] /\ v = Topic!Least(DOMAIN s.items) /\ existing = s.items[v]
        /\ verdict = Topic!Verdict(s.mode, existing, v)
        /\ next = [s EXCEPT !.items = Topic!Without(s.items, v)]
        /\ keeps = [next EXCEPT !.topicOf = IF existing \in Topics THEN Topic!Mirrored(s, v, existing) ELSE @]
    BY <1>50 DEF s0, v0, existing0, verdict0, next0, keeps0
  <1>2. s.at = "classify" /\ DOMAIN s.items # {} /\ UNCHANGED <<topicManifest, held>>
    BY <1>1 DEF Topic!Classify
  <1>3. TopicRunOn(s, topicMaster, topicManifest) /\ TopicRunTypes(s) /\ s = [f \in TopicFields |-> s[f]]
    BY <1>1 DEF TopicInv, TopicRunOn, TopicRunTypes
  <1>4. v \in DOMAIN s.items /\ v \in TopicVideos
    <2>2. DOMAIN s.items \in SUBSET TopicVideos
      BY <1>3 DEF TopicRunTypes
    <2>3. IsFiniteSet(DOMAIN s.items) /\ DOMAIN s.items \subseteq Int
      BY <2>2, TopicLimits, FS_Subset
    <2>4. QED
      BY <1>1, <1>2, <2>2, <2>3, LeastIsThere
  <1>5. /\ TopicRest(s, next) /\ next.items = Topic!Without(s.items, v) /\ next.topicOf = s.topicOf /\ next.skipped = s.skipped
        /\ next.incomplete = s.incomplete /\ next.errors = s.errors
    BY <1>1, <1>3 DEF TopicFields, TopicRest
  <1>6. /\ TopicRest(s, keeps) /\ keeps.items = Topic!Without(s.items, v) /\ keeps.skipped = s.skipped
        /\ keeps.incomplete = s.incomplete /\ keeps.errors = s.errors
    <2>1. PICK topics : keeps = [next EXCEPT !.topicOf = topics]
      BY <1>1
    <2>2. next = [f \in TopicFields |-> next[f]]
      BY <1>5 DEF TopicRest
    <2>3. keeps = [f \in TopicFields |-> IF f = "topicOf" THEN topics ELSE next[f]]
      BY <2>1, <2>2
    <2>4. keeps = [f \in TopicFields |-> keeps[f]]
      BY <2>3
    <2>5. keeps.at = next.at /\ keeps.mode = next.mode /\ keeps.failed = next.failed
      BY <2>3 DEF TopicFields
    <2>6. keeps.status = next.status /\ keeps.touched = next.touched
      BY <2>3 DEF TopicFields
    <2>7. keeps.items = next.items /\ keeps.skipped = next.skipped
      BY <2>3 DEF TopicFields
    <2>8. keeps.incomplete = next.incomplete /\ keeps.errors = next.errors
      BY <2>3 DEF TopicFields
    <2>9. /\ TopicRest(next, keeps) /\ keeps.items = next.items /\ keeps.skipped = next.skipped
          /\ keeps.incomplete = next.incomplete /\ keeps.errors = next.errors
      BY <2>4, <2>5, <2>6, <2>7, <2>8 DEF TopicRest
    <2>10. QED
      BY <1>5, <2>9 DEF TopicRest
  <1>7. /\ existing \in Topics => keeps.topicOf = Topic!Mirrored(s, v, existing)
        /\ existing \notin Topics => keeps.topicOf = s.topicOf
    <2>1. next = [f \in TopicFields |-> next[f]] /\ "topicOf" \in TopicFields
      BY <1>5 DEF TopicFields, TopicRest
    <2>2. keeps.topicOf = IF existing \in Topics THEN Topic!Mirrored(s, v, existing) ELSE next.topicOf
      BY <1>1, <2>1
    <2>3. QED
      BY <2>2, <1>5
  <1>8. Title[v] \in Topics /\ (existing \in Topics => existing # "absent")
    BY <1>4, TopicLimits
  <1>9. s.errors \in Nat /\ s.errors < MaxErrors /\ s.mode \in Modes
    BY <1>3 DEF TopicRunTypes
  <1>10. Promises(s) /\ v \in Unwritten(s) => (topicMaster[v] # "absent" => topicMaster[v] = existing)
    BY <1>1, <1>2, <1>3, <1>4 DEF TopicRunOn, RowOK
  <1>11. topicMaster' \in [TopicVideos -> Topic!Value] => TopicTypes'
    <2>1. topicRun' = [x \in TopicRuns |-> topicRun'[x]]
      BY DEF TopicInv, TopicTypes, Topic!Classify, Topic!Goes, Topic!Others, Topic!Wrote
    <2>2. QED
      BY <1>2, <2>1 DEF TopicInv, TopicTypes
  <1>12. \/ verdict = "keep" /\ topicRun' = [topicRun EXCEPT ![r] = keeps] /\ UNCHANGED topicMaster
         \/ verdict = "skip" /\ topicRun' = [topicRun EXCEPT ![r] = [keeps EXCEPT !.skipped = @ \cup {v}]] /\ UNCHANGED topicMaster
         \/ verdict = "error" /\ topicRun' = [topicRun EXCEPT ![r] = [next EXCEPT !.incomplete = TRUE]] /\ UNCHANGED topicMaster
         \/ /\ verdict = "report" /\ UNCHANGED topicMaster
            /\ topicRun' = [topicRun EXCEPT ![r] = [next EXCEPT !.topicOf = Topic!Mirrored(s, v, Title[v])]]
         \/ /\ Topic!SetVideoTopic(v, existing)
            /\ topicRun' = [Topic!Wrote({v}) EXCEPT ![r] = [next EXCEPT !.topicOf = Topic!Mirrored(s, v, Title[v]), !.errors = 0]]
         \/ topicRun' = [topicRun EXCEPT ![r] = [next EXCEPT !.incomplete = TRUE, !.errors = 0]] /\ UNCHANGED topicMaster
         \/ /\ UNCHANGED topicMaster \/ Topic!SetVideoTopic(v, existing)
            /\ topicRun' = [Topic!Wrote({v}) EXCEPT ![r] =
                               IF s.errors + 1 = MaxErrors THEN Topic!Aborted(s)
                               ELSE [next EXCEPT !.incomplete = TRUE, !.errors = @ + 1]]
    BY <1>0, <1>50
  <1>13. ASSUME Topic!SetVideoTopic(v, existing) \/ UNCHANGED topicMaster
         PROVE  /\ TopicTypes' /\ \A w \in TopicVideos \ {v} : topicMaster'[w] = topicMaster[w]
                /\ Topic!SetVideoTopic(v, existing) => topicMaster'[v] = Title[v]
    <2>1. topicMaster \in [TopicVideos -> Topic!Value] /\ Title[v] \in Topic!Value
      BY <1>8 DEF TopicInv, TopicTypes, Topic!Value
    <2>2. topicMaster' \in [TopicVideos -> Topic!Value]
      BY <1>13, <2>1 DEF Topic!SetVideoTopic
    <2>3. QED
      BY <1>4, <1>11, <1>13, <2>1, <2>2 DEF Topic!SetVideoTopic
  <1>14. PICK topic \in Topics : existing \in Topics => topic = existing
    BY <1>8
  <1>15. CASE verdict = "keep" /\ topicRun' = [topicRun EXCEPT ![r] = keeps] /\ UNCHANGED topicMaster
    <2>1. Dealt(s, keeps, v, topic)
      BY <1>2, <1>6, <1>7, <1>9, <1>14 DEF Dealt, TopicRest
    <2>2. existing \in Topics => v \in DOMAIN keeps.topicOf /\ keeps.topicOf[v] = existing
      BY <1>7 DEF Topic!Mirrored
    <2>3. keeps.mode = s.mode /\ (Promises(keeps) => Promises(s))
      BY <1>6 DEF TopicRest, Promises
    <2>4. existing \in Topics /\ (s.mode.reclassify => existing = Title[v])
      BY <1>1, <1>8, <1>15, VerdictMeans
    <2>5. Promises(keeps) /\ v \in Unwritten(s) => (topicMaster'[v] # "absent" => RowDone(keeps, v, topicMaster'[v]))
      BY <1>10, <1>15, <2>2, <2>3, <2>4 DEF RowDone
    <2>6. \A w \in TopicVideos \ {v} : topicMaster'[w] = topicMaster[w]
      BY <1>15
    <2>7. TopicRunOn(keeps, topicMaster', topicManifest)
      BY <1>2, <1>3, <1>4, <2>1, <2>5, <2>6, TopicClassified
    <2>8. TopicTypes'
      BY <1>13, <1>15
    <2>9. TopicRunOn(keeps, topicMaster', topicManifest')
      BY <1>2, <2>7
    <2>10. QED
      BY <1>2, <1>15, <2>9, <2>8, TopicGoes
  <1>16. CASE verdict = "skip" /\ topicRun' = [topicRun EXCEPT ![r] = [keeps EXCEPT !.skipped = @ \cup {v}]] /\ UNCHANGED topicMaster
    <2>0. PICK t : t = [keeps EXCEPT !.skipped = @ \cup {v}]
      OBVIOUS
    <2>1. TopicRest(s, t) /\ t.items = keeps.items /\ t.skipped = s.skipped \cup {v} /\ t.topicOf = keeps.topicOf
          /\ t.incomplete = s.incomplete /\ t.errors = s.errors
      BY <1>6, <2>0 DEF TopicRest, TopicFields
    <2>2. Dealt(s, t, v, topic)
      BY <1>2, <1>6, <1>7, <1>9, <1>14, <2>1 DEF Dealt, TopicRest
    <2>3. existing \in Topics => v \in DOMAIN t.topicOf /\ t.topicOf[v] = existing
      BY <1>7, <2>1 DEF Topic!Mirrored
    <2>4. t.mode = s.mode /\ (Promises(t) => Promises(s))
      BY <2>1 DEF TopicRest, Promises
    <2>5. s.mode.reclassify /\ ~Topic!InScope(s.mode, existing, v)
      BY <1>1, <1>16, VerdictMeans
    <2>6. Promises(t) /\ v \in Unwritten(s) => (topicMaster'[v] # "absent" => RowDone(t, v, topicMaster'[v]))
      BY <1>10, <1>16, <2>1, <2>3, <2>4, <2>5 DEF RowDone
    <2>7. \A w \in TopicVideos \ {v} : topicMaster'[w] = topicMaster[w]
      BY <1>16
    <2>8. TopicRunOn(t, topicMaster', topicManifest)
      BY <1>2, <1>3, <1>4, <2>2, <2>6, <2>7, TopicClassified
    <2>9. TopicTypes'
      BY <1>13, <1>16
    <2>10. TopicRunOn(t, topicMaster', topicManifest')
      BY <1>2, <2>8
    <2>11. QED
      BY <1>2, <1>16, <2>0, <2>10, <2>9, TopicGoes
  <1>17. ASSUME NEW errors \in Nat, errors < MaxErrors, NEW M1, \A w \in TopicVideos \ {v} : M1[w] = topicMaster[w],
                NEW t, t = [next EXCEPT !.incomplete = TRUE, !.errors = errors]
         PROVE  TopicRunOn(t, M1, topicManifest)
    <2>1. TopicRest(s, t) /\ t.incomplete = TRUE /\ t.errors = errors /\ t.items = Topic!Without(s.items, v)
          /\ t.skipped = s.skipped /\ t.topicOf = s.topicOf
      BY <1>5, <1>17 DEF TopicFields, TopicRest
    <2>2. ~Promises(t)
      BY <2>1 DEF Promises
    <2>3. Dealt(s, t, v, topic)
      BY <1>2, <1>17, <2>1 DEF Dealt, TopicRest
    <2>4. \A w \in TopicVideos \ {v} : M1[w] = topicMaster[w]
      BY <1>17
    <2>5. Promises(t) /\ v \in Unwritten(s) => (M1[v] # "absent" => RowDone(t, v, M1[v]))
      BY <2>2
    <2>6. QED
      BY <1>2, <1>3, <1>4, <1>14, <2>3, <2>4, <2>5, TopicClassified
  <1>18. CASE verdict = "error" /\ topicRun' = [topicRun EXCEPT ![r] = [next EXCEPT !.incomplete = TRUE]] /\ UNCHANGED topicMaster
    <2>0. PICK t : t = [next EXCEPT !.incomplete = TRUE]
      OBVIOUS
    <2>1. t = [next EXCEPT !.incomplete = TRUE, !.errors = s.errors]
      BY <1>5, <2>0 DEF TopicFields, TopicRest
    <2>2. \A w \in TopicVideos \ {v} : topicMaster'[w] = topicMaster[w]
      BY <1>18
    <2>3. TopicRunOn(t, topicMaster', topicManifest)
      BY <1>9, <1>17, <2>1, <2>2
    <2>4. TopicTypes'
      BY <1>13, <1>18
    <2>5. TopicRunOn(t, topicMaster', topicManifest')
      BY <1>2, <2>3
    <2>6. QED
      BY <1>2, <1>18, <2>0, <2>5, <2>4, TopicGoes
  <1>19. CASE /\ verdict = "report" /\ UNCHANGED topicMaster
              /\ topicRun' = [topicRun EXCEPT ![r] = [next EXCEPT !.topicOf = Topic!Mirrored(s, v, Title[v])]]
    <2>0. PICK t : t = [next EXCEPT !.topicOf = Topic!Mirrored(s, v, Title[v])]
      OBVIOUS
    <2>1. TopicRest(s, t) /\ t.topicOf = Topic!Mirrored(s, v, Title[v]) /\ t.items = Topic!Without(s.items, v)
          /\ t.skipped = s.skipped /\ t.incomplete = s.incomplete /\ t.errors = s.errors
      BY <1>5, <2>0 DEF TopicFields, TopicRest
    <2>2. ~s.mode.execute
      BY <1>1, <1>19, VerdictMeans
    <2>3. ~Promises(t)
      BY <2>1, <2>2 DEF Promises, TopicRest
    <2>4. Dealt(s, t, v, Title[v])
      BY <1>2, <1>9, <2>1 DEF Dealt, TopicRest
    <2>5. \A w \in TopicVideos \ {v} : topicMaster'[w] = topicMaster[w]
      BY <1>19
    <2>6. TopicRunOn(t, topicMaster', topicManifest)
      BY <1>2, <1>3, <1>4, <1>8, <2>3, <2>4, <2>5, TopicClassified
    <2>7. TopicTypes'
      BY <1>13, <1>19
    <2>8. TopicRunOn(t, topicMaster', topicManifest')
      BY <1>2, <2>6
    <2>9. QED
      BY <1>2, <1>19, <2>0, <2>8, <2>7, TopicGoes
  <1>20. CASE topicRun' = [topicRun EXCEPT ![r] = [next EXCEPT !.incomplete = TRUE, !.errors = 0]] /\ UNCHANGED topicMaster
    <2>0. PICK t : t = [next EXCEPT !.incomplete = TRUE, !.errors = 0]
      OBVIOUS
    <2>1. 0 < MaxErrors /\ \A w \in TopicVideos \ {v} : topicMaster'[w] = topicMaster[w]
      BY <1>20, TopicLimits
    <2>2. TopicRunOn(t, topicMaster', topicManifest)
      BY <1>17, <2>0, <2>1
    <2>3. TopicTypes'
      BY <1>13, <1>20
    <2>4. TopicRunOn(t, topicMaster', topicManifest')
      BY <1>2, <2>2
    <2>5. QED
      BY <1>2, <1>20, <2>0, <2>4, <2>3, TopicGoes
  <1>21. CASE /\ Topic!SetVideoTopic(v, existing)
              /\ topicRun' = [Topic!Wrote({v}) EXCEPT ![r] = [next EXCEPT !.topicOf = Topic!Mirrored(s, v, Title[v]), !.errors = 0]]
    <2>0. PICK t : t = [next EXCEPT !.topicOf = Topic!Mirrored(s, v, Title[v]), !.errors = 0]
      OBVIOUS
    <2>1. TopicRest(s, t) /\ t.topicOf = Topic!Mirrored(s, v, Title[v]) /\ t.items = Topic!Without(s.items, v)
          /\ t.skipped = s.skipped /\ t.incomplete = s.incomplete /\ t.errors = 0
      BY <1>5, <2>0 DEF TopicFields, TopicRest
    <2>2. v \in DOMAIN t.topicOf /\ t.topicOf[v] = Title[v]
      BY <2>1 DEF Topic!Mirrored
    <2>3. RowDone(t, v, topicMaster'[v])
      BY <1>8, <1>13, <1>21, <2>2 DEF RowDone
    <2>4. 0 < MaxErrors
      BY TopicLimits
    <2>5. Dealt(s, t, v, Title[v])
      BY <1>2, <2>1, <2>4 DEF Dealt, TopicRest
    <2>6. \A w \in TopicVideos \ {v} : topicMaster'[w] = topicMaster[w]
      BY <1>13, <1>21
    <2>7. TopicRunOn(t, topicMaster', topicManifest)
      BY <1>2, <1>3, <1>4, <1>8, <2>3, <2>5, <2>6, TopicClassified
    <2>8. TopicTypes' /\ TopicRunOn(t, topicMaster', topicManifest')
      BY <1>2, <1>13, <1>21, <2>7
    <2>9. QED
      BY <1>2, <1>21, <2>0, <2>6, <2>8, TopicOthers
  <1>22. CASE /\ UNCHANGED topicMaster \/ Topic!SetVideoTopic(v, existing)
              /\ topicRun' = [Topic!Wrote({v}) EXCEPT ![r] =
                                 IF s.errors + 1 = MaxErrors THEN Topic!Aborted(s)
                                 ELSE [next EXCEPT !.incomplete = TRUE, !.errors = @ + 1]]
    <2>0. PICK t : t = IF s.errors + 1 = MaxErrors THEN Topic!Aborted(s)
                       ELSE [next EXCEPT !.incomplete = TRUE, !.errors = @ + 1]
      OBVIOUS
    <2>1. \A w \in TopicVideos \ {v} : topicMaster'[w] = topicMaster[w]
      BY <1>13, <1>22
    <2>2. TopicRunOn(t, topicMaster', topicManifest)
      <3>1. CASE s.errors + 1 = MaxErrors
        BY <1>9, <2>0, <3>1, TopicAborts
      <3>2. CASE s.errors + 1 # MaxErrors
        <4>1. s.errors + 1 < MaxErrors /\ s.errors + 1 \in Nat
          BY <1>9, <3>2, TopicLimits
        <4>2. t = [next EXCEPT !.incomplete = TRUE, !.errors = s.errors + 1]
          BY <1>5, <2>0, <3>2 DEF TopicFields, TopicRest
        <4>3. QED
          BY <1>17, <2>1, <4>1, <4>2
      <3>3. QED
        BY <3>1, <3>2
    <2>3. TopicTypes' /\ TopicRunOn(t, topicMaster', topicManifest')
      BY <1>2, <1>13, <1>22, <2>2
    <2>4. QED
      BY <1>2, <1>22, <2>0, <2>1, <2>3, TopicOthers
  <1>23. QED
    BY <1>12, <1>15, <1>16, <1>18, <1>19, <1>20, <1>21, <1>22

\* An entry of the shard that nothing more is to be patched in mirrors its row.
LEMMA EntryMirrors ==
    ASSUME NEW s, NEW v \in TopicVideos, NEW topic, RowDone(s, v, topic), Undisputed(s, v, topicManifest[v]),
           Topic!PatchedEntry(s, v) = topicManifest[v]
    PROVE  Mirrors(s.mode, topic, topicManifest[v])
  <1> SUFFICES ASSUME topicManifest[v] # "absent", topic \in Topics, Topic!Concerns(s.mode, {topic, topicManifest[v]})
               PROVE  topicManifest[v] = topic
    BY DEF Mirrors
  <1>1. v \in DOMAIN s.topicOf /\ s.topicOf[v] = topic
    BY DEF RowDone
  <1>2. CASE topicManifest[v] = "none" \/ s.mode.reclassify
    BY <1>1, <1>2 DEF Topic!PatchedEntry, Topic!Concerns
  <1>3. CASE topicManifest[v] # "none" /\ ~s.mode.reclassify
    BY <1>1, <1>3 DEF Undisputed
  <1>4. QED
    BY <1>2, <1>3

LEMMA NothingToPatch ==
    ASSUME NEW s, Topic!Patchable(s) = {}, NEW v \in TopicVideos, ShardOf[v] = s.shard, topicManifest[v] # "absent"
    PROVE  Topic!PatchedEntry(s, v) = topicManifest[v]
  BY DEF Topic!Patchable, Topic!Entries

\* A run that has read or patched its shard, t but for what it has counted, goes on.
LEMMA ShardIsDone ==
    ASSUME TopicInv, NEW r \in TopicRuns, topicRun[r].at \in InShards, NEW t,
           t = [f \in TopicFields |-> t[f]], t.incomplete = TRUE \/ t.incomplete = FALSE,
           topicRun[r].incomplete => t.incomplete,
           \A f \in TopicFields \ {"incomplete", "planned"} : t[f] = topicRun[r][f],
           Promises(t) => Topic!Patchable(topicRun[r]) = {},
           Promises(t) => \A v \in Unwritten(t) : ShardOf[v] = t.shard => Undisputed(t, v, topicManifest[v])
    PROVE  TopicRunOn(Topic!NextShard(t), topicMaster, topicManifest)
  <1>1. PICK s : s = topicRun[r]
    OBVIOUS
  <1>2. TopicRunOn(s, topicMaster, topicManifest) /\ TopicRunTypes(s) /\ topicMaster \in [TopicVideos -> Topic!Value]
    BY <1>1 DEF TopicInv, TopicRunOn, TopicTypes
  <1>3. /\ t.at = s.at /\ t.mode = s.mode /\ t.items = s.items /\ t.topicOf = s.topicOf /\ t.skipped = s.skipped
        /\ t.errors = s.errors /\ t.shard = s.shard /\ t.failed = s.failed /\ t.status = s.status /\ t.touched = s.touched
    BY <1>1 DEF TopicFields
  <1>4. s.at \in InShards /\ s.shard \in Shards /\ s.failed \in Nat /\ s.failed <= Cardinality(Below(s.shard))
        /\ DOMAIN s.items = {} /\ s.mode.manifest /\ s.status = "none"
    BY <1>1, <1>2 DEF TopicRunTypes, InShards
  <1>5. t.failed <= Cardinality(Below(t.shard)) + 1
    BY <1>3, <1>4, BelowIsFinite
  <1>6. Promises(t) => Promises(s)
    BY <1>1, <1>3 DEF Promises
  <1>7. Unwritten(t) = Unwritten(s)
    BY <1>3 DEF Unwritten
  <1>8. ASSUME Promises(t), NEW v \in Unwritten(t) PROVE RowOK(s, v, topicMaster[v])
    BY <1>2, <1>4, <1>6, <1>7, <1>8 DEF TopicRunOn
  <1>9. \A v, topic : RowOK(t, v, topic) <=> RowOK(s, v, topic)
    BY <1>3 DEF RowOK, RowDone
  <1>10. ASSUME Promises(t), NEW v \in Unwritten(t), ShardOf[v] <= t.shard
         PROVE  Mirrors(t.mode, topicMaster[v], topicManifest[v])
    <2>1. v \in TopicVideos /\ v \in Unwritten(s) /\ ShardOf[v] \in Int /\ s.shard \in Int
      BY <1>4, <1>7, <1>10, TopicLimits DEF Unwritten
    <2>2. CASE ShardOf[v] < s.shard
      <3>1. Mirrors(s.mode, topicMaster[v], topicManifest[v])
        BY <1>2, <1>4, <1>6, <1>10, <2>1, <2>2 DEF TopicRunOn
      <3>2. QED
        BY <3>1, <1>3
    <2>3. CASE ShardOf[v] = s.shard
      <3>1. Undisputed(s, v, topicManifest[v])
        BY <1>3, <1>10, <2>3 DEF Undisputed
      <3>2. CASE topicMaster[v] = "absent" \/ topicManifest[v] = "absent"
        BY <3>2, TopicLimits DEF Mirrors
      <3>3. CASE topicMaster[v] # "absent" /\ topicManifest[v] # "absent"
        <4>1. Topic!PatchedEntry(s, v) = topicManifest[v]
          BY <1>1, <1>10, <2>1, <2>3, <3>3, NothingToPatch
        <4>2. RowDone(s, v, topicMaster[v])
          BY <1>4, <1>8, <1>10, <3>3 DEF RowOK
        <4>3. Mirrors(s.mode, topicMaster[v], topicManifest[v])
          BY <2>1, <3>1, <4>1, <4>2, EntryMirrors
        <4>4. QED
          BY <4>3, <1>3
      <3>4. QED
        BY <3>2, <3>3
    <2>4. QED
      BY <1>3, <1>10, <2>1, <2>2, <2>3
  <1>11. Passed(t, topicMaster, topicManifest)
    <2>1. t.mode \in Modes /\ t.errors \in Nat /\ t.errors < MaxErrors /\ DOMAIN t.topicOf \subseteq TopicVideos
          /\ \A v \in DOMAIN t.topicOf : t.topicOf[v] \in Topics
      BY <1>2, <1>3 DEF TopicRunTypes
    <2>2. Promises(t) => \A v \in Unwritten(t) : RowOK(t, v, topicMaster[v])
      BY <1>8, <1>9
    <2>3. QED
      BY <1>3, <1>4, <1>5, <1>10, <2>1, <2>2 DEF Passed
  <1>12. QED
    BY <1>2, <1>11, TopicNextShard

LEMMA StepTopicReadShard ==
    ASSUME TopicInv, NEW r \in TopicRuns, Topic!ReadShard(r)
    PROVE  TopicInv'
  <1>1. PICK s : s = topicRun[r]
    OBVIOUS
  <1>2. PICK u : u = [s EXCEPT !.planned = @ + Topic!Cardinality(Topic!Patchable(s)),
                         !.incomplete = @ \/ Topic!StillMissing(s) \/ (Topic!Divergent(s) /\ ~s.mode.reclassify)]
    OBVIOUS
  <1>3. /\ s.at = "read" /\ UNCHANGED <<topicMaster, topicManifest, held>>
        /\ \/ topicRun' = [topicRun EXCEPT ![r] = IF Topic!Patchable(s) # {} /\ u.mode.execute THEN [u EXCEPT !.at = "patch"]
                                                  ELSE Topic!NextShard(u)]
           \/ topicRun' = [topicRun EXCEPT ![r] = Topic!ShardFailed(s)]
    BY <1>1, <1>2 DEF Topic!ReadShard, Topic!Goes
  <1>4. TopicRunOn(s, topicMaster, topicManifest) /\ TopicRunTypes(s) /\ s = [f \in TopicFields |-> s[f]]
        /\ topicMaster \in [TopicVideos -> Topic!Value]
    BY <1>1 DEF TopicInv, TopicRunOn, TopicRunTypes, TopicTypes
  <1>5. TopicTypes'
    BY <1>3 DEF TopicInv, TopicTypes
  <1>6. /\ u = [f \in TopicFields |-> u[f]] /\ \A f \in TopicFields \ {"incomplete", "planned"} : u[f] = s[f]
    BY <1>2, <1>4 DEF TopicFields
  <1>7. u.incomplete = (s.incomplete \/ Topic!StillMissing(s) \/ (Topic!Divergent(s) /\ ~s.mode.reclassify))
    <2>1. "incomplete" \in TopicFields
      BY DEF TopicFields
    <2>2. QED
      BY <1>2, <1>4, <2>1
  <1>8. u.incomplete = TRUE \/ u.incomplete = FALSE
    BY <1>7
  <1>9. u.at = s.at /\ u.mode = s.mode /\ u.items = s.items /\ u.topicOf = s.topicOf /\ u.skipped = s.skipped
        /\ u.errors = s.errors /\ u.shard = s.shard /\ u.failed = s.failed /\ u.status = s.status /\ u.touched = s.touched
    BY <1>6 DEF TopicFields
  <1>10. s.incomplete => u.incomplete
    BY <1>7
  <1>11. ASSUME Promises(u), NEW v \in Unwritten(u), ShardOf[v] = u.shard
         PROVE  Undisputed(u, v, topicManifest[v])
    <2>1. ~(Topic!Divergent(s) /\ ~s.mode.reclassify)
      BY <1>7, <1>11 DEF Promises
    <2>2. v \in TopicVideos /\ ShardOf[v] = s.shard
      BY <1>9, <1>11 DEF Unwritten
    <2>3. QED
      BY <1>9, <2>1, <2>2 DEF Undisputed, Topic!Divergent, Topic!Entries
  <1>12. CASE topicRun' = [topicRun EXCEPT ![r] = IF Topic!Patchable(s) # {} /\ u.mode.execute THEN [u EXCEPT !.at = "patch"]
                                                  ELSE Topic!NextShard(u)]
    <2>1. CASE Topic!Patchable(s) # {} /\ u.mode.execute
      <3>1. PICK t : t = [u EXCEPT !.at = "patch"]
        OBVIOUS
      <3>2. /\ t = [f \in TopicFields |-> t[f]] /\ t.at = "patch" /\ t.mode = s.mode /\ t.items = s.items
            /\ t.topicOf = s.topicOf /\ t.skipped = s.skipped /\ t.errors = s.errors /\ t.shard = s.shard
            /\ t.failed = s.failed /\ t.status = s.status /\ t.touched = s.touched /\ t.incomplete = u.incomplete
        BY <1>6, <1>9, <3>1 DEF TopicFields
      <3>3. t.incomplete \in BOOLEAN
        BY <1>8, <3>2
      <3>4. TopicRunTypes(t)
        BY <1>3, <1>4, <1>9, <2>1, <3>2, <3>3 DEF TopicRunTypes, InShards
      <3>5. Promises(t) => Promises(s) /\ Promises(u)
        BY <1>9, <1>10, <3>2 DEF Promises
      <3>6. Unwritten(t) = Unwritten(s) /\ Unwritten(t) = Unwritten(u)
        BY <1>9, <3>2 DEF Unwritten
      <3>7. \A v, topic : RowOK(t, v, topic) <=> RowOK(s, v, topic)
        BY <3>2 DEF RowOK, RowDone
      <3>8. \A v, entry : Undisputed(t, v, entry) <=> Undisputed(u, v, entry)
        BY <1>9, <3>2 DEF Undisputed
      <3>9. s.at \in InShards /\ s.status = "none"
        BY <1>3, <1>4 DEF TopicRunTypes, InShards
      <3>10. ASSUME Promises(t) PROVE /\ \A v \in Unwritten(t) : RowOK(t, v, topicMaster[v])
                                      /\ \A v \in Unwritten(t) : ShardOf[v] < t.shard => Mirrors(t.mode, topicMaster[v], topicManifest[v])
        BY <1>4, <3>2, <3>5, <3>6, <3>7, <3>9, <3>10 DEF TopicRunOn
      <3>11. ASSUME Promises(t), NEW v \in Unwritten(t), ShardOf[v] = t.shard PROVE Undisputed(t, v, topicManifest[v])
        BY <1>9, <1>11, <3>2, <3>5, <3>6, <3>8, <3>11
      <3>12. TopicRunOn(t, topicMaster, topicManifest)
        BY <3>2, <3>4, <3>9, <3>10, <3>11 DEF TopicRunOn
      <3>13. topicRun' = [topicRun EXCEPT ![r] = t] /\ TopicRunOn(t, topicMaster', topicManifest')
        BY <1>3, <1>12, <2>1, <3>1, <3>12
      <3>14. QED
        BY <1>3, <1>5, <3>13, TopicGoes
    <2>2. CASE ~(Topic!Patchable(s) # {} /\ u.mode.execute)
      <3>1. Promises(u) => Topic!Patchable(s) = {}
        BY <2>2 DEF Promises
      <3>2. PICK t : t = Topic!NextShard(u)
        OBVIOUS
      <3>3. s.at \in InShards
        BY <1>3 DEF InShards
      <3>4. TopicRunOn(t, topicMaster, topicManifest)
        BY <1>1, <1>6, <1>8, <1>10, <1>11, <3>1, <3>2, <3>3, ShardIsDone
      <3>5. topicRun' = [topicRun EXCEPT ![r] = t] /\ TopicRunOn(t, topicMaster', topicManifest')
        BY <1>3, <1>12, <2>2, <3>2, <3>4
      <3>6. QED
        BY <1>3, <1>5, <3>5, TopicGoes
    <2>3. QED
      BY <2>1, <2>2
  <1>13. CASE topicRun' = [topicRun EXCEPT ![r] = Topic!ShardFailed(s)]
    <2>1. TopicRunOn(Topic!ShardFailed(s), topicMaster, topicManifest)
      BY <1>3, <1>4, TopicShardFailed DEF InShards
    <2>2. TopicRunOn(Topic!ShardFailed(s), topicMaster', topicManifest')
      BY <1>3, <2>1
    <2>3. QED
      BY <1>3, <1>5, <1>13, <2>2, TopicGoes
  <1>14. QED
    BY <1>3, <1>12, <1>13

LEMMA StepTopicPatchShard ==
    ASSUME TopicInv, NEW r \in TopicRuns, Topic!PatchShard(r)
    PROVE  TopicInv'
  <1>1. PICK s, W : s = topicRun[r] /\ W = Topic!Patchable(s)
    OBVIOUS
  <1>2. /\ s.at = "patch" /\ UNCHANGED <<topicMaster, held>>
        /\ \/ topicManifest' = topicManifest
           \/ topicManifest' = [v \in TopicVideos |-> IF v \in W THEN Topic!PatchedEntry(s, v) ELSE topicManifest[v]]
        /\ \/ /\ topicManifest' = [v \in TopicVideos |-> IF v \in W THEN Topic!PatchedEntry(s, v) ELSE topicManifest[v]]
              /\ topicRun' = [Topic!Wrote(W) EXCEPT ![r] = [s EXCEPT !.at = "verify", !.patched = @ + Topic!Cardinality(W)]]
           \/ topicRun' = [Topic!Wrote(W) EXCEPT ![r] = Topic!ShardFailed(s)]
    BY <1>1 DEF Topic!PatchShard, Topic!Others
  <1>3. TopicRunOn(s, topicMaster, topicManifest) /\ TopicRunTypes(s) /\ s = [f \in TopicFields |-> s[f]]
    BY <1>1 DEF TopicInv, TopicRunOn, TopicRunTypes
  <1>4. topicMaster \in [TopicVideos -> Topic!Value] /\ topicManifest \in [TopicVideos -> Topic!Value]
    BY DEF TopicInv, TopicTypes
  <1>5. ASSUME NEW v \in W
        PROVE  v \in TopicVideos /\ ShardOf[v] = s.shard /\ v \in DOMAIN s.topicOf /\ Topic!PatchedEntry(s, v) = s.topicOf[v]
    BY <1>1, <1>5 DEF Topic!Patchable, Topic!PatchedEntry, Topic!Entries
  <1>6. topicManifest' \in [TopicVideos -> Topic!Value]
    <2>1. ASSUME NEW v \in W PROVE Topic!PatchedEntry(s, v) \in Topic!Value
      BY <1>3, <1>5, <2>1 DEF TopicRunTypes, Topic!Value
    <2>2. QED
      BY <1>2, <1>4, <2>1
  <1>7. TopicTypes'
    <2>1. topicRun' = [x \in TopicRuns |-> topicRun'[x]]
      BY <1>2 DEF Topic!Wrote
    <2>2. QED
      BY <1>2, <1>6, <2>1 DEF TopicInv, TopicTypes
  <1>8. \A v \in TopicVideos \ W : topicMaster'[v] = topicMaster[v] /\ topicManifest'[v] = topicManifest[v]
    BY <1>2
  <1>9. CASE /\ topicManifest' = [v \in TopicVideos |-> IF v \in W THEN Topic!PatchedEntry(s, v) ELSE topicManifest[v]]
             /\ topicRun' = [Topic!Wrote(W) EXCEPT ![r] = [s EXCEPT !.at = "verify", !.patched = @ + Topic!Cardinality(W)]]
    <2>1. PICK t : t = [s EXCEPT !.at = "verify", !.patched = @ + Topic!Cardinality(W)]
      OBVIOUS
    <2>2. /\ t = [f \in TopicFields |-> t[f]] /\ t.at = "verify" /\ t.mode = s.mode /\ t.items = s.items
          /\ t.topicOf = s.topicOf /\ t.skipped = s.skipped /\ t.errors = s.errors /\ t.shard = s.shard
          /\ t.failed = s.failed /\ t.status = s.status /\ t.touched = s.touched /\ t.incomplete = s.incomplete
      BY <1>3, <2>1 DEF TopicFields
    <2>3. TopicRunTypes(t) /\ s.status = "none" /\ s.shard \in Shards
      BY <1>2, <1>3, <2>2 DEF TopicRunTypes, InShards
    <2>4. Promises(t) = Promises(s) /\ Unwritten(t) = Unwritten(s)
      BY <2>2 DEF Promises, Unwritten
    <2>5. \A v, topic : RowOK(t, v, topic) <=> RowOK(s, v, topic)
      BY <2>2 DEF RowOK, RowDone
    <2>6. ASSUME Promises(t) PROVE \A v \in Unwritten(t) : RowOK(t, v, topicMaster'[v])
      BY <1>2, <1>3, <2>4, <2>5, <2>6 DEF TopicRunOn, InShards
    <2>7. ASSUME Promises(t), NEW v \in Unwritten(t), ShardOf[v] < t.shard
          PROVE  Mirrors(t.mode, topicMaster'[v], topicManifest'[v])
      <3>1. v \in TopicVideos /\ ShardOf[v] # s.shard
        BY <2>2, <2>3, <2>7, TopicLimits DEF Unwritten
      <3>2. Mirrors(s.mode, topicMaster[v], topicManifest[v])
        BY <1>2, <1>3, <2>2, <2>4, <2>7 DEF TopicRunOn, InShards
      <3>3. topicManifest'[v] = topicManifest[v] /\ topicMaster'[v] = topicMaster[v]
        BY <1>5, <1>8, <3>1
      <3>4. QED
        BY <2>2, <3>2, <3>3
    <2>8. ASSUME Promises(t), NEW v \in Unwritten(t), ShardOf[v] = t.shard
          PROVE  Undisputed(t, v, topicManifest'[v])
      <3>1. v \in TopicVideos
        BY <2>8 DEF Unwritten
      <3>2. Undisputed(s, v, topicManifest[v])
        BY <1>2, <1>3, <2>2, <2>4, <2>8 DEF TopicRunOn, InShards
      <3>3. CASE v \in W
        <4>1. topicManifest'[v] = s.topicOf[v]
          BY <1>5, <1>9, <3>1, <3>3
        <4>2. QED
          BY <2>2, <4>1 DEF Undisputed
      <3>4. CASE v \notin W
        BY <1>8, <2>2, <3>1, <3>2, <3>4 DEF Undisputed
      <3>5. QED
        BY <3>3, <3>4
    <2>9. TopicRunOn(t, topicMaster', topicManifest')
      BY <2>2, <2>3, <2>6, <2>7, <2>8 DEF TopicRunOn
    <2>10. QED
      BY <1>7, <1>8, <1>9, <2>1, <2>9, TopicOthers
  <1>10. CASE topicRun' = [Topic!Wrote(W) EXCEPT ![r] = Topic!ShardFailed(s)]
    <2>1. s.at \in InShards /\ topicMaster' \in [TopicVideos -> Topic!Value]
      BY <1>2, <1>4 DEF InShards
    <2>2. TopicRunOn(Topic!ShardFailed(s), topicMaster', topicManifest')
      BY <1>3, <2>1, TopicShardFailed
    <2>3. QED
      BY <1>7, <1>8, <1>10, <2>2, TopicOthers
  <1>11. QED
    BY <1>2, <1>9, <1>10

LEMMA StepTopicVerify ==
    ASSUME TopicInv, NEW r \in TopicRuns, Topic!Verify(r)
    PROVE  TopicInv'
  <1>1. PICK s : s = topicRun[r]
    OBVIOUS
  <1>2. PICK u : u = [s EXCEPT !.incomplete = @ \/ Topic!Patchable(s) # {}]
    OBVIOUS
  <1>3. /\ s.at = "verify" /\ UNCHANGED <<topicMaster, topicManifest, held>>
        /\ \/ topicRun' = [topicRun EXCEPT ![r] = Topic!NextShard(u)]
           \/ topicRun' = [topicRun EXCEPT ![r] = Topic!ShardFailed(s)]
    BY <1>1, <1>2 DEF Topic!Verify, Topic!Goes
  <1>4. TopicRunOn(s, topicMaster, topicManifest) /\ TopicRunTypes(s) /\ s = [f \in TopicFields |-> s[f]]
        /\ topicMaster \in [TopicVideos -> Topic!Value]
    BY <1>1 DEF TopicInv, TopicRunOn, TopicRunTypes, TopicTypes
  <1>5. TopicTypes'
    BY <1>3 DEF TopicInv, TopicTypes
  <1>6. /\ u = [f \in TopicFields |-> u[f]] /\ \A f \in TopicFields \ {"incomplete", "planned"} : u[f] = s[f]
    BY <1>2, <1>4 DEF TopicFields
  <1>7. u.incomplete = (s.incomplete \/ Topic!Patchable(s) # {})
    <2>1. "incomplete" \in TopicFields
      BY DEF TopicFields
    <2>2. QED
      BY <1>2, <1>4, <2>1
  <1>8. u.incomplete = TRUE \/ u.incomplete = FALSE
    BY <1>7
  <1>9. u.mode = s.mode /\ u.topicOf = s.topicOf /\ u.shard = s.shard /\ u.touched = s.touched
    BY <1>6 DEF TopicFields
  <1>10. s.incomplete => u.incomplete
    BY <1>7
  <1>11. ASSUME Promises(u), NEW v \in Unwritten(u), ShardOf[v] = u.shard
         PROVE  Undisputed(u, v, topicManifest[v])
    <2>1. Promises(s) /\ v \in Unwritten(s)
      BY <1>9, <1>10, <1>11 DEF Promises, Unwritten
    <2>2. Undisputed(s, v, topicManifest[v])
      BY <1>3, <1>4, <1>9, <1>11, <2>1 DEF TopicRunOn
    <2>3. QED
      BY <1>9, <2>2 DEF Undisputed
  <1>12. CASE topicRun' = [topicRun EXCEPT ![r] = Topic!NextShard(u)]
    <2>1. Promises(u) => Topic!Patchable(s) = {}
      BY <1>7 DEF Promises
    <2>2. s.at \in InShards
      BY <1>3 DEF InShards
    <2>3. TopicRunOn(Topic!NextShard(u), topicMaster, topicManifest)
      BY <1>1, <1>6, <1>8, <1>10, <1>11, <2>1, <2>2, ShardIsDone
    <2>4. TopicRunOn(Topic!NextShard(u), topicMaster', topicManifest')
      BY <1>3, <2>3
    <2>5. QED
      BY <1>3, <1>5, <1>12, <2>4, TopicGoes
  <1>13. CASE topicRun' = [topicRun EXCEPT ![r] = Topic!ShardFailed(s)]
    <2>1. TopicRunOn(Topic!ShardFailed(s), topicMaster, topicManifest)
      BY <1>3, <1>4, TopicShardFailed DEF InShards
    <2>2. TopicRunOn(Topic!ShardFailed(s), topicMaster', topicManifest')
      BY <1>3, <2>1
    <2>3. QED
      BY <1>3, <1>5, <1>13, <2>2, TopicGoes
  <1>14. QED
    BY <1>3, <1>12, <1>13

\* The runs hear of what the other writers have written.
LEMMA TopicWritten ==
    ASSUME TopicInv, TopicTypes', NEW W, topicRun' = Topic!Wrote(W),
           \A v \in TopicVideos \ W : topicMaster'[v] = topicMaster[v] /\ topicManifest'[v] = topicManifest[v]
    PROVE  TopicInv'
  <1>1. ASSUME NEW x \in TopicRuns PROVE TopicRunOn(topicRun'[x], topicMaster', topicManifest')
    <2>1. topicRun'[x] = Told(topicRun[x], W)
      BY DEF Topic!Wrote, Told
    <2>2. TopicRunOn(topicRun[x], topicMaster, topicManifest)
      BY DEF TopicInv
    <2>3. QED
      BY <2>1, <2>2, TopicTouched
  <1>2. QED
    BY <1>1 DEF TopicInv

LEMMA StepTopicOtherWriters ==
    ASSUME TopicInv, NEW v \in TopicVideos, Topic!WorkerReads(v) \/ Topic!WorkerPuts(v) \/ Topic!Discover(v)
    PROVE  TopicInv'
  <1>1. CASE Topic!WorkerReads(v)
    <2>1. TopicTypes'
      BY <1>1 DEF TopicInv, TopicTypes, Topic!WorkerReads
    <2>2. QED
      BY <1>1, <2>1 DEF TopicInv, Topic!WorkerReads
  <1>2. CASE Topic!WorkerPuts(v)
    <2>1. PICK W : W = IF topicMaster[v] = held[v] THEN {} ELSE {v}
      OBVIOUS
    <2>2. /\ topicMaster' = [topicMaster EXCEPT ![v] = held[v]] /\ held' = [held EXCEPT ![v] = "absent"]
          /\ topicRun' = Topic!Wrote(W) /\ UNCHANGED topicManifest
      BY <1>2, <2>1 DEF Topic!WorkerPuts
    <2>3. TopicTypes'
      BY <2>2 DEF TopicInv, TopicTypes, Topic!Wrote, Topic!Value
    <2>4. \A w \in TopicVideos \ W : topicMaster'[w] = topicMaster[w]
      BY <2>1, <2>2 DEF TopicInv, TopicTypes
    <2>5. QED
      BY <2>2, <2>3, <2>4, TopicWritten
  <1>3. CASE Topic!Discover(v)
    <2>1. Title[v] \in Topic!Value
      BY TopicLimits DEF Topic!Value
    <2>2. /\ \/ topicMaster' = [topicMaster EXCEPT ![v] = Title[v]] /\ UNCHANGED topicManifest
             \/ topicManifest' = [topicManifest EXCEPT ![v] = Title[v]] /\ UNCHANGED topicMaster
          /\ topicRun' = Topic!Wrote({v}) /\ UNCHANGED held
      BY <1>3 DEF Topic!Discover
    <2>3. TopicTypes'
      BY <2>1, <2>2 DEF TopicInv, TopicTypes, Topic!Wrote
    <2>4. \A w \in TopicVideos \ {v} : topicMaster'[w] = topicMaster[w] /\ topicManifest'[w] = topicManifest[w]
      BY <2>2 DEF TopicInv, TopicTypes
    <2>5. QED
      BY <2>2, <2>3, <2>4, TopicWritten
  <1>4. QED
    BY <1>1, <1>2, <1>3

LEMMA StepTopic == TopicInv /\ Topic!Next => TopicInv'
  BY StepTopicStart, StepTopicScan, StepTopicClassify, StepTopicToManifest, StepTopicReadShard, StepTopicPatchShard,
     StepTopicVerify, StepTopicInterrupted, StepTopicOtherWriters DEF Topic!Next

LEMMA TopicStands == TopicInv /\ UNCHANGED topicVars => TopicInv'
  BY DEF TopicInv, TopicTypes, topicVars

-----------------------------------------------------------------------------
(* The Premieres *)

FoundFields == {"at", "time", "known", "found", "record", "quota", "asked", "facts", "new", "seen", "version", "attempt"}
Flying(s) == s.at \notin {"start", "over"}

\* What a discovery run has read and worked out.
FoundRunOK(s) ==
    /\ s = [f \in FoundFields |-> s[f]]
    /\ s.time \in 0..foundNow /\ (Flying(s) => ranking.date <= Announcement!Date(s.time))
    /\ s.found \subseteq FoundVideos /\ s.record \subseteq s.found /\ s.asked \subseteq FoundVideos
    /\ s.found \cap s.known = {} /\ s.asked \cap (s.known \cup s.found) = {}
    /\ s.at \in {"start", "discover"} => s.found = {} /\ s.asked = {}
    /\ DOMAIN s.facts \subseteq s.asked /\ \A v \in DOMAIN s.facts : s.facts[v].premiere => FoundKind[v] = "premiere"
    /\ DOMAIN s.new \subseteq s.asked /\ \A v \in DOMAIN s.new : s.new[v] => v \in premieresAnnounced
    /\ s.at \notin {"announce", "read", "write"} => DOMAIN s.facts = {} /\ DOMAIN s.new = {}
    /\ DOMAIN s.seen \subseteq FoundVideos /\ \A v \in DOMAIN s.seen : s.seen[v].premiere => v \in premieresAnnounced
    /\ s.at = "write" => s.version \in Nat /\ s.version <= version /\ (s.version = version => s.seen = decisions)
    /\ s.at = "record" => \A v \in s.found \ s.record : v \in premieresAnnounced
    /\ s.at \in {"upsert", "patch"} => \A v \in s.found : v \in premieresAnnounced \/ <<Announcement!Date(s.time), v>> \in foundEvents
    /\ s.at = "patch" => s.found \subseteq foundMaster

FoundTypes ==
    /\ foundNow \in 0..FoundMaxNow /\ foundStart \in [FoundVideos -> 0..FoundMaxNow]
    /\ foundMaster \subseteq FoundVideos /\ foundManifest \subseteq foundMaster
    /\ foundEvents \subseteq (0..Announcement!Date(FoundMaxNow)) \X FoundVideos
    /\ Announcement!Decided \subseteq FoundVideos /\ Cardinality(Announcement!Decided) <= MaxEntries /\ version \in Nat
    /\ ranking.date \in 0..Announcement!Date(foundNow)
    /\ excused \subseteq FoundVideos /\ discovery = [r \in Discoveries |-> discovery[r]]

\* Where a video that the ranking lacks is listed from.
Listable(v) == \E d \in ranking.date..Announcement!Date(foundNow) : <<d, v>> \in foundEvents

FoundWorld ==
    /\ FoundTypes
    /\ premieresAnnounced \subseteq FoundVideos /\ \A v \in premieresAnnounced : FoundKind[v] = "premiere" /\ Announcement!HasEvent(v)
    /\ \A v \in foundMaster : Announcement!HasEvent(v)
    /\ Announcement!AnnouncedVideoIds(decisions) \subseteq premieresAnnounced
    /\ \A v \in foundManifest \ (excused \cup premieresAnnounced \cup ranking.videos) : Listable(v)

\* What one run knows of a video that nothing has gone wrong with: no other run is on its way.
FoundClaims(s, v) ==
    /\ v \in foundManifest => v \in s.known \cup s.found
    /\ v \in foundManifest /\ s.at \in {"discover", "announced", "record", "upsert", "patch"} => v \in s.known
    /\ s.at = "record" /\ v \in s.record => v \notin Announcement!AnnouncedVideoIds(decisions)
    /\ s.at \in {"ask", "announce", "read", "write"} /\ v \in s.asked => v \notin Announcement!Decided

\* The run that has recorded a video's event, and has yet to make it known.
Holds(s, v) ==
    \/ s.at \in {"upsert", "patch"} /\ v \in s.found
    \/ s.at \in {"read", "write"} /\ v \in DOMAIN s.new /\ s.new[v]

OneRow(v) == \A x, y \in foundEvents : x[2] = v /\ y[2] = v => x = y
FoundKnown(v) == v \in foundManifest \/ v \in Announcement!AnnouncedVideoIds(decisions)

FoundVideo(v) == v \notin excused =>
    /\ \A x, y \in Discoveries : Flying(discovery[x]) /\ Flying(discovery[y]) => x = y
    /\ \A x \in Discoveries : Flying(discovery[x]) => FoundClaims(discovery[x], v)
    /\ OneRow(v)
    /\ Announcement!HasEvent(v) =>
          FoundKnown(v) \/ \E x \in Discoveries : Flying(discovery[x]) /\ Holds(discovery[x], v)

FoundInv ==
    /\ FoundWorld
    /\ \A r \in Discoveries : FoundRunOK(discovery[r])
    /\ \A v \in FoundVideos : FoundVideo(v)

LEMMA SameFoundSize == \A S : Announcement!Cardinality(S) = Cardinality(S)
  BY DEF Announcement!Cardinality, Cardinality

LEMMA SameFoundFinite == \A S : Announcement!IsFiniteSet(S) <=> IsFiniteSet(S)
  BY DEF Announcement!IsFiniteSet, IsFiniteSet

LEMMA FoundLimits ==
    /\ IsFiniteSet(FoundVideos) /\ FoundKind \in [FoundVideos -> {"premiere", "stream"}]
    /\ FirstTimes \subseteq 0..FoundMaxNow
    /\ WindowsPerDay \in Nat \ {0} /\ MaxAttempts \in Nat \ {0} /\ MaxEntries \in Nat \ {0} /\ FoundEventDates \in Nat \ {0}
    /\ FoundMaxNow \in Nat
  BY HomeAssumption, SameFoundFinite DEF Announcement!PremiereAssumption

LEMMA FoundDates ==
    ASSUME NEW m \in Nat, NEW n \in Nat, m <= n
    PROVE  Announcement!Date(m) \in Nat /\ Announcement!Date(n) \in Nat /\ Announcement!Date(m) <= Announcement!Date(n)
  BY FoundLimits, DatesGrow, DateIsNatural DEF Announcement!Date

LEMMA InitFound == Announcement!Init => FoundInv
  <1> SUFFICES ASSUME Announcement!Init PROVE FoundInv
    OBVIOUS
  <1>0. DOMAIN decisions = {} /\ DOMAIN <<>> = {}
    <2>1. DOMAIN <<>> = {}
      OBVIOUS
    <2>2. QED
      BY <2>1 DEF Announcement!Init
  <1>1. FoundRunOK(Announcement!Idle)
    <2>1. Announcement!Idle = [f \in FoundFields |-> Announcement!Idle[f]]
      BY DEF FoundFields, Announcement!Idle
    <2>2. foundNow = 0
      BY DEF Announcement!Init
    <2>3. QED
      BY <1>0, <2>1, <2>2 DEF FoundRunOK, Announcement!Idle, Flying
  <1>2. FoundTypes
    <2>1. foundNow \in 0..FoundMaxNow /\ foundStart \in [FoundVideos -> 0..FoundMaxNow]
      <3>1. foundNow = 0 /\ foundStart \in [FoundVideos -> FirstTimes]
        BY DEF Announcement!Init
      <3>2. FirstTimes \subseteq 0..FoundMaxNow /\ FoundMaxNow \in Nat
        BY FoundLimits
      <3>3. foundNow \in 0..FoundMaxNow
        BY <3>1, <3>2
      <3>4. foundStart \in [FoundVideos -> 0..FoundMaxNow]
        <4> DEFINE Moments == 0..FoundMaxNow
        <4>1. FirstTimes \subseteq Moments
          BY <3>2
        <4> HIDE DEF Moments
        <4>2. foundStart \in [FoundVideos -> Moments]
          BY <3>1, <4>1
        <4>3. QED
          BY <4>2 DEF Moments
      <3>5. QED
        BY <3>3, <3>4
    <2>2. Cardinality(DOMAIN decisions) <= MaxEntries
      BY <1>0, FS_EmptySet, FoundLimits
    <2>3. ranking.date \in 0..Announcement!Date(foundNow)
      BY FoundDates DEF Announcement!Init
    <2>4. QED
      BY <1>0, <2>1, <2>2, <2>3 DEF Announcement!Init, FoundTypes, Announcement!Decided
  <1>3. FoundWorld
    BY <1>0, <1>2 DEF Announcement!Init, FoundWorld, Announcement!AnnouncedVideoIds
  <1>4. \A r \in Discoveries : ~Flying(discovery[r])
    BY DEF Announcement!Init, Announcement!Idle, Flying
  <1>5. \A v \in FoundVideos : FoundVideo(v)
    BY <1>4 DEF Announcement!Init, FoundVideo, OneRow, Announcement!HasEvent
  <1>6. QED
    BY <1>1, <1>3, <1>5 DEF FoundInv, Announcement!Init

LEMMA FoundSound == FoundInv => Announcement!PremieresAreSound
  <1> SUFFICES ASSUME FoundInv PROVE Announcement!PremieresAreSound
    OBVIOUS
  <1>1. FoundWorld /\ FoundTypes
    BY DEF FoundInv, FoundWorld
  <1>2. Announcement!TypeOK
    BY <1>1, SameFoundSize DEF FoundTypes, Announcement!TypeOK
  <1>3. Announcement!NothingLost
    BY <1>1 DEF FoundWorld, Announcement!NothingLost
  <1>4. Announcement!OneEvent
    <2>1. ASSUME NEW v \in FoundVideos \ excused PROVE Cardinality(Announcement!EventsOf(v)) <= 1
      <3>1. \A x, y \in Announcement!EventsOf(v) : x = y
        BY <2>1 DEF FoundInv, FoundVideo, OneRow, Announcement!EventsOf
      <3>2. CASE Announcement!EventsOf(v) = {}
        BY <3>2, FS_EmptySet
      <3>3. CASE Announcement!EventsOf(v) # {}
        <4>1. PICK x : Announcement!EventsOf(v) = {x}
          BY <3>1, <3>3
        <4>2. QED
          BY <4>1, FS_Singleton
      <3>4. QED
        BY <3>2, <3>3
    <2>2. QED
      BY <2>1, SameFoundSize DEF Announcement!OneEvent
  <1>5. Announcement!OnlyPremieresAnnounced
    BY <1>1 DEF FoundWorld, Announcement!OnlyPremieresAnnounced
  <1>6. Announcement!ShownFromUploads
    <2>1. ASSUME NEW v \in foundManifest \ (excused \cup premieresAnnounced), Announcement!Behind < FoundEventDates, v \notin ranking.videos
          PROVE  v \in Announcement!WithProvisionalDiscoveries
      <3>1. PICK d \in ranking.date..Announcement!Date(foundNow) : <<d, v>> \in foundEvents
        BY <1>1, <2>1 DEF FoundWorld, Listable
      <3>2. foundNow \in Nat /\ ranking.date \in Nat /\ FoundEventDates \in Nat /\ v \in FoundVideos
        BY <1>1, <2>1, FoundLimits DEF FoundTypes
      <3>3. Announcement!Date(foundNow) \in Nat
        BY <3>2, FoundDates
      <3>4. d > Announcement!Date(foundNow) - FoundEventDates
        BY <2>1, <3>1, <3>2, <3>3 DEF Announcement!Behind
      <3>5. QED
        BY <3>1, <3>2, <3>4 DEF Announcement!WithProvisionalDiscoveries, Announcement!EventDates
    <2>2. QED
      BY <2>1 DEF Announcement!ShownFromUploads, Announcement!WithProvisionalDiscoveries
  <1>7. QED
    BY <1>2, <1>3, <1>4, <1>5, <1>6 DEF Announcement!PremieresAreSound

\* What no step of a run takes back.
FoundGrows ==
    /\ UNCHANGED <<foundNow, foundStart, ranking>>
    /\ foundEvents \subseteq foundEvents' /\ premieresAnnounced \subseteq premieresAnnounced' /\ foundMaster \subseteq foundMaster'
    /\ excused \subseteq excused'
    /\ version' \in Nat /\ version <= version' /\ (version' = version => decisions' = decisions)

LEMMA FoundRunStays ==
    ASSUME NEW s, FoundRunOK(s), FoundGrows, version \in Nat
    PROVE  FoundRunOK(s)'
  <1>1. s.at = "write" => s.version \in Nat /\ s.version <= version' /\ (s.version = version' => s.seen = decisions')
    BY DEF FoundRunOK, FoundGrows
  <1>2. QED
    BY <1>1 DEF FoundRunOK, FoundGrows

LEMMA SameRun ==
    ASSUME NEW x, NEW s, FoundRunOK(s)', discovery'[x] = s
    PROVE  FoundRunOK(discovery[x])'
  BY DEF FoundRunOK

LEMMA RunsStay ==
    ASSUME FoundInv, NEW r \in Discoveries, NEW t, FoundRunOK(t)', FoundGrows, discovery' = [discovery EXCEPT ![r] = t]
    PROVE  \A x \in Discoveries : FoundRunOK(discovery[x])'
  <1>1. discovery = [x \in Discoveries |-> discovery[x]] /\ version \in Nat
    BY DEF FoundInv, FoundWorld, FoundTypes
  <1>2. ASSUME NEW x \in Discoveries PROVE FoundRunOK(discovery[x])'
    <2>1. CASE x = r
      <3>1. discovery'[x] = t
        BY <1>1, <2>1
      <3>2. QED
        BY <3>1, SameRun
    <2>2. CASE x # r
      <3>1. PICK s : s = discovery[x] /\ FoundRunOK(s)
        BY DEF FoundInv
      <3>2. FoundRunOK(s)' /\ discovery'[x] = s
        BY <1>1, <2>2, <3>1, FoundRunStays
      <3>3. QED
        BY <3>2, SameRun
    <2>3. QED
      BY <2>1, <2>2
  <1>3. QED
    BY <1>2

\* The run on its way that a video in order knows of is the only one.
LEMMA OnlyRun ==
    ASSUME FoundInv, NEW r \in Discoveries, NEW s, s = discovery[r], Flying(s), NEW v \in FoundVideos, v \notin excused
    PROVE  /\ \A x \in Discoveries : Flying(discovery[x]) => x = r
           /\ FoundClaims(s, v) /\ OneRow(v)
           /\ Announcement!HasEvent(v) => FoundKnown(v) \/ Holds(s, v)
  BY DEF FoundInv, FoundVideo

LEMMA RunMoves ==
    ASSUME FoundInv, NEW r \in Discoveries, NEW t, Flying(discovery[r]), FoundRunOK(t)', FoundGrows, FoundWorld',
           discovery' = [discovery EXCEPT ![r] = t],
           \A v \in FoundVideos \ excused' :
               /\ Flying(t) => FoundClaims(t, v)'
               /\ OneRow(v)'
               /\ Announcement!HasEvent(v)' => FoundKnown(v)' \/ (Flying(t) /\ Holds(t, v))
    PROVE  FoundInv'
  <1>1. discovery = [x \in Discoveries |-> discovery[x]] /\ version \in Nat
    BY DEF FoundInv, FoundWorld, FoundTypes
  <1>2. \A x \in Discoveries : FoundRunOK(discovery[x])'
    BY RunsStay
  <1>3. ASSUME NEW v \in FoundVideos PROVE FoundVideo(v)'
    <2>1. SUFFICES ASSUME v \notin excused' PROVE FoundVideo(v)'
      BY DEF FoundVideo
    <2>2. v \notin excused
      BY <2>1 DEF FoundGrows
    <2>3. \A x \in Discoveries : Flying(discovery[x]) => x = r
      BY <2>2, OnlyRun
    <2>4. discovery'[r] = t /\ \A x \in Discoveries : x # r => discovery'[x] = discovery[x]
      BY <1>1
    <2>5. \A x \in Discoveries : Flying(discovery'[x]) => x = r
      BY <2>3, <2>4
    <2>6. /\ Flying(t) => FoundClaims(t, v)'
          /\ OneRow(v)'
          /\ Announcement!HasEvent(v)' => FoundKnown(v)' \/ (Flying(t) /\ Holds(t, v))
      BY <2>1
    <2>7. ASSUME NEW x \in Discoveries, Flying(discovery'[x]) PROVE FoundClaims(discovery[x], v)'
      <3>1. x = r /\ discovery'[x] = t
        BY <2>4, <2>5, <2>7
      <3>2. FoundClaims(t, v)'
        BY <2>6, <2>7, <3>1
      <3>3. QED
        BY <3>1, <3>2 DEF FoundClaims
    <2>8. QED
      BY <2>4, <2>5, <2>6, <2>7 DEF FoundVideo
  <1>4. QED
    BY <1>2, <1>3 DEF FoundInv
OverRun == [Announcement!Idle EXCEPT !.at = "over"]

LEMMA OverRunFields ==
    /\ OverRun = [f \in FoundFields |-> OverRun[f]] /\ OverRun.at = "over" /\ OverRun.time = 0 /\ OverRun.known = {}
    /\ OverRun.found = {} /\ OverRun.record = {} /\ OverRun.asked = {} /\ OverRun.facts = <<>> /\ OverRun.new = <<>>
    /\ OverRun.seen = <<>> /\ ~Flying(OverRun)
  BY DEF OverRun, Announcement!Idle, FoundFields, Flying

LEMMA OverRunOK == ASSUME foundNow \in Nat PROVE FoundRunOK(OverRun)
  <1>1. DOMAIN <<>> = {}
    OBVIOUS
  <1>2. PICK t : t = OverRun
    OBVIOUS
  <1>3. /\ t = [f \in FoundFields |-> t[f]] /\ t.at = "over" /\ t.time = 0 /\ t.known = {} /\ t.found = {} /\ t.record = {}
        /\ t.asked = {} /\ DOMAIN t.facts = {} /\ DOMAIN t.new = {} /\ DOMAIN t.seen = {} /\ ~Flying(t)
    BY <1>1, <1>2, OverRunFields
  <1>4. t.time \in 0..foundNow
    BY <1>3
  <1>5. FoundRunOK(t)
    BY <1>3, <1>4 DEF FoundRunOK
  <1>6. QED
    BY <1>2, <1>5

LEMMA FoundTime == FoundInv => /\ foundNow \in Nat /\ version \in Nat /\ FoundWorld /\ FoundTypes
                              /\ discovery = [r \in Discoveries |-> discovery[r]]
  <1> SUFFICES ASSUME FoundInv PROVE /\ foundNow \in Nat /\ version \in Nat /\ FoundWorld /\ FoundTypes
                                    /\ discovery = [r \in Discoveries |-> discovery[r]]
    OBVIOUS
  <1>1. FoundWorld /\ FoundTypes
    BY DEF FoundInv, FoundWorld
  <1>2. QED
    BY <1>1, FoundLimits DEF FoundTypes

\* A step of a run that leaves the tables as they are.
LEMMA RunThinks ==
    ASSUME FoundInv, NEW r \in Discoveries, NEW s, s = discovery[r], Flying(s), NEW t, FoundRunOK(t),
           discovery' = [discovery EXCEPT ![r] = t], excused \subseteq excused', excused' \subseteq FoundVideos,
           UNCHANGED <<foundNow, foundStart, ranking, foundMaster, foundManifest, foundEvents, decisions, version, premieresAnnounced>>,
           \A v \in FoundVideos \ excused' :
               /\ Flying(t) => FoundClaims(t, v)
               /\ Holds(s, v) => FoundKnown(v) \/ (Flying(t) /\ Holds(t, v))
    PROVE  FoundInv'
  <1>1. foundNow \in Nat /\ version \in Nat /\ FoundWorld /\ FoundTypes
    BY FoundTime
  <1>2. FoundGrows
    BY <1>1 DEF FoundGrows
  <1>3. FoundRunOK(t)'
    BY DEF FoundRunOK, Announcement!Date
  <1>4. FoundWorld'
    <2>1. FoundTypes'
      BY <1>1 DEF FoundTypes, Announcement!Date, Announcement!Decided
    <2>2. QED
      BY <1>1, <2>1 DEF FoundWorld, Announcement!HasEvent, Announcement!AnnouncedVideoIds, Listable, Announcement!Date
  <1>5. ASSUME NEW v \in FoundVideos \ excused'
        PROVE  /\ Flying(t) => FoundClaims(t, v)'
               /\ OneRow(v)'
               /\ Announcement!HasEvent(v)' => FoundKnown(v)' \/ (Flying(t) /\ Holds(t, v))
    <2>1. OneRow(v) /\ (Announcement!HasEvent(v) => FoundKnown(v) \/ Holds(s, v))
      BY <1>5, OnlyRun
    <2>2. Announcement!HasEvent(v)' = Announcement!HasEvent(v) /\ FoundKnown(v)' = FoundKnown(v) /\ OneRow(v)' = OneRow(v)
      BY DEF Announcement!HasEvent, FoundKnown, OneRow, Announcement!AnnouncedVideoIds
    <2>3. FoundClaims(t, v)' = FoundClaims(t, v)
      BY DEF FoundClaims, Announcement!AnnouncedVideoIds, Announcement!Decided
    <2>4. /\ Flying(t) => FoundClaims(t, v)
          /\ Holds(s, v) => FoundKnown(v) \/ (Flying(t) /\ Holds(t, v))
      BY <1>5
    <2>5. QED
      BY <2>1, <2>2, <2>3, <2>4
  <1>6. QED
    BY <1>2, <1>3, <1>4, <1>5, RunMoves

\* The tables after a step of a run.
LEMMA WorldGrows ==
    ASSUME FoundInv, FoundGrows, NEW r \in Discoveries, NEW t, discovery' = [discovery EXCEPT ![r] = t],
           foundEvents' \subseteq (0..Announcement!Date(FoundMaxNow)) \X FoundVideos, foundMaster' \subseteq FoundVideos,
           excused' \subseteq FoundVideos,
           foundManifest' \subseteq foundMaster', DOMAIN decisions' \subseteq FoundVideos, Cardinality(DOMAIN decisions') <= MaxEntries,
           premieresAnnounced' \subseteq FoundVideos, \A v \in premieresAnnounced' \ premieresAnnounced : FoundKind[v] = "premiere" /\ Announcement!HasEvent(v)',
           \A v \in foundMaster' \ foundMaster : Announcement!HasEvent(v)',
           \A v \in DOMAIN decisions' : decisions'[v].premiere => v \in premieresAnnounced',
           \A v \in foundManifest' \ (foundManifest \cup excused' \cup premieresAnnounced') : Listable(v)'
    PROVE  FoundWorld'
  <1>1. foundNow \in Nat /\ version \in Nat /\ FoundWorld /\ FoundTypes
    BY FoundTime
  <1>2. UNCHANGED <<foundNow, foundStart, ranking>> /\ foundEvents \subseteq foundEvents' /\ excused \subseteq excused'
        /\ premieresAnnounced \subseteq premieresAnnounced' /\ version' \in Nat
    BY DEF FoundGrows
  <1>3. FoundTypes'
    <2>1. discovery' = [x \in Discoveries |-> discovery'[x]]
      BY FoundTime
    <2>2. ranking'.date \in 0..Announcement!Date(foundNow)'
      BY <1>1, <1>2 DEF FoundTypes, Announcement!Date
    <2>3. QED
      BY <1>1, <1>2, <2>1, <2>2 DEF FoundTypes, Announcement!Decided, Announcement!Date
  <1>4. \A v : Announcement!HasEvent(v) => Announcement!HasEvent(v)'
    BY <1>2 DEF Announcement!HasEvent
  <1>5. \A v : Listable(v) => Listable(v)'
    BY <1>2 DEF Listable, Announcement!Date
  <1>6. Announcement!AnnouncedVideoIds(decisions)' \subseteq premieresAnnounced'
    BY DEF Announcement!AnnouncedVideoIds
  <1>7. QED
    BY <1>1, <1>2, <1>3, <1>4, <1>5, <1>6 DEF FoundWorld

\* A run that fails may have written a part of its events or rows.
LEMMA RunFails ==
    ASSUME FoundInv, NEW r \in Discoveries, NEW s, s = discovery[r], Flying(s), FoundGrows, FoundWorld',
           discovery' = [discovery EXCEPT ![r] = OverRun], excused' = excused \cup Announcement!Touched(s),
           UNCHANGED <<foundManifest, decisions>>,
           \A e \in foundEvents' : e \in foundEvents \/ e[2] \in Announcement!Touched(s)
    PROVE  FoundInv'
  <1>1. FoundRunOK(s) /\ foundNow \in Nat
    BY FoundTime DEF FoundInv
  <1>2. FoundRunOK(OverRun)'
    <2>1. PICK t : t = OverRun
      OBVIOUS
    <2>2. FoundRunOK(t) /\ version \in Nat
      BY <1>1, <2>1, OverRunOK, FoundTime
    <2>3. FoundRunOK(t)'
      BY <2>2, FoundRunStays
    <2>4. QED
      BY <2>1, <2>3
  <1>3. ASSUME NEW v \in FoundVideos \ excused'
        PROVE  OneRow(v)' /\ (Announcement!HasEvent(v)' => FoundKnown(v)')
    <2>1. v \notin Announcement!Touched(s) /\ v \notin excused
      BY <1>3
    <2>2. OneRow(v) /\ (Announcement!HasEvent(v) => FoundKnown(v) \/ Holds(s, v))
      BY <2>1, OnlyRun
    <2>3. ~Holds(s, v)
      BY <1>1, <2>1 DEF Holds, FoundRunOK, Announcement!Touched
    <2>4. \A e \in foundEvents' : e[2] = v => e \in foundEvents
      BY <2>1
    <2>5. OneRow(v)' /\ (Announcement!HasEvent(v)' => Announcement!HasEvent(v))
      BY <2>2, <2>4 DEF OneRow, Announcement!HasEvent
    <2>6. FoundKnown(v)' = FoundKnown(v)
      BY DEF FoundKnown, Announcement!AnnouncedVideoIds
    <2>7. QED
      BY <2>2, <2>3, <2>5, <2>6
  <1>4. QED
    BY <1>2, <1>3, RunMoves, OverRunFields

\* New rows.
LEMMA RowsAre ==
    ASSUME FoundInv, NEW s, FoundRunOK(s), NEW W \in SUBSET FoundVideos, foundEvents' = Announcement!Rows(s, W)
    PROVE  /\ foundEvents \subseteq foundEvents' /\ foundEvents' \subseteq (0..Announcement!Date(FoundMaxNow)) \X FoundVideos
           /\ \A v \in W : <<Announcement!Date(s.time), v>> \in foundEvents' /\ Announcement!HasEvent(v)'
           /\ \A e \in foundEvents' : e \in foundEvents \/ (e[2] \in W /\ e = <<Announcement!Date(s.time), e[2]>>)
  <1>1. FoundTypes /\ foundNow \in 0..FoundMaxNow /\ FoundMaxNow \in Nat /\ s.time \in 0..foundNow
    BY FoundTime, FoundLimits DEF FoundTypes, FoundRunOK
  <1>2. s.time \in Nat /\ s.time <= FoundMaxNow
    BY <1>1
  <1>3. Announcement!Date(s.time) \in 0..Announcement!Date(FoundMaxNow)
    BY <1>1, <1>2, FoundDates
  <1>4. PICK d : d = Announcement!Date(s.time)
    OBVIOUS
  <1>5. foundEvents' = foundEvents \cup {<<d, v>> : v \in W}
    BY <1>4 DEF Announcement!Rows
  <1>6. foundEvents' \subseteq (0..Announcement!Date(FoundMaxNow)) \X FoundVideos
    BY <1>1, <1>3, <1>4, <1>5 DEF FoundTypes
  <1>7. \A v \in W : <<d, v>> \in foundEvents' /\ Announcement!HasEvent(v)'
    <2>1. ASSUME NEW v \in W PROVE <<d, v>> \in foundEvents'
      BY <1>5
    <2>2. QED
      BY <2>1 DEF Announcement!HasEvent
  <1>8. \A e \in foundEvents' : e \in foundEvents \/ (e[2] \in W /\ e = <<d, e[2]>>)
    BY <1>5
  <1>9. QED
    BY <1>4, <1>5, <1>6, <1>7, <1>8

\* The first event of a video.
LEMMA FirstRow ==
    ASSUME NEW v, NEW d, ~Announcement!HasEvent(v), \A e \in foundEvents' : e[2] = v => e \in foundEvents \/ e = <<d, v>>
    PROVE  OneRow(v)'
  BY DEF OneRow, Announcement!HasEvent

LEMMA GoesTo ==
    ASSUME NEW r \in Discoveries, NEW q, Announcement!Goes(r, q)
    PROVE  discovery' = [discovery EXCEPT ![r] = IF q.at = "over" THEN OverRun ELSE q]
  BY DEF Announcement!Goes, OverRun

LEMMA FlyingRun ==
    ASSUME FoundInv, NEW r \in Discoveries, NEW s, s = discovery[r]
    PROVE  FoundRunOK(s) /\ s = [f \in FoundFields |-> s[f]]
  BY DEF FoundInv, FoundRunOK

LEMMA StepFoundStart ==
    ASSUME FoundInv, NEW r \in Discoveries, Announcement!Start(r)
    PROVE  FoundInv'
  <1>1. PICK s, t : s = discovery[r] /\ t = [s EXCEPT !.at = "discover", !.time = foundNow, !.known = foundManifest]
    OBVIOUS
  <1>2. /\ s.at = "start" /\ excused' = (IF Announcement!InFlight = {} THEN excused ELSE FoundVideos)
        /\ UNCHANGED <<foundNow, foundStart, ranking, foundMaster, foundManifest, foundEvents, decisions, version, premieresAnnounced>>
    BY <1>1 DEF Announcement!Start, Announcement!world, Announcement!tables
  <1>3. FoundRunOK(s) /\ s = [f \in FoundFields |-> s[f]]
    BY <1>1, FlyingRun
  <1>4. /\ t = [f \in FoundFields |-> t[f]] /\ t.at = "discover" /\ t.time = foundNow /\ t.known = foundManifest
        /\ t.found = s.found /\ t.record = s.record /\ t.asked = s.asked /\ t.facts = s.facts /\ t.new = s.new /\ t.seen = s.seen
    BY <1>1, <1>3 DEF FoundFields
  <1>5. discovery' = [discovery EXCEPT ![r] = t]
    <2>1. Announcement!Goes(r, t)
      BY <1>1 DEF Announcement!Start
    <2>2. QED
      BY <1>4, <2>1, GoesTo
  <1>6. foundNow \in Nat /\ version \in Nat /\ FoundWorld /\ FoundTypes
    BY FoundTime
  <1>7. FoundRunOK(t)
    <2>1. t.found = {} /\ t.record = {} /\ t.asked = {} /\ DOMAIN t.facts = {} /\ DOMAIN t.new = {}
      BY <1>2, <1>3, <1>4 DEF FoundRunOK
    <2>2. t.time \in 0..foundNow /\ ranking.date <= Announcement!Date(t.time)
      BY <1>4, <1>6 DEF FoundTypes
    <2>3. DOMAIN t.seen \subseteq FoundVideos /\ \A v \in DOMAIN t.seen : t.seen[v].premiere => v \in premieresAnnounced
      BY <1>3, <1>4 DEF FoundRunOK
    <2>4. QED
      BY <1>4, <2>1, <2>2, <2>3 DEF FoundRunOK
  <1>8. FoundRunOK(t)'
    BY <1>2, <1>7 DEF FoundRunOK, Announcement!Date
  <1>9. FoundGrows
    <2>1. excused \subseteq excused'
      BY <1>2, <1>6 DEF FoundTypes
    <2>2. QED
      BY <1>2, <1>6, <2>1 DEF FoundGrows, FoundTypes
  <1>10. FoundWorld'
    BY <1>2, <1>5, <1>6, <1>9, FoundTime, WorldGrows DEF FoundWorld, FoundTypes, Announcement!Decided, Announcement!AnnouncedVideoIds
  <1>11. \A x \in Discoveries : FoundRunOK(discovery[x])'
    BY <1>5, <1>8, <1>9, RunsStay
  <1>12. ASSUME NEW v \in FoundVideos, v \notin excused' PROVE FoundVideo(v)'
    <2>1. v \notin excused /\ \A x \in Discoveries : ~Flying(discovery[x])
      BY <1>2, <1>12 DEF Announcement!InFlight, Flying
    <2>2. OneRow(v) /\ (Announcement!HasEvent(v) => FoundKnown(v))
      BY <2>1 DEF FoundInv, FoundVideo
    <2>3. OneRow(v)' /\ (Announcement!HasEvent(v)' => FoundKnown(v)')
      BY <1>2, <2>2 DEF OneRow, Announcement!HasEvent, FoundKnown, Announcement!AnnouncedVideoIds
    <2>4. discovery'[r] = t /\ \A x \in Discoveries : x # r => ~Flying(discovery'[x])
      BY <1>5, <2>1, FoundTime
    <2>5. FoundClaims(t, v)'
      BY <1>2, <1>4 DEF FoundClaims
    <2>6. FoundClaims(discovery[r], v)'
      BY <2>4, <2>5 DEF FoundClaims
    <2>7. QED
      BY <2>3, <2>4, <2>6 DEF FoundVideo
  <1>13. ASSUME NEW v \in FoundVideos PROVE FoundVideo(v)'
    <2>1. CASE v \in excused'
      BY <2>1 DEF FoundVideo
    <2>2. CASE v \notin excused'
      BY <2>2, <1>12
    <2>3. QED
      BY <2>1, <2>2
  <1>14. QED
    BY <1>10, <1>11, <1>13 DEF FoundInv

LEMMA StepFoundDiscover ==
    ASSUME FoundInv, NEW r \in Discoveries, Announcement!Discover(r)
    PROVE  FoundInv'
  <1>1. PICK s : s = discovery[r]
    OBVIOUS
  <1>2. PICK found, quota, q :
            /\ found \in SUBSET (Announcement!Uploads \ s.known) /\ quota \in BOOLEAN
            /\ q = [s EXCEPT !.found = found, !.quota = quota,
                       !.at = IF found # {} THEN "announced" ELSE IF quota THEN "over" ELSE "select"]
            /\ Announcement!Goes(r, q)
    BY <1>1 DEF Announcement!Discover
  <1>3. /\ s.at = "discover"
        /\ UNCHANGED <<foundNow, foundStart, ranking, foundMaster, foundManifest, foundEvents, decisions, version, premieresAnnounced, excused>>
    BY <1>1 DEF Announcement!Discover, Announcement!world, Announcement!tables
  <1>4. FoundRunOK(s) /\ s = [f \in FoundFields |-> s[f]] /\ Flying(s)
    BY <1>1, <1>3, FlyingRun DEF Flying
  <1>5. PICK t : t = IF q.at = "over" THEN OverRun ELSE q
    OBVIOUS
  <1>6. discovery' = [discovery EXCEPT ![r] = t]
    BY <1>2, <1>5, GoesTo
  <1>7. /\ q = [f \in FoundFields |-> q[f]] /\ q.at \in {"announced", "over", "select"} /\ q.found = found
        /\ q.time = s.time /\ q.known = s.known /\ q.record = s.record /\ q.asked = s.asked /\ q.facts = s.facts
        /\ q.new = s.new /\ q.seen = s.seen
    BY <1>2, <1>4 DEF FoundFields
  <1>8. found \subseteq FoundVideos /\ found \cap s.known = {}
    BY <1>2 DEF Announcement!Uploads
  <1>9. FoundRunOK(q)
    BY <1>3, <1>4, <1>7, <1>8 DEF FoundRunOK, Flying
  <1>10. FoundRunOK(t)
    BY <1>5, <1>9, FoundTime, OverRunOK
  <1>11. ASSUME NEW v \in FoundVideos \ excused'
         PROVE  /\ Flying(t) => FoundClaims(t, v)
                /\ Holds(s, v) => FoundKnown(v) \/ (Flying(t) /\ Holds(t, v))
    <2>1. FoundClaims(s, v)
      BY <1>1, <1>3, <1>4, <1>11, OnlyRun
    <2>2. FoundClaims(q, v)
      BY <1>3, <1>4, <1>7, <2>1 DEF FoundClaims, FoundRunOK
    <2>3. ~Holds(s, v)
      BY <1>3 DEF Holds
    <2>4. QED
      BY <1>5, <2>2, <2>3, OverRunFields
  <1>12. excused \subseteq excused' /\ excused' \subseteq FoundVideos
    BY <1>3, FoundTime DEF FoundTypes
  <1>13. QED
    BY <1>1, <1>3, <1>4, <1>6, <1>10, <1>11, <1>12, RunThinks

LEMMA StepFoundReadAnnounced ==
    ASSUME FoundInv, NEW r \in Discoveries, Announcement!ReadAnnounced(r)
    PROVE  FoundInv'
  <1>1. PICK s : s = discovery[r]
    OBVIOUS
  <1>2. PICK record, t :
            /\ t = [s EXCEPT !.at = "record", !.record = record]
            /\ Announcement!Goes(r, t)
            /\ \/ record = s.found \ Announcement!AnnouncedVideoIds(decisions) /\ excused' = excused
               \/ record = s.found /\ excused' = excused \cup s.found
    BY <1>1 DEF Announcement!ReadAnnounced
  <1>3. /\ s.at = "announced"
        /\ UNCHANGED <<foundNow, foundStart, ranking, foundMaster, foundManifest, foundEvents, decisions, version, premieresAnnounced>>
    BY <1>1 DEF Announcement!ReadAnnounced, Announcement!world, Announcement!tables
  <1>4. FoundRunOK(s) /\ s = [f \in FoundFields |-> s[f]] /\ Flying(s)
    BY <1>1, <1>3, FlyingRun DEF Flying
  <1>5. /\ t = [f \in FoundFields |-> t[f]] /\ t.at = "record" /\ t.record = record
        /\ t.time = s.time /\ t.known = s.known /\ t.found = s.found /\ t.asked = s.asked /\ t.facts = s.facts
        /\ t.new = s.new /\ t.seen = s.seen
    BY <1>2, <1>4 DEF FoundFields
  <1>6. discovery' = [discovery EXCEPT ![r] = t]
    BY <1>2, <1>5, GoesTo
  <1>7. record \subseteq s.found /\ \A v \in s.found \ record : v \in premieresAnnounced
    BY <1>2, FoundTime DEF FoundWorld
  <1>8. FoundRunOK(t)
    BY <1>3, <1>4, <1>5, <1>7 DEF FoundRunOK, Flying
  <1>9. ASSUME NEW v \in FoundVideos \ excused'
        PROVE  /\ Flying(t) => FoundClaims(t, v)
               /\ Holds(s, v) => FoundKnown(v) \/ (Flying(t) /\ Holds(t, v))
    <2>1. v \notin excused
      BY <1>2, <1>9
    <2>2. FoundClaims(s, v)
      BY <1>1, <1>4, <2>1, <1>9, OnlyRun
    <2>3. v \in record => v \notin Announcement!AnnouncedVideoIds(decisions)
      BY <1>2, <1>9
    <2>4. FoundClaims(t, v)
      BY <1>3, <1>5, <2>2, <2>3 DEF FoundClaims
    <2>5. ~Holds(s, v)
      BY <1>3 DEF Holds
    <2>6. QED
      BY <2>4, <2>5
  <1>10. excused \subseteq excused' /\ excused' \subseteq FoundVideos
    BY <1>2, <1>4, FoundTime DEF FoundTypes, FoundRunOK
  <1>11. QED
    BY <1>1, <1>3, <1>4, <1>6, <1>8, <1>9, <1>10, RunThinks

LEMMA FailsRunIs ==
    ASSUME FoundInv, NEW r \in Discoveries, NEW s, s = discovery[r], Announcement!FailsRun(r)
    PROVE  /\ discovery' = [discovery EXCEPT ![r] = OverRun] /\ excused' = excused \cup Announcement!Touched(s)
           /\ excused' \subseteq FoundVideos /\ Announcement!Touched(s) \subseteq FoundVideos
  <1>1. FoundRunOK(s) /\ s = [f \in FoundFields |-> s[f]]
    BY FlyingRun
  <1>2. PICK q : q = [s EXCEPT !.at = "over"]
    OBVIOUS
  <1>3. q.at = "over" /\ Announcement!Goes(r, q) /\ excused' = excused \cup Announcement!Touched(s)
    BY <1>1, <1>2 DEF Announcement!FailsRun, FoundFields
  <1>4. discovery' = [discovery EXCEPT ![r] = OverRun]
    BY <1>3, GoesTo
  <1>5. Announcement!Touched(s) \subseteq FoundVideos /\ excused \subseteq FoundVideos
    BY <1>1, FoundTime DEF FoundRunOK, FoundTypes, Announcement!Touched
  <1>6. QED
    BY <1>3, <1>4, <1>5

LEMMA StepFoundRecordEvents ==
    ASSUME FoundInv, NEW r \in Discoveries, Announcement!RecordEvents(r)
    PROVE  FoundInv'
  <1>1. PICK s : s = discovery[r]
    OBVIOUS
  <1>2. /\ s.at = "record"
        /\ UNCHANGED <<foundNow, foundStart, ranking, foundMaster, foundManifest, decisions, version, premieresAnnounced>>
    BY <1>1 DEF Announcement!RecordEvents, Announcement!world
  <1>3. FoundRunOK(s) /\ s = [f \in FoundFields |-> s[f]] /\ Flying(s)
    BY <1>1, <1>2, FlyingRun DEF Flying
  <1>4. foundNow \in Nat /\ version \in Nat /\ FoundWorld /\ FoundTypes
    BY FoundTime
  <1>5. s.record \in SUBSET FoundVideos /\ s.record \subseteq s.found
    BY <1>3 DEF FoundRunOK
  <1>6. CASE /\ foundEvents' = Announcement!Rows(s, s.record) /\ UNCHANGED excused
             /\ Announcement!Goes(r, [s EXCEPT !.at = "upsert"])
    <2>1. PICK t : t = [s EXCEPT !.at = "upsert"]
      OBVIOUS
    <2>2. /\ t = [f \in FoundFields |-> t[f]] /\ t.at = "upsert" /\ t.record = s.record
          /\ t.time = s.time /\ t.known = s.known /\ t.found = s.found /\ t.asked = s.asked /\ t.facts = s.facts
          /\ t.new = s.new /\ t.seen = s.seen
      BY <1>3, <2>1 DEF FoundFields
    <2>3. discovery' = [discovery EXCEPT ![r] = t]
      BY <1>6, <2>1, <2>2, GoesTo
    <2>4. /\ foundEvents \subseteq foundEvents' /\ foundEvents' \subseteq (0..Announcement!Date(FoundMaxNow)) \X FoundVideos
          /\ \A v \in s.record : <<Announcement!Date(s.time), v>> \in foundEvents' /\ Announcement!HasEvent(v)'
          /\ \A e \in foundEvents' : e \in foundEvents \/ (e[2] \in s.record /\ e = <<Announcement!Date(s.time), e[2]>>)
      BY <1>3, <1>5, <1>6, RowsAre
    <2>5. FoundGrows
      BY <1>2, <1>4, <1>6, <2>4 DEF FoundGrows
    <2>6. FoundRunOK(s)'
      BY <1>3, <1>4, <2>5, FoundRunStays
    <2>7. \A v \in t.found : v \in premieresAnnounced' \/ <<Announcement!Date(t.time)', v>> \in foundEvents'
      <3>1. Announcement!Date(t.time)' = Announcement!Date(s.time)
        BY <2>2 DEF Announcement!Date
      <3>2. \A v \in s.found \ s.record : v \in premieresAnnounced
        BY <1>2, <1>3 DEF FoundRunOK
      <3>3. QED
        BY <1>2, <2>2, <2>4, <3>1, <3>2
    <2>8. FoundRunOK(t)'
      BY <1>2, <2>2, <2>6, <2>7 DEF FoundRunOK, Flying
    <2>9. FoundWorld'
      BY <1>2, <1>4, <1>6, <2>3, <2>4, <2>5, WorldGrows DEF FoundWorld, FoundTypes, Announcement!Decided, Announcement!AnnouncedVideoIds
    <2>10. ASSUME NEW v \in FoundVideos \ excused'
           PROVE  /\ Flying(t) => FoundClaims(t, v)'
                  /\ OneRow(v)'
                  /\ Announcement!HasEvent(v)' => FoundKnown(v)' \/ (Flying(t) /\ Holds(t, v))
      <3>1. /\ FoundClaims(s, v) /\ OneRow(v) /\ (Announcement!HasEvent(v) => FoundKnown(v) \/ Holds(s, v))
        BY <1>1, <1>3, <1>6, <2>10, OnlyRun
      <3>2. ~Holds(s, v) /\ Flying(t)
        BY <1>2, <2>2 DEF Holds, Flying
      <3>3. FoundClaims(t, v)'
        BY <1>2, <2>2, <3>1 DEF FoundClaims
      <3>4. FoundKnown(v)' = FoundKnown(v)
        BY <1>2 DEF FoundKnown, Announcement!AnnouncedVideoIds
      <3>5. CASE v \in s.record
        <4>1. v \in s.found /\ v \notin s.known
          BY <1>3, <1>5, <3>5 DEF FoundRunOK
        <4>2. ~FoundKnown(v)
          BY <1>2, <3>1, <3>5, <4>1 DEF FoundClaims, FoundKnown
        <4>3. OneRow(v)'
          BY <2>4, <3>1, <3>2, <4>2, FirstRow
        <4>4. Holds(t, v)
          BY <2>2, <4>1 DEF Holds
        <4>5. QED
          BY <3>2, <3>3, <4>3, <4>4
      <3>6. CASE v \notin s.record
        <4>1. \A e \in foundEvents' : e[2] = v => e \in foundEvents
          BY <2>4, <3>6
        <4>2. OneRow(v)' /\ (Announcement!HasEvent(v)' => Announcement!HasEvent(v))
          BY <3>1, <4>1 DEF OneRow, Announcement!HasEvent
        <4>3. QED
          BY <3>1, <3>2, <3>3, <3>4, <4>2
      <3>7. QED
        BY <3>5, <3>6
    <2>11. QED
      BY <1>1, <1>3, <2>3, <2>5, <2>8, <2>9, <2>10, RunMoves
  <1>7. CASE Announcement!FailsRun(r) /\ \E share \in SUBSET s.record : foundEvents' = Announcement!Rows(s, share)
    <2>1. PICK share \in SUBSET s.record : foundEvents' = Announcement!Rows(s, share)
      BY <1>7
    <2>2. /\ discovery' = [discovery EXCEPT ![r] = OverRun] /\ excused' = excused \cup Announcement!Touched(s)
          /\ excused' \subseteq FoundVideos
      BY <1>1, <1>7, FailsRunIs
    <2>3. share \in SUBSET FoundVideos /\ share \subseteq Announcement!Touched(s)
      BY <1>5 DEF Announcement!Touched
    <2>4. /\ foundEvents \subseteq foundEvents' /\ foundEvents' \subseteq (0..Announcement!Date(FoundMaxNow)) \X FoundVideos
          /\ \A e \in foundEvents' : e \in foundEvents \/ e[2] \in share
      BY <1>3, <2>1, <2>3, RowsAre
    <2>5. FoundGrows
      BY <1>2, <1>4, <2>2, <2>4 DEF FoundGrows
    <2>6. FoundWorld'
      BY <1>2, <1>4, <2>2, <2>4, <2>5, WorldGrows DEF FoundWorld, FoundTypes, Announcement!Decided, Announcement!AnnouncedVideoIds
    <2>7. \A e \in foundEvents' : e \in foundEvents \/ e[2] \in Announcement!Touched(s)
      BY <2>3, <2>4
    <2>8. QED
      BY <1>1, <1>2, <1>3, <2>2, <2>5, <2>6, <2>7, RunFails
  <1>8. QED
    BY <1>1, <1>6, <1>7 DEF Announcement!RecordEvents

LEMMA StepFoundUpsertVideos ==
    ASSUME FoundInv, NEW r \in Discoveries, Announcement!UpsertVideos(r)
    PROVE  FoundInv'
  <1>1. PICK s : s = discovery[r]
    OBVIOUS
  <1>2. /\ s.at = "upsert"
        /\ UNCHANGED <<foundNow, foundStart, ranking, foundManifest, foundEvents, decisions, version, premieresAnnounced>>
    BY <1>1 DEF Announcement!UpsertVideos, Announcement!world
  <1>3. FoundRunOK(s) /\ s = [f \in FoundFields |-> s[f]] /\ Flying(s)
    BY <1>1, <1>2, FlyingRun DEF Flying
  <1>4. foundNow \in Nat /\ version \in Nat /\ FoundWorld /\ FoundTypes
    BY FoundTime
  <1>5. s.found \subseteq FoundVideos /\ \A v \in s.found : Announcement!HasEvent(v)'
    <2>1. ASSUME NEW v \in s.found PROVE Announcement!HasEvent(v)
      <3>1. v \in premieresAnnounced \/ <<Announcement!Date(s.time), v>> \in foundEvents
        BY <1>2, <1>3, <2>1 DEF FoundRunOK
      <3>2. CASE v \in premieresAnnounced
        BY <1>4, <3>2 DEF FoundWorld
      <3>3. CASE <<Announcement!Date(s.time), v>> \in foundEvents
        BY <3>3 DEF Announcement!HasEvent
      <3>4. QED
        BY <3>1, <3>2, <3>3
    <2>2. QED
      BY <1>2, <1>3, <2>1 DEF FoundRunOK, Announcement!HasEvent
  <1>6. CASE /\ foundMaster' = foundMaster \cup s.found /\ UNCHANGED excused
             /\ Announcement!Goes(r, [s EXCEPT !.at = "patch"])
    <2>1. PICK t : t = [s EXCEPT !.at = "patch"]
      OBVIOUS
    <2>2. /\ t = [f \in FoundFields |-> t[f]] /\ t.at = "patch" /\ t.record = s.record
          /\ t.time = s.time /\ t.known = s.known /\ t.found = s.found /\ t.asked = s.asked /\ t.facts = s.facts
          /\ t.new = s.new /\ t.seen = s.seen
      BY <1>3, <2>1 DEF FoundFields
    <2>3. discovery' = [discovery EXCEPT ![r] = t]
      BY <1>6, <2>1, <2>2, GoesTo
    <2>4. FoundGrows
      BY <1>2, <1>4, <1>6 DEF FoundGrows
    <2>5. FoundRunOK(s)'
      BY <1>3, <1>4, <2>4, FoundRunStays
    <2>6. FoundRunOK(t)'
      BY <1>2, <1>6, <2>2, <2>5 DEF FoundRunOK, Flying
    <2>7. FoundWorld'
      BY <1>2, <1>4, <1>5, <1>6, <2>3, <2>4, WorldGrows DEF FoundWorld, FoundTypes, Announcement!Decided, Announcement!AnnouncedVideoIds
    <2>8. ASSUME NEW v \in FoundVideos \ excused'
          PROVE  /\ Flying(t) => FoundClaims(t, v)'
                 /\ OneRow(v)'
                 /\ Announcement!HasEvent(v)' => FoundKnown(v)' \/ (Flying(t) /\ Holds(t, v))
      <3>1. /\ FoundClaims(s, v) /\ OneRow(v) /\ (Announcement!HasEvent(v) => FoundKnown(v) \/ Holds(s, v))
        BY <1>1, <1>3, <1>6, <2>8, OnlyRun
      <3>2. FoundClaims(t, v)'
        BY <1>2, <2>2, <3>1 DEF FoundClaims
      <3>3. (Holds(s, v) => Holds(t, v)) /\ Flying(t)
        BY <1>2, <2>2 DEF Holds, Flying
      <3>4. OneRow(v)' /\ FoundKnown(v)' = FoundKnown(v) /\ Announcement!HasEvent(v)' = Announcement!HasEvent(v)
        BY <1>2, <3>1 DEF FoundKnown, OneRow, Announcement!HasEvent, Announcement!AnnouncedVideoIds
      <3>5. QED
        BY <3>1, <3>2, <3>3, <3>4
    <2>9. QED
      BY <1>1, <1>3, <2>3, <2>4, <2>6, <2>7, <2>8, RunMoves
  <1>7. CASE Announcement!FailsRun(r) /\ \E share \in SUBSET s.found : foundMaster' = foundMaster \cup share
    <2>1. PICK share \in SUBSET s.found : foundMaster' = foundMaster \cup share
      BY <1>7
    <2>2. /\ discovery' = [discovery EXCEPT ![r] = OverRun] /\ excused' = excused \cup Announcement!Touched(s)
          /\ excused' \subseteq FoundVideos
      BY <1>1, <1>7, FailsRunIs
    <2>3. FoundGrows
      BY <1>2, <1>4, <2>1, <2>2 DEF FoundGrows
    <2>4. FoundWorld'
      BY <1>2, <1>4, <1>5, <2>1, <2>2, <2>3, WorldGrows DEF FoundWorld, FoundTypes, Announcement!Decided, Announcement!AnnouncedVideoIds
    <2>5. QED
      BY <1>1, <1>2, <1>3, <2>2, <2>3, <2>4, RunFails
  <1>8. QED
    BY <1>1, <1>6, <1>7 DEF Announcement!UpsertVideos

LEMMA StepFoundPatchManifest ==
    ASSUME FoundInv, NEW r \in Discoveries, Announcement!PatchManifest(r)
    PROVE  FoundInv'
  <1>1. PICK s : s = discovery[r]
    OBVIOUS
  <1>2. PICK q :
            /\ q = [s EXCEPT !.at = IF s.quota THEN "over" ELSE "select"]
            /\ Announcement!Goes(r, q)
    BY <1>1 DEF Announcement!PatchManifest
  <1>3. /\ s.at = "patch"
        /\ \/ foundManifest' = foundManifest \cup s.found /\ UNCHANGED excused
           \/ UNCHANGED foundManifest /\ excused' = excused \cup s.found
        /\ UNCHANGED <<foundNow, foundStart, ranking, foundMaster, foundEvents, decisions, version, premieresAnnounced>>
    BY <1>1 DEF Announcement!PatchManifest, Announcement!world
  <1>4. FoundRunOK(s) /\ s = [f \in FoundFields |-> s[f]] /\ Flying(s)
    BY <1>1, <1>3, FlyingRun DEF Flying
  <1>5. foundNow \in Nat /\ version \in Nat /\ FoundWorld /\ FoundTypes
    BY FoundTime
  <1>6. /\ q = [f \in FoundFields |-> q[f]] /\ q.at \in {"over", "select"} /\ q.found = s.found /\ q.record = s.record
        /\ q.time = s.time /\ q.known = s.known /\ q.asked = s.asked /\ q.facts = s.facts
        /\ q.new = s.new /\ q.seen = s.seen
    BY <1>2, <1>4 DEF FoundFields
  <1>7. PICK t : t = IF q.at = "over" THEN OverRun ELSE q
    OBVIOUS
  <1>8. discovery' = [discovery EXCEPT ![r] = t]
    BY <1>2, <1>7, GoesTo
  <1>9. FoundRunOK(t)
    <2>1. FoundRunOK(q)
      BY <1>3, <1>4, <1>6 DEF FoundRunOK, Flying
    <2>2. QED
      BY <1>5, <1>7, <2>1, OverRunOK
  <1>10. FoundGrows
    BY <1>3, <1>5 DEF FoundGrows
  <1>11. FoundRunOK(t)'
    BY <1>5, <1>9, <1>10, FoundRunStays
  <1>12. s.found \subseteq foundMaster /\ s.found \subseteq FoundVideos
    BY <1>3, <1>4 DEF FoundRunOK
  <1>13. ASSUME NEW v \in s.found PROVE v \in premieresAnnounced' \/ Listable(v)'
    <2>1. v \in premieresAnnounced \/ <<Announcement!Date(s.time), v>> \in foundEvents
      BY <1>3, <1>4, <1>13 DEF FoundRunOK
    <2>2. s.time \in Nat /\ s.time <= foundNow /\ ranking.date \in Int /\ ranking.date <= Announcement!Date(s.time)
      BY <1>4, <1>5 DEF FoundRunOK, FoundTypes
    <2>3. Announcement!Date(s.time) \in ranking.date..Announcement!Date(foundNow)
      BY <1>5, <2>2, FoundDates
    <2>4. <<Announcement!Date(s.time), v>> \in foundEvents => Listable(v)
      BY <2>3 DEF Listable
    <2>5. Listable(v) => Listable(v)'
      BY <1>3 DEF Listable, Announcement!Date
    <2>6. QED
      BY <1>3, <2>1, <2>4, <2>5
  <1>14. FoundWorld'
    <2>1. excused' \subseteq FoundVideos /\ foundManifest' \subseteq foundMaster'
      BY <1>3, <1>5, <1>12 DEF FoundTypes
    <2>2. \A v \in foundManifest' \ (foundManifest \cup excused' \cup premieresAnnounced') : Listable(v)'
      BY <1>3, <1>13
    <2>3. QED
      BY <1>3, <1>5, <1>8, <1>10, <2>1, <2>2, WorldGrows DEF FoundWorld, FoundTypes, Announcement!Decided, Announcement!AnnouncedVideoIds
  <1>15. ASSUME NEW v \in FoundVideos \ excused'
         PROVE  /\ Flying(t) => FoundClaims(t, v)'
                /\ OneRow(v)'
                /\ Announcement!HasEvent(v)' => FoundKnown(v)' \/ (Flying(t) /\ Holds(t, v))
    <2>0. v \notin excused
      BY <1>3, <1>15
    <2>1. /\ FoundClaims(s, v) /\ OneRow(v) /\ (Announcement!HasEvent(v) => FoundKnown(v) \/ Holds(s, v))
      BY <1>1, <1>4, <1>15, <2>0, OnlyRun
    <2>2. FoundClaims(q, v)'
      BY <1>3, <1>6, <2>1 DEF FoundClaims
    <2>3. Holds(s, v) => v \in foundManifest'
      BY <1>3, <1>15 DEF Holds
    <2>4. OneRow(v)' /\ (FoundKnown(v) => FoundKnown(v)') /\ Announcement!HasEvent(v)' = Announcement!HasEvent(v)
      BY <1>3, <2>1 DEF FoundKnown, OneRow, Announcement!HasEvent, Announcement!AnnouncedVideoIds
    <2>5. v \in foundManifest' => FoundKnown(v)'
      BY DEF FoundKnown
    <2>6. Flying(t) => t = q
      BY <1>7, OverRunFields
    <2>7. QED
      BY <2>1, <2>2, <2>3, <2>4, <2>5, <2>6
  <1>16. QED
    BY <1>1, <1>4, <1>8, <1>10, <1>11, <1>14, <1>15, RunMoves

LEMMA RunDies ==
    ASSUME FoundInv, NEW r \in Discoveries, Flying(discovery[r]), Announcement!FailsRun(r),
           UNCHANGED <<foundNow, foundStart, ranking, foundMaster, foundManifest, foundEvents, decisions, version, premieresAnnounced>>
    PROVE  FoundInv'
  <1>1. PICK s, t : s = discovery[r] /\ t = OverRun
    OBVIOUS
  <1>2. /\ discovery' = [discovery EXCEPT ![r] = t] /\ excused' = excused \cup Announcement!Touched(s)
        /\ excused' \subseteq FoundVideos
    BY <1>1, FailsRunIs
  <1>3. FoundRunOK(t) /\ ~Flying(t)
    BY <1>1, FoundTime, OverRunOK, OverRunFields
  <1>4. FoundRunOK(s) /\ Flying(s)
    BY <1>1, FlyingRun
  <1>5. ASSUME NEW v \in FoundVideos \ excused'
        PROVE  /\ Flying(t) => FoundClaims(t, v)
               /\ Holds(s, v) => FoundKnown(v) \/ (Flying(t) /\ Holds(t, v))
    <2>1. ~Holds(s, v)
      BY <1>2, <1>4, <1>5 DEF Holds, FoundRunOK, Announcement!Touched
    <2>2. QED
      BY <1>3, <2>1
  <1>6. excused \subseteq excused'
    BY <1>2
  <1>7. QED
    BY <1>1, <1>2, <1>3, <1>4, <1>5, <1>6, RunThinks

LEMMA StepFoundReadDecisions ==
    ASSUME FoundInv, NEW r \in Discoveries, Announcement!ReadDecisions(r)
    PROVE  FoundInv'
  <1>1. PICK s : s = discovery[r]
    OBVIOUS
  <1>2. PICK candidates, archived, undecided, q :
            /\ candidates \in Announcement!Candidates(s) /\ archived \in Announcement!ArchiveTimes
            /\ undecided = candidates \ (Announcement!Decided \cup archived)
            /\ q = [s EXCEPT !.asked = undecided, !.at = IF undecided = {} THEN "over" ELSE "ask"]
            /\ Announcement!Goes(r, q)
    BY <1>1 DEF Announcement!ReadDecisions
  <1>3. /\ s.at = "select"
        /\ UNCHANGED <<foundNow, foundStart, ranking, foundMaster, foundManifest, foundEvents, decisions, version, premieresAnnounced, excused>>
    BY <1>1 DEF Announcement!ReadDecisions, Announcement!world, Announcement!tables
  <1>4. FoundRunOK(s) /\ s = [f \in FoundFields |-> s[f]] /\ Flying(s)
    BY <1>1, <1>3, FlyingRun DEF Flying
  <1>5. PICK t : t = IF q.at = "over" THEN OverRun ELSE q
    OBVIOUS
  <1>6. discovery' = [discovery EXCEPT ![r] = t]
    BY <1>2, <1>5, GoesTo
  <1>7. /\ q = [f \in FoundFields |-> q[f]] /\ q.at \in {"over", "ask"} /\ q.asked = undecided
        /\ q.time = s.time /\ q.known = s.known /\ q.found = s.found /\ q.record = s.record /\ q.facts = s.facts
        /\ q.new = s.new /\ q.seen = s.seen
    BY <1>2, <1>4 DEF FoundFields
  <1>8. /\ undecided \subseteq FoundVideos /\ undecided \cap (s.known \cup s.found) = {}
        /\ undecided \cap Announcement!Decided = {}
    BY <1>2 DEF Announcement!Candidates
  <1>9. FoundRunOK(q)
    <2>1. DOMAIN q.facts = {} /\ DOMAIN q.new = {}
      BY <1>3, <1>4, <1>7 DEF FoundRunOK
    <2>2. QED
      BY <1>3, <1>4, <1>7, <1>8, <2>1 DEF FoundRunOK, Flying
  <1>10. FoundRunOK(t)
    BY <1>5, <1>9, FoundTime, OverRunOK
  <1>11. ASSUME NEW v \in FoundVideos \ excused'
         PROVE  /\ Flying(t) => FoundClaims(t, v)
                /\ Holds(s, v) => FoundKnown(v) \/ (Flying(t) /\ Holds(t, v))
    <2>1. FoundClaims(s, v)
      BY <1>1, <1>3, <1>4, <1>11, OnlyRun
    <2>2. FoundClaims(q, v)
      BY <1>3, <1>7, <1>8, <2>1 DEF FoundClaims
    <2>3. ~Holds(s, v)
      BY <1>3 DEF Holds
    <2>4. QED
      BY <1>5, <2>2, <2>3, OverRunFields
  <1>12. excused \subseteq excused' /\ excused' \subseteq FoundVideos
    BY <1>3, FoundTime DEF FoundTypes
  <1>13. QED
    BY <1>1, <1>3, <1>4, <1>6, <1>10, <1>11, <1>12, RunThinks

\* Only a Premiere is told to be an upcoming Premiere.
LEMMA PremiereFact ==
    ASSUME NEW v \in FoundVideos, Announcement!UpcomingFact(v).premiere
    PROVE  FoundKind[v] = "premiere"
  <1>1. FoundKind[v] \in {"premiere", "stream"}
    BY FoundLimits
  <1>2. Announcement!IsUpcomingPremiere(Announcement!Item(FoundKind[v], "upcoming"))
    BY DEF Announcement!UpcomingFact
  <1>3. QED
    BY <1>1, <1>2 DEF Announcement!IsUpcomingPremiere, Announcement!Item

LEMMA StepFoundAskYouTube ==
    ASSUME FoundInv, NEW r \in Discoveries, Announcement!AskYouTube(r)
    PROVE  FoundInv'
  <1>1. PICK s : s = discovery[r]
    OBVIOUS
  <1>2. /\ s.at = "ask"
        /\ UNCHANGED <<foundNow, foundStart, ranking, foundMaster, foundManifest, foundEvents, decisions, version, premieresAnnounced, excused>>
    BY <1>1 DEF Announcement!AskYouTube, Announcement!world, Announcement!tables
  <1>3. FoundRunOK(s) /\ s = [f \in FoundFields |-> s[f]] /\ Flying(s)
    BY <1>1, <1>2, FlyingRun DEF Flying
  <1>4. PICK told, q :
            /\ told \in SUBSET {v \in s.asked : ~Announcement!Started(v)}
            /\ \/ q = [s EXCEPT !.facts = [v \in told |-> Announcement!UpcomingFact(v)], !.at = "announce"]
               \/ told = {} /\ q = [s EXCEPT !.at = "over"]
            /\ Announcement!Goes(r, q)
    <2>1. PICK answer \in Announcement!Answers :
            IF Announcement!CallYoutubeApi(<<answer>>) = "response"
            THEN \E told \in SUBSET {v \in s.asked : ~Announcement!Started(v)} :
                    Announcement!Goes(r, [s EXCEPT !.facts = [v \in told |-> Announcement!UpcomingFact(v)], !.at = "announce"])
            ELSE Announcement!Goes(r, [s EXCEPT !.at = "over"])
      BY <1>1 DEF Announcement!AskYouTube
    <2>2. CASE Announcement!CallYoutubeApi(<<answer>>) = "response"
      BY <2>1, <2>2
    <2>3. CASE Announcement!CallYoutubeApi(<<answer>>) # "response"
      <3>1. {} \in SUBSET {v \in s.asked : ~Announcement!Started(v)}
        OBVIOUS
      <3>2. Announcement!Goes(r, [s EXCEPT !.at = "over"])
        BY <2>1, <2>3
      <3>3. QED
        BY <3>1, <3>2
    <2>4. QED
      BY <2>2, <2>3
  <1>5. PICK t : t = IF q.at = "over" THEN OverRun ELSE q
    OBVIOUS
  <1>6. discovery' = [discovery EXCEPT ![r] = t]
    BY <1>4, <1>5, GoesTo
  <1>7. q.at = "over" \/ (q.at = "announce" /\ FoundRunOK(q) /\ q.asked = s.asked /\ q.known = s.known /\ q.found = s.found)
    <2>1. CASE q = [s EXCEPT !.at = "over"]
      BY <1>3, <2>1 DEF FoundFields
    <2>2. CASE q = [s EXCEPT !.facts = [v \in told |-> Announcement!UpcomingFact(v)], !.at = "announce"]
      <3>1. /\ q = [f \in FoundFields |-> q[f]] /\ q.at = "announce" /\ q.asked = s.asked
            /\ q.time = s.time /\ q.known = s.known /\ q.found = s.found /\ q.record = s.record
            /\ q.facts = [v \in told |-> Announcement!UpcomingFact(v)] /\ q.new = s.new /\ q.seen = s.seen
        BY <1>3, <2>2 DEF FoundFields
      <3>2. DOMAIN q.facts \subseteq q.asked /\ \A v \in DOMAIN q.facts : q.facts[v].premiere => FoundKind[v] = "premiere"
        <4>1. \A v \in told : v \in FoundVideos /\ v \in s.asked
          BY <1>3, <1>4 DEF FoundRunOK
        <4>2. QED
          BY <3>1, <4>1, PremiereFact
      <3>3. DOMAIN q.new = {}
        BY <1>2, <1>3, <3>1 DEF FoundRunOK
      <3>4. FoundRunOK(q)
        BY <1>2, <1>3, <3>1, <3>2, <3>3 DEF FoundRunOK, Flying
      <3>5. QED
        BY <3>1, <3>4
    <2>3. QED
      BY <1>4, <2>1, <2>2
  <1>8. FoundRunOK(t)
    BY <1>5, <1>7, FoundTime, OverRunOK
  <1>9. ASSUME NEW v \in FoundVideos \ excused'
        PROVE  /\ Flying(t) => FoundClaims(t, v)
               /\ Holds(s, v) => FoundKnown(v) \/ (Flying(t) /\ Holds(t, v))
    <2>1. FoundClaims(s, v)
      BY <1>1, <1>2, <1>3, <1>9, OnlyRun
    <2>2. q.at = "announce" => FoundClaims(q, v)
      BY <1>2, <1>7, <2>1 DEF FoundClaims
    <2>3. ~Holds(s, v)
      BY <1>2 DEF Holds
    <2>4. q.at # "announce" => ~Flying(t)
      BY <1>5, <1>7, OverRunFields
    <2>5. QED
      BY <1>5, <1>7, <2>2, <2>3, <2>4
  <1>10. excused \subseteq excused' /\ excused' \subseteq FoundVideos
    BY <1>2, FoundTime DEF FoundTypes
  <1>11. QED
    BY <1>1, <1>2, <1>3, <1>6, <1>8, <1>9, <1>10, RunThinks

LEMMA StepFoundRecordAnnouncements ==
    ASSUME FoundInv, NEW r \in Discoveries, Announcement!RecordAnnouncements(r)
    PROVE  FoundInv'
  <1>1. PICK s, to : s = discovery[r] /\ to = Announcement!ToAnnounce(s)
    OBVIOUS
  <1>2. /\ s.at = "announce"
        /\ UNCHANGED <<foundNow, foundStart, ranking, foundMaster, foundManifest, decisions, version>>
    BY <1>1 DEF Announcement!RecordAnnouncements, Announcement!world
  <1>3. FoundRunOK(s) /\ s = [f \in FoundFields |-> s[f]] /\ Flying(s)
    BY <1>1, <1>2, FlyingRun DEF Flying
  <1>4. foundNow \in Nat /\ version \in Nat /\ FoundWorld /\ FoundTypes
    BY FoundTime
  <1>5. to \in SUBSET FoundVideos /\ to \subseteq DOMAIN s.facts /\ to \subseteq s.asked /\ \A v \in to : FoundKind[v] = "premiere"
    BY <1>1, <1>3 DEF FoundRunOK, Announcement!ToAnnounce
  <1>6. CASE /\ foundEvents' = Announcement!Rows(s, to) /\ premieresAnnounced' = premieresAnnounced \cup to /\ UNCHANGED excused
             /\ Announcement!Goes(r, [s EXCEPT !.new = [v \in DOMAIN s.facts |-> v \in to],
                                         !.at = IF s.facts = <<>> THEN "over" ELSE "read"])
    <2>1. PICK q : q = [s EXCEPT !.new = [v \in DOMAIN s.facts |-> v \in to], !.at = IF s.facts = <<>> THEN "over" ELSE "read"]
      OBVIOUS
    <2>2. PICK t : t = IF q.at = "over" THEN OverRun ELSE q
      OBVIOUS
    <2>3. /\ q = [f \in FoundFields |-> q[f]] /\ q.record = s.record
          /\ q.time = s.time /\ q.known = s.known /\ q.found = s.found /\ q.asked = s.asked /\ q.facts = s.facts
          /\ q.new = [v \in DOMAIN s.facts |-> v \in to] /\ q.seen = s.seen
          /\ q.at \in {"over", "read"} /\ (q.at = "over" => s.facts = <<>>)
      BY <1>3, <2>1 DEF FoundFields
    <2>4. discovery' = [discovery EXCEPT ![r] = t]
      BY <1>6, <2>1, <2>2, GoesTo
    <2>5. /\ foundEvents \subseteq foundEvents' /\ foundEvents' \subseteq (0..Announcement!Date(FoundMaxNow)) \X FoundVideos
          /\ \A v \in to : <<Announcement!Date(s.time), v>> \in foundEvents' /\ Announcement!HasEvent(v)'
          /\ \A e \in foundEvents' : e \in foundEvents \/ (e[2] \in to /\ e = <<Announcement!Date(s.time), e[2]>>)
      BY <1>3, <1>5, <1>6, RowsAre
    <2>6. FoundGrows
      BY <1>2, <1>4, <1>6, <2>5 DEF FoundGrows
    <2>7. FoundRunOK(s)'
      BY <1>3, <1>4, <2>6, FoundRunStays
    <2>8. DOMAIN q.new \subseteq q.asked /\ \A v \in DOMAIN q.new : q.new[v] => v \in premieresAnnounced'
      BY <1>3, <1>6, <2>3 DEF FoundRunOK
    <2>9. q.at = "read" => FoundRunOK(q)'
      BY <1>2, <2>3, <2>7, <2>8 DEF FoundRunOK, Flying
    <2>10. FoundRunOK(t)'
      <3>1. PICK u : u = OverRun
        OBVIOUS
      <3>2. FoundRunOK(u)'
        BY <1>4, <2>6, <3>1, OverRunOK, FoundRunStays
      <3>3. t = u \/ (t = q /\ q.at = "read")
        BY <2>2, <2>3, <3>1
      <3>4. QED
        BY <2>9, <3>2, <3>3
    <2>11. FoundWorld'
      <3>1. premieresAnnounced' \subseteq FoundVideos /\ \A v \in premieresAnnounced' \ premieresAnnounced : FoundKind[v] = "premiere" /\ Announcement!HasEvent(v)'
        BY <1>4, <1>5, <1>6, <2>5 DEF FoundWorld
      <3>2. \A v \in DOMAIN decisions' : decisions'[v].premiere => v \in premieresAnnounced'
        BY <1>2, <1>4, <1>6 DEF FoundWorld, Announcement!AnnouncedVideoIds
      <3>3. QED
        BY <1>2, <1>4, <1>6, <2>4, <2>5, <2>6, <3>1, <3>2, WorldGrows DEF FoundTypes, Announcement!Decided
    <2>12. ASSUME NEW v \in FoundVideos \ excused'
           PROVE  /\ Flying(t) => FoundClaims(t, v)'
                  /\ OneRow(v)'
                  /\ Announcement!HasEvent(v)' => FoundKnown(v)' \/ (Flying(t) /\ Holds(t, v))
      <3>1. /\ FoundClaims(s, v) /\ OneRow(v) /\ (Announcement!HasEvent(v) => FoundKnown(v) \/ Holds(s, v))
        BY <1>1, <1>3, <1>6, <2>12, OnlyRun
      <3>2. ~Holds(s, v)
        BY <1>2 DEF Holds
      <3>3. FoundClaims(q, v)'
        BY <1>2, <2>3, <3>1 DEF FoundClaims, Announcement!Decided, Announcement!AnnouncedVideoIds
      <3>4. FoundKnown(v)' = FoundKnown(v)
        BY <1>2 DEF FoundKnown, Announcement!AnnouncedVideoIds
      <3>5. Flying(t) => t = q
        BY <2>2, OverRunFields
      <3>6. CASE v \in to
        <4>1. v \in s.asked /\ v \notin s.known \cup s.found
          BY <1>3, <1>5, <3>6 DEF FoundRunOK
        <4>2. ~FoundKnown(v)
          BY <1>2, <3>1, <4>1 DEF FoundClaims, FoundKnown, Announcement!AnnouncedVideoIds, Announcement!Decided
        <4>3. OneRow(v)'
          BY <2>5, <3>1, <3>2, <4>2, FirstRow
        <4>4. q.at = "read"
          <5>1. DOMAIN <<>> = {}
            OBVIOUS
          <5>2. QED
            BY <1>5, <2>3, <3>6, <5>1
        <4>5. t = q /\ Flying(t)
          BY <2>2, <4>4 DEF Flying
        <4>6. Holds(t, v)
          BY <1>5, <2>3, <3>6, <4>4, <4>5 DEF Holds
        <4>7. QED
          BY <3>3, <4>3, <4>5, <4>6
      <3>7. CASE v \notin to
        <4>1. \A e \in foundEvents' : e[2] = v => e \in foundEvents
          BY <2>5, <3>7
        <4>2. OneRow(v)' /\ (Announcement!HasEvent(v)' => Announcement!HasEvent(v))
          BY <3>1, <4>1 DEF OneRow, Announcement!HasEvent
        <4>3. QED
          BY <3>1, <3>2, <3>3, <3>4, <3>5, <4>2
      <3>8. QED
        BY <3>6, <3>7
    <2>13. QED
      BY <1>1, <1>3, <2>4, <2>6, <2>10, <2>11, <2>12, RunMoves
  <1>7. CASE Announcement!FailsRun(r) /\ \E share \in SUBSET to : foundEvents' = Announcement!Rows(s, share) /\ premieresAnnounced' = premieresAnnounced \cup share
    <2>1. PICK share \in SUBSET to : foundEvents' = Announcement!Rows(s, share) /\ premieresAnnounced' = premieresAnnounced \cup share
      BY <1>7
    <2>2. /\ discovery' = [discovery EXCEPT ![r] = OverRun] /\ excused' = excused \cup Announcement!Touched(s)
          /\ excused' \subseteq FoundVideos
      BY <1>1, <1>7, FailsRunIs
    <2>3. share \in SUBSET FoundVideos /\ share \subseteq Announcement!Touched(s)
      BY <1>5 DEF Announcement!Touched
    <2>4. /\ foundEvents \subseteq foundEvents' /\ foundEvents' \subseteq (0..Announcement!Date(FoundMaxNow)) \X FoundVideos
          /\ \A v \in share : Announcement!HasEvent(v)'
          /\ \A e \in foundEvents' : e \in foundEvents \/ e[2] \in share
      BY <1>3, <2>1, <2>3, RowsAre
    <2>5. FoundGrows
      BY <1>2, <1>4, <2>1, <2>2, <2>4 DEF FoundGrows
    <2>6. FoundWorld'
      <3>1. premieresAnnounced' \subseteq FoundVideos /\ \A v \in premieresAnnounced' \ premieresAnnounced : FoundKind[v] = "premiere" /\ Announcement!HasEvent(v)'
        BY <1>4, <1>5, <2>1, <2>3, <2>4 DEF FoundWorld
      <3>2. \A v \in DOMAIN decisions' : decisions'[v].premiere => v \in premieresAnnounced'
        BY <1>2, <1>4, <2>1 DEF FoundWorld, Announcement!AnnouncedVideoIds
      <3>3. QED
        BY <1>2, <1>4, <2>2, <2>4, <2>5, <3>1, <3>2, WorldGrows DEF FoundTypes, Announcement!Decided
    <2>7. \A e \in foundEvents' : e \in foundEvents \/ e[2] \in Announcement!Touched(s)
      BY <2>3, <2>4
    <2>8. QED
      BY <1>1, <1>2, <1>3, <2>2, <2>5, <2>6, <2>7, RunFails
  <1>8. QED
    BY <1>1, <1>6, <1>7 DEF Announcement!RecordAnnouncements

LEMMA StepFoundReadState ==
    ASSUME FoundInv, NEW r \in Discoveries, Announcement!ReadState(r)
    PROVE  FoundInv'
  <1>1. PICK s : s = discovery[r]
    OBVIOUS
  <1>2. /\ s.at = "read"
        /\ UNCHANGED <<foundNow, foundStart, ranking, foundMaster, foundManifest, foundEvents, decisions, version, premieresAnnounced>>
    BY <1>1 DEF Announcement!ReadState, Announcement!world, Announcement!tables
  <1>3. FoundRunOK(s) /\ s = [f \in FoundFields |-> s[f]] /\ Flying(s)
    BY <1>1, <1>2, FlyingRun DEF Flying
  <1>4. foundNow \in Nat /\ version \in Nat /\ FoundWorld /\ FoundTypes
    BY FoundTime
  <1>5. PICK q : q = [s EXCEPT !.seen = decisions, !.version = version,
                         !.at = IF DOMAIN s.new \subseteq Announcement!Decided THEN "over" ELSE "write"]
    OBVIOUS
  <1>6. (Announcement!Goes(r, q) /\ UNCHANGED excused) \/ Announcement!FailsRun(r)
    BY <1>1, <1>5 DEF Announcement!ReadState
  <1>7. CASE Announcement!Goes(r, q) /\ UNCHANGED excused
    <2>1. /\ q = [f \in FoundFields |-> q[f]] /\ q.record = s.record
          /\ q.time = s.time /\ q.known = s.known /\ q.found = s.found /\ q.asked = s.asked /\ q.facts = s.facts
          /\ q.new = s.new /\ q.seen = decisions /\ q.version = version
          /\ q.at \in {"over", "write"} /\ (q.at = "over" => DOMAIN s.new \subseteq Announcement!Decided)
      BY <1>3, <1>5 DEF FoundFields
    <2>2. PICK t : t = IF q.at = "over" THEN OverRun ELSE q
      OBVIOUS
    <2>3. discovery' = [discovery EXCEPT ![r] = t]
      BY <1>7, <2>2, GoesTo
    <2>4. DOMAIN q.seen \subseteq FoundVideos /\ \A v \in DOMAIN q.seen : q.seen[v].premiere => v \in premieresAnnounced
      BY <1>4, <2>1 DEF FoundWorld, FoundTypes, Announcement!Decided, Announcement!AnnouncedVideoIds
    <2>5. ASSUME q.at = "write" PROVE FoundRunOK(q)
      <3>1. /\ q.at \in {"over", "discover", "announced", "events", "upsert", "patch", "known", "ask", "announce", "read", "write"}
            /\ q.version \in Nat /\ q.version <= version
        BY <1>4, <2>1, <2>5
      <3>2. DOMAIN q.seen \subseteq FoundVideos /\ \A v \in DOMAIN q.seen : q.seen[v].premiere => v \in premieresAnnounced
        BY <2>4
      <3>3. QED
        BY <1>2, <1>3, <2>1, <2>5, <3>1, <3>2 DEF FoundRunOK
    <2>6. FoundRunOK(t)
      BY <1>4, <2>1, <2>2, <2>5, OverRunOK
    <2>7. ASSUME NEW v \in FoundVideos \ excused'
          PROVE  /\ Flying(t) => FoundClaims(t, v)
                 /\ Holds(s, v) => FoundKnown(v) \/ (Flying(t) /\ Holds(t, v))
      <3>1. FoundClaims(s, v)
        BY <1>1, <1>3, <1>7, <2>7, OnlyRun
      <3>2. q.at = "write" => FoundClaims(q, v)
        BY <1>2, <2>1, <3>1 DEF FoundClaims
      <3>3. CASE q.at = "write"
        <4>1. t = q /\ Flying(t) /\ (Holds(s, v) => Holds(t, v))
          BY <1>2, <2>1, <2>2, <3>3 DEF Flying, Holds
        <4>2. QED
          BY <3>2, <3>3, <4>1
      <3>4. CASE q.at = "over"
        <4>1. ~Holds(s, v)
          BY <1>2, <1>3, <2>1, <3>1, <3>4 DEF Holds, FoundClaims, FoundRunOK
        <4>2. ~Flying(t)
          BY <2>2, <3>4, OverRunFields
        <4>3. QED
          BY <4>1, <4>2
      <3>5. QED
        BY <2>1, <3>3, <3>4
    <2>8. excused \subseteq excused' /\ excused' \subseteq FoundVideos
      BY <1>4, <1>7 DEF FoundTypes
    <2>9. QED
      BY <1>1, <1>2, <1>3, <2>3, <2>6, <2>7, <2>8, RunThinks
  <1>8. CASE Announcement!FailsRun(r)
    BY <1>1, <1>2, <1>3, <1>8, RunDies
  <1>9. QED
    BY <1>6, <1>7, <1>8

\* What was read, and the new decisions about the rest.
MergedAs(s, merged) ==
    /\ DOMAIN merged = DOMAIN s.seen \cup DOMAIN s.new
    /\ \A v \in DOMAIN s.seen : merged[v] = s.seen[v]
    /\ \A v \in DOMAIN s.new \ DOMAIN s.seen : merged[v].premiere = s.new[v]

LEMMA MergeIs ==
    ASSUME NEW s, NEW merged, merged = Announcement!Merge(s)
    PROVE  MergedAs(s, merged)
  <1>1. merged = [v \in DOMAIN s.seen \cup DOMAIN s.new |->
                    IF v \in DOMAIN s.seen THEN s.seen[v] ELSE [premiere |-> s.new[v], at |-> s.time]]
    BY DEF Announcement!Merge
  <1>2. QED
    BY <1>1 DEF MergedAs

\* The decisions are written over the ones that were read.
LEMMA FoundWrites ==
    ASSUME FoundInv, NEW r \in Discoveries, NEW s, s = discovery[r], s.at = "write", version = s.version,
           Announcement!Writes(s), Announcement!Goes(r, [s EXCEPT !.at = "over"]),
           UNCHANGED <<foundNow, foundStart, ranking, foundMaster, foundManifest, foundEvents, premieresAnnounced>>
    PROVE  FoundInv'
  <1>1. PICK merged, keep :
            /\ merged = Announcement!Merge(s) /\ keep \in Announcement!Newest(merged)
            /\ decisions' = [v \in keep |-> merged[v]] /\ version' = version + 1
            /\ excused' = excused \cup (DOMAIN merged \ keep)
    BY DEF Announcement!Writes
  <1>2. FoundRunOK(s) /\ s = [f \in FoundFields |-> s[f]] /\ Flying(s)
    BY FlyingRun DEF Flying
  <1>3. foundNow \in Nat /\ version \in Nat /\ FoundWorld /\ FoundTypes
    BY FoundTime
  <1>4. s.seen = decisions /\ DOMAIN s.new \subseteq FoundVideos /\ DOMAIN s.seen \subseteq FoundVideos
    BY <1>2 DEF FoundRunOK
  <1>5. /\ DOMAIN merged = DOMAIN s.seen \cup DOMAIN s.new
        /\ \A v \in DOMAIN s.seen : merged[v] = decisions[v]
        /\ \A v \in DOMAIN s.new \ DOMAIN s.seen : merged[v].premiere = s.new[v]
    <2>1. merged = Announcement!Merge(s)
      BY <1>1
    <2>2. MergedAs(s, merged)
      BY <2>1, MergeIs
    <2>3. QED
      BY <1>4, <2>2 DEF MergedAs
  <1>6. discovery' = [discovery EXCEPT ![r] = OverRun]
    <2>1. PICK q : q = [s EXCEPT !.at = "over"]
      OBVIOUS
    <2>2. q.at = "over"
      BY <1>2, <2>1 DEF FoundFields
    <2>3. QED
      BY <2>1, <2>2, GoesTo
  <1>7. keep \subseteq DOMAIN merged /\ DOMAIN decisions' = keep /\ \A v \in keep : decisions'[v] = merged[v]
    BY <1>1 DEF Announcement!Newest
  <1>8. excused \subseteq excused' /\ excused' \subseteq FoundVideos
    BY <1>1, <1>3, <1>4, <1>5 DEF FoundTypes
  <1>9. FoundGrows
    BY <1>1, <1>3, <1>8 DEF FoundGrows
  <1>10. FoundWorld'
    <2>1. Cardinality(keep) <= MaxEntries
      <3>1. DOMAIN merged \in SUBSET FoundVideos
        BY <1>4, <1>5
      <3>2. IsFiniteSet(DOMAIN merged) /\ Cardinality(DOMAIN merged) \in Nat
        BY <3>1, FoundLimits, FS_Subset, FS_CardinalityType
      <3>3. Cardinality(keep) = IF Cardinality(DOMAIN merged) < MaxEntries THEN Cardinality(DOMAIN merged) ELSE MaxEntries
        BY <1>1, SameFoundSize DEF Announcement!Newest
      <3>4. QED
        BY <3>2, <3>3, FoundLimits
    <2>2. ASSUME NEW v \in DOMAIN decisions', decisions'[v].premiere PROVE v \in premieresAnnounced'
      <3>1. v \in DOMAIN merged /\ merged[v].premiere
        BY <1>7, <2>2
      <3>2. CASE v \in DOMAIN s.seen
        BY <1>2, <1>4, <1>5, <3>1, <3>2 DEF FoundRunOK
      <3>3. CASE v \in DOMAIN s.new \ DOMAIN s.seen
        BY <1>2, <1>5, <3>1, <3>3 DEF FoundRunOK
      <3>4. QED
        BY <1>5, <3>1, <3>2, <3>3
    <2>3. DOMAIN decisions' \subseteq FoundVideos
      BY <1>4, <1>5, <1>7
    <2>4. QED
      BY <1>3, <1>6, <1>7, <1>8, <1>9, <2>1, <2>2, <2>3, WorldGrows DEF FoundWorld, FoundTypes
  <1>11. FoundRunOK(OverRun)'
    <2>1. PICK u : u = OverRun
      OBVIOUS
    <2>2. FoundRunOK(u)'
      BY <1>3, <1>9, <2>1, OverRunOK, FoundRunStays
    <2>3. QED
      BY <2>1, <2>2
  <1>12. ASSUME NEW v \in FoundVideos \ excused'
         PROVE  OneRow(v)' /\ (Announcement!HasEvent(v)' => FoundKnown(v)')
    <2>1. v \notin excused /\ (v \in DOMAIN merged => v \in keep)
      BY <1>1, <1>12
    <2>2. /\ FoundClaims(s, v) /\ OneRow(v) /\ (Announcement!HasEvent(v) => FoundKnown(v) \/ Holds(s, v))
      BY <1>2, <1>12, <2>1, OnlyRun
    <2>3. OneRow(v)' /\ Announcement!HasEvent(v)' = Announcement!HasEvent(v)
      BY <2>2 DEF OneRow, Announcement!HasEvent
    <2>4. ASSUME v \in Announcement!AnnouncedVideoIds(decisions) PROVE FoundKnown(v)'
      <3>1. v \in DOMAIN s.seen /\ decisions[v].premiere
        BY <1>4, <2>4 DEF Announcement!AnnouncedVideoIds
      <3>2. v \in keep /\ decisions'[v] = decisions[v]
        BY <1>5, <1>7, <2>1, <3>1
      <3>3. QED
        BY <1>7, <3>1, <3>2 DEF FoundKnown, Announcement!AnnouncedVideoIds
    <2>5. ASSUME Holds(s, v) PROVE FoundKnown(v)'
      <3>1. v \in DOMAIN s.new /\ s.new[v] /\ v \in s.asked
        BY <1>2, <2>5 DEF Holds, FoundRunOK
      <3>2. v \notin DOMAIN s.seen
        BY <1>4, <2>2, <3>1 DEF FoundClaims, Announcement!Decided
      <3>3. v \in keep /\ merged[v].premiere
        BY <1>5, <2>1, <3>1, <3>2
      <3>4. QED
        BY <1>7, <3>3 DEF FoundKnown, Announcement!AnnouncedVideoIds
    <2>6. v \in foundManifest => FoundKnown(v)'
      BY DEF FoundKnown
    <2>7. QED
      BY <2>2, <2>3, <2>4, <2>5, <2>6 DEF FoundKnown
  <1>13. QED
    BY <1>2, <1>6, <1>9, <1>10, <1>11, <1>12, OverRunFields, RunMoves

LEMMA StepFoundRecordDecisions ==
    ASSUME FoundInv, NEW r \in Discoveries, Announcement!RecordDecisions(r)
    PROVE  FoundInv'
  <1>1. PICK s : s = discovery[r]
    OBVIOUS
  <1>2. /\ s.at = "write"
        /\ UNCHANGED <<foundNow, foundStart, ranking, foundMaster, foundManifest, foundEvents, premieresAnnounced>>
    BY <1>1 DEF Announcement!RecordDecisions, Announcement!world
  <1>3. FoundRunOK(s) /\ s = [f \in FoundFields |-> s[f]] /\ Flying(s)
    BY <1>1, <1>2, FlyingRun DEF Flying
  <1>4. foundNow \in Nat /\ version \in Nat /\ FoundWorld /\ FoundTypes
    BY FoundTime
  <1>5. CASE version = s.version /\ Announcement!Writes(s) /\ Announcement!Goes(r, [s EXCEPT !.at = "over"])
    BY <1>1, <1>2, <1>5, FoundWrites
  <1>6. CASE Announcement!FailsRun(r) /\ UNCHANGED <<decisions, version>>
    BY <1>1, <1>2, <1>3, <1>6, RunDies
  <1>7. CASE /\ Announcement!Goes(r, [s EXCEPT !.attempt = @ + 1, !.at = IF s.attempt + 1 < MaxAttempts THEN "read" ELSE "over"])
             /\ excused' = IF discovery'[r].at = "over" THEN excused \cup s.asked ELSE excused
             /\ UNCHANGED <<decisions, version>>
    <2>1. PICK q : q = [s EXCEPT !.attempt = @ + 1, !.at = IF s.attempt + 1 < MaxAttempts THEN "read" ELSE "over"]
      OBVIOUS
    <2>2. /\ q = [f \in FoundFields |-> q[f]] /\ q.record = s.record
          /\ q.time = s.time /\ q.known = s.known /\ q.found = s.found /\ q.asked = s.asked /\ q.facts = s.facts
          /\ q.new = s.new /\ q.seen = s.seen /\ q.at \in {"over", "read"}
      BY <1>3, <2>1 DEF FoundFields
    <2>3. PICK t : t = IF q.at = "over" THEN OverRun ELSE q
      OBVIOUS
    <2>4. discovery' = [discovery EXCEPT ![r] = t]
      BY <1>7, <2>1, <2>3, GoesTo
    <2>5. q.at = "read" => FoundRunOK(q)
      BY <1>2, <1>3, <2>2 DEF FoundRunOK, Flying
    <2>6. FoundRunOK(t)
      BY <1>4, <2>2, <2>3, <2>5, OverRunOK
    <2>7. discovery'[r] = t
      BY <2>4, FoundTime
    <2>8. excused \subseteq excused' /\ excused' \subseteq FoundVideos
      BY <1>3, <1>4, <1>7 DEF FoundTypes, FoundRunOK
    <2>9. ASSUME NEW v \in FoundVideos \ excused'
          PROVE  /\ Flying(t) => FoundClaims(t, v)
                 /\ Holds(s, v) => FoundKnown(v) \/ (Flying(t) /\ Holds(t, v))
      <3>1. FoundClaims(s, v)
        BY <1>1, <1>3, <2>8, <2>9, OnlyRun
      <3>2. CASE q.at = "read"
        <4>1. t = q /\ Flying(t) /\ (Holds(s, v) => Holds(t, v))
          BY <1>2, <2>2, <2>3, <3>2 DEF Flying, Holds
        <4>2. FoundClaims(q, v)
          BY <1>2, <2>2, <3>1, <3>2 DEF FoundClaims
        <4>3. QED
          BY <4>1, <4>2
      <3>3. CASE q.at = "over"
        <4>1. t.at = "over" /\ ~Flying(t)
          BY <2>3, <3>3, OverRunFields
        <4>2. v \notin s.asked
          BY <1>7, <2>7, <2>9, <4>1
        <4>3. ~Holds(s, v)
          BY <1>2, <1>3, <4>2 DEF Holds, FoundRunOK
        <4>4. QED
          BY <4>1, <4>3
      <3>4. QED
        BY <2>2, <3>2, <3>3
    <2>10. QED
      BY <1>1, <1>2, <1>3, <1>7, <2>4, <2>6, <2>8, <2>9, RunThinks
  <1>8. QED
    BY <1>1, <1>5, <1>6, <1>7 DEF Announcement!RecordDecisions

LEMMA StepFoundDies ==
    ASSUME FoundInv, NEW r \in Discoveries, Announcement!Dies(r)
    PROVE  FoundInv'
  BY RunDies DEF Announcement!Dies, Announcement!InFlight, Flying, Announcement!world, Announcement!tables

\* A step of the world that leaves the tables and the runs as they are.
LEMMA FoundVideosStay ==
    ASSUME FoundInv, UNCHANGED <<foundManifest, foundEvents, decisions, discovery, excused>>
    PROVE  \A v \in FoundVideos : FoundVideo(v)'
  BY DEF FoundInv, FoundVideo, FoundClaims, FoundKnown, OneRow, Announcement!HasEvent, Announcement!AnnouncedVideoIds, Announcement!Decided

LEMMA StepFoundDailyRanking ==
    ASSUME FoundInv, Announcement!DailyRanking
    PROVE  FoundInv'
  <1>1. /\ \A r \in Discoveries : Flying(discovery[r]) => Announcement!Date(discovery[r].time) = Announcement!Date(foundNow)
        /\ ranking'.date = Announcement!Date(foundNow) /\ ranking'.videos = foundManifest
        /\ UNCHANGED <<foundNow, foundStart, foundMaster, foundManifest, foundEvents, decisions, version, discovery, excused, premieresAnnounced>>
    BY DEF Announcement!DailyRanking, Announcement!InFlight, Flying, Announcement!tables
  <1>2. foundNow \in Nat /\ FoundWorld /\ FoundTypes
    BY FoundTime
  <1>3. Announcement!Date(foundNow) \in Nat
    BY <1>2, FoundDates
  <1>4. FoundTypes'
    BY <1>1, <1>2, <1>3 DEF FoundTypes, Announcement!Decided, Announcement!Date
  <1>5. FoundWorld'
    BY <1>1, <1>2, <1>4 DEF FoundWorld, Announcement!HasEvent, Announcement!AnnouncedVideoIds
  <1>6. ASSUME NEW r \in Discoveries PROVE FoundRunOK(discovery[r])'
    <2>1. PICK s : s = discovery[r] /\ FoundRunOK(s)
      BY DEF FoundInv
    <2>2. Flying(s) => ranking'.date <= Announcement!Date(s.time)
      BY <1>1, <1>3, <2>1
    <2>3. FoundRunOK(s)'
      BY <1>1, <2>1, <2>2 DEF FoundRunOK, Announcement!Date
    <2>4. QED
      BY <1>1, <2>1, <2>3, SameRun
  <1>7. QED
    BY <1>1, <1>5, <1>6, FoundVideosStay DEF FoundInv

LEMMA StepFoundTick ==
    ASSUME FoundInv, Announcement!Tick
    PROVE  FoundInv'
  <1>1. /\ foundNow < FoundMaxNow /\ foundNow' = foundNow + 1
        /\ UNCHANGED <<foundStart, ranking, foundMaster, foundManifest, foundEvents, decisions, version, discovery, excused, premieresAnnounced>>
    BY DEF Announcement!Tick, Announcement!tables
  <1>2. foundNow \in Nat /\ FoundWorld /\ FoundTypes /\ FoundMaxNow \in Nat
    BY FoundTime, FoundLimits
  <1>3. /\ Announcement!Date(foundNow) \in Nat /\ Announcement!Date(foundNow)' \in Nat
        /\ Announcement!Date(foundNow) <= Announcement!Date(foundNow)'
    <2>1. foundNow + 1 \in Nat /\ foundNow <= foundNow + 1
      BY <1>2
    <2>2. Announcement!Date(foundNow)' = Announcement!Date(foundNow + 1)
      BY <1>1 DEF Announcement!Date
    <2>3. QED
      BY <1>2, <2>1, <2>2, FoundDates
  <1>4. Announcement!Date(FoundMaxNow)' = Announcement!Date(FoundMaxNow)
    BY DEF Announcement!Date
  <1>5. FoundTypes'
    BY <1>1, <1>2, <1>3, <1>4 DEF FoundTypes, Announcement!Decided
  <1>6. \A v : Listable(v) => Listable(v)'
    <2>1. ranking.date \in Nat
      BY <1>2, <1>3 DEF FoundTypes
    <2>2. \A d \in ranking.date..Announcement!Date(foundNow) : d \in ranking.date..(Announcement!Date(foundNow)')
      BY <1>3, <2>1
    <2>3. QED
      BY <1>1, <2>2 DEF Listable
  <1>7. FoundWorld'
    BY <1>1, <1>2, <1>5, <1>6 DEF FoundWorld, Announcement!HasEvent, Announcement!AnnouncedVideoIds
  <1>8. ASSUME NEW r \in Discoveries PROVE FoundRunOK(discovery[r])'
    <2>1. PICK s : s = discovery[r] /\ FoundRunOK(s)
      BY DEF FoundInv
    <2>2. s.time \in 0..foundNow'
      BY <1>1, <1>2, <2>1 DEF FoundRunOK
    <2>3. FoundRunOK(s)'
      BY <1>1, <2>1, <2>2 DEF FoundRunOK, Announcement!Date
    <2>4. QED
      BY <1>1, <2>1, <2>3, SameRun
  <1>9. QED
    BY <1>1, <1>7, <1>8, FoundVideosStay DEF FoundInv

LEMMA StepFoundDelay ==
    ASSUME FoundInv, NEW v \in FoundVideos, Announcement!Delay(v)
    PROVE  FoundInv'
  <1>1. /\ foundStart[v] < FoundMaxNow /\ foundStart' = [foundStart EXCEPT ![v] = @ + 1]
        /\ UNCHANGED <<foundNow, ranking, foundMaster, foundManifest, foundEvents, decisions, version, discovery, excused, premieresAnnounced>>
    BY DEF Announcement!Delay, Announcement!tables
  <1>2. FoundWorld /\ FoundTypes /\ FoundMaxNow \in Nat
    BY FoundTime, FoundLimits
  <1>3. foundStart' \in [FoundVideos -> 0..FoundMaxNow]
    BY <1>1, <1>2 DEF FoundTypes
  <1>4. FoundTypes'
    BY <1>1, <1>2, <1>3 DEF FoundTypes, Announcement!Decided, Announcement!Date
  <1>5. FoundWorld'
    BY <1>1, <1>2, <1>4 DEF FoundWorld, Announcement!HasEvent, Announcement!AnnouncedVideoIds, Listable, Announcement!Date
  <1>6. \A r \in Discoveries : FoundRunOK(discovery[r])'
    BY <1>1 DEF FoundInv, FoundRunOK, Announcement!Date
  <1>7. QED
    BY <1>1, <1>5, <1>6, FoundVideosStay DEF FoundInv

LEMMA StepFound == FoundInv /\ Announcement!Next => FoundInv'
  BY StepFoundStart, StepFoundDiscover, StepFoundReadAnnounced, StepFoundRecordEvents, StepFoundUpsertVideos,
     StepFoundPatchManifest, StepFoundReadDecisions, StepFoundAskYouTube, StepFoundRecordAnnouncements,
     StepFoundReadState, StepFoundRecordDecisions, StepFoundDies, StepFoundDailyRanking, StepFoundTick, StepFoundDelay
     DEF Announcement!Next

LEMMA FoundStands == FoundInv /\ UNCHANGED foundVars => FoundInv'
  <1> SUFFICES ASSUME FoundInv, UNCHANGED foundVars PROVE FoundInv'
    OBVIOUS
  <1>1. UNCHANGED <<foundNow, foundStart, foundMaster, foundManifest, foundEvents, decisions, version, ranking,
                    discovery, excused, premieresAnnounced>>
    BY DEF foundVars
  <1>2. FoundWorld /\ FoundTypes
    BY FoundTime
  <1>3. FoundTypes'
    BY <1>1, <1>2 DEF FoundTypes, Announcement!Decided, Announcement!Date
  <1>4. FoundWorld'
    BY <1>1, <1>2, <1>3 DEF FoundWorld, Announcement!HasEvent, Announcement!AnnouncedVideoIds, Listable, Announcement!Date
  <1>5. \A r \in Discoveries : FoundRunOK(discovery[r])'
    BY <1>1 DEF FoundInv, FoundRunOK, Announcement!Date
  <1>6. QED
    BY <1>1, <1>4, <1>5, FoundVideosStay DEF FoundInv

\* What a step may do to a decision.
DecisionKept(v) ==
    \/ v \in DOMAIN decisions' /\ decisions'[v] = decisions[v]
    \/ /\ v \notin DOMAIN decisions'
       /\ Cardinality(DOMAIN decisions') = MaxEntries
       /\ \A w \in DOMAIN decisions' : decisions'[w].at >= decisions[v].at

LEMMA DecisionsWritten ==
    ASSUME FoundInv, NEW r \in Discoveries, NEW s, s = discovery[r], s.at = "write", version = s.version,
           Announcement!Writes(s), NEW v \in Announcement!Decided
    PROVE  DecisionKept(v)
  <1>1. PICK merged, keep :
            /\ merged = Announcement!Merge(s) /\ keep \in Announcement!Newest(merged)
            /\ decisions' = [w \in keep |-> merged[w]]
    BY DEF Announcement!Writes
  <1>2. FoundRunOK(s)
    BY FlyingRun
  <1>3. s.seen = decisions /\ DOMAIN s.new \subseteq FoundVideos /\ DOMAIN s.seen \subseteq FoundVideos
    BY <1>2 DEF FoundRunOK
  <1>4. DOMAIN merged = DOMAIN s.seen \cup DOMAIN s.new /\ v \in DOMAIN merged /\ merged[v] = decisions[v]
    <2>1. merged = Announcement!Merge(s)
      BY <1>1
    <2>2. DOMAIN merged = DOMAIN s.seen \cup DOMAIN s.new /\ \A w \in DOMAIN s.seen : merged[w] = s.seen[w]
      BY <2>1, MergeIs DEF MergedAs
    <2>3. QED
      BY <1>3, <2>2 DEF Announcement!Decided
  <1>5. /\ keep \in SUBSET DOMAIN merged
        /\ Cardinality(keep) = IF Cardinality(DOMAIN merged) < MaxEntries THEN Cardinality(DOMAIN merged) ELSE MaxEntries
        /\ \A x \in keep, y \in DOMAIN merged \ keep : merged[x].at >= merged[y].at
    BY <1>1, SameFoundSize DEF Announcement!Newest
  <1>6. CASE v \in keep
    BY <1>1, <1>4, <1>6 DEF DecisionKept
  <1>7. CASE v \notin keep
    <2>1. DOMAIN merged \in SUBSET FoundVideos
      BY <1>3, <1>4
    <2>2. IsFiniteSet(DOMAIN merged)
      BY <2>1, FoundLimits, FS_Subset
    <2>3. Cardinality(keep) # Cardinality(DOMAIN merged)
      BY <1>4, <1>5, <1>7, <2>2, FS_Subset
    <2>4. Cardinality(keep) = MaxEntries
      BY <1>5, <2>3
    <2>5. DOMAIN decisions' = keep
      BY <1>1
    <2>6. ASSUME NEW w \in keep PROVE decisions'[w].at >= decisions[v].at
      BY <1>1, <1>4, <1>5, <1>7, <2>6
    <2>7. QED
      BY <1>7, <2>4, <2>5, <2>6 DEF DecisionKept
  <1>8. QED
    BY <1>6, <1>7

LEMMA StepDecisionsStand ==
    ASSUME FoundInv, Announcement!Next \/ UNCHANGED foundVars, decisions' # decisions, NEW v \in Announcement!Decided
    PROVE  DecisionKept(v)
  <1>1. PICK r \in Discoveries : Announcement!RecordDecisions(r)
    BY DEF Announcement!Next, foundVars, Announcement!Start, Announcement!Discover, Announcement!ReadAnnounced,
       Announcement!RecordEvents, Announcement!UpsertVideos, Announcement!PatchManifest, Announcement!ReadDecisions,
       Announcement!AskYouTube, Announcement!RecordAnnouncements, Announcement!ReadState, Announcement!Dies,
       Announcement!DailyRanking, Announcement!Tick, Announcement!Delay, Announcement!tables
  <1>2. PICK s : s = discovery[r]
    OBVIOUS
  <1>3. s.at = "write" /\ version = s.version /\ Announcement!Writes(s)
    BY <1>1, <1>2 DEF Announcement!RecordDecisions
  <1>4. QED
    BY <1>2, <1>3, DecisionsWritten


-----------------------------------------------------------------------------
(***************************************************************************)
(* What Home shows: each page has an inductive invariant of its own, and a *)
(* step of one leaves the variables of the others alone.                   *)
(***************************************************************************)
HomeInv == page \in {"list", "premiere", "topic"} /\ CatInv /\ FoundInv /\ TopicInv
allHome == <<page, homeVars, foundVars, topicVars>>

\* A change of the decisions takes none away that there was room for.
DecisionsKept == \A v \in Announcement!Decided :
    \/ v \in DOMAIN decisions' /\ decisions'[v] = decisions[v]
    \/ /\ v \notin DOMAIN decisions'
       /\ Announcement!Cardinality(DOMAIN decisions') = MaxEntries
       /\ \A w \in DOMAIN decisions' : decisions'[w].at >= decisions[v].at

LEMMA InitHome == HomeInit => HomeInv
  BY InitCat, InitFound, InitTopic DEF HomeInit, HomeInv

LEMMA StepHome == HomeInv /\ [HomeNext]_allHome => HomeInv' /\ NewTimeHolds /\ [DecisionsKept]_decisions
  <1> SUFFICES ASSUME HomeInv, [HomeNext]_allHome
               PROVE  HomeInv' /\ NewTimeHolds /\ [DecisionsKept]_decisions
    OBVIOUS
  <1>1. page' = page
    BY DEF HomeNext, allHome
  <1>2. /\ Home!Next \/ UNCHANGED homeVars
        /\ Announcement!Next \/ UNCHANGED foundVars
        /\ Topic!Next \/ UNCHANGED topicVars
    BY DEF HomeNext, allHome
  <1>3. CatInv'
    BY <1>2, StepCat, CatStands DEF HomeInv
  <1>4. HomeInv'
    BY <1>1, <1>2, <1>3, StepFound, FoundStands, StepTopic, TopicStands DEF HomeInv
  <1>5. NewTimeHolds
    BY <1>2, <1>3, NewTimeHoldsIs DEF HomeInv
  <1>6. ASSUME decisions' # decisions PROVE DecisionsKept
    BY <1>2, <1>6, StepDecisionsStand, SameFoundSize DEF HomeInv, DecisionKept, DecisionsKept
  <1>7. QED
    BY <1>4, <1>5, <1>6

LEMMA HomeInvariant == HomeSpec => []HomeInv
<1>1. HomeInv /\ [HomeNext]_allHome => HomeInv'
    BY StepHome
<1> QED  BY <1>1, InitHome, PTL DEF HomeSpec, allHome

\* A creator's list has each video once, as what it is and with its views counted once,
\* and a filter takes rows out of a ranking without moving the others; each video has one
\* discovery event, only a Premiere is announced, and whatever is announced or discovered
\* is shown unless a failure excuses it; a topic backfill that reports COMPLETE has left
\* no row for another run, however runs, retries and crashes interleave.
THEOREM HomeShowsWhatIs == HomeSpec => []HomeIsSound
<1>1. HomeInv => HomeIsSound
    BY CatSound, FoundSound, TopicSound DEF HomeInv, HomeIsSound
<1> QED  BY <1>1, HomeInvariant, PTL

\* What counted as NEW still does, and from the same time on but for a Premiere, which
\* counts anew from its archive; a decision about a Premiere stands, whichever runs
\* overlap, until newer ones need its room.
THEOREM WhatHomeShowedStands == HomeSpec => ShownStands
<1>1. HomeInv /\ [HomeNext]_allHome => [NewTimeHolds]_Home!vars /\ [DecisionsKept]_decisions
    BY StepHome
<1>2. Home!NewTimesHold <=> [][NewTimeHolds]_Home!vars
    BY PTL DEF Home!NewTimesHold, NewTimeHolds
<1>3. Announcement!DecisionsStand <=> [][DecisionsKept]_decisions
    BY PTL DEF Announcement!DecisionsStand, DecisionsKept
<1> QED  BY <1>1, <1>2, <1>3, HomeInvariant, PTL DEF HomeSpec, allHome, ShownStands
=============================================================================
