-------------------------- MODULE Collection_proofs --------------------------
(***************************************************************************)
(* Proofs about the four parts of MCCollection, for every set of videos,   *)
(* creators, runs and dates, all lengths of cycles and streaks, every      *)
(* answer of YouTube and every number of failures.                         *)
(*                                                                         *)
(* CycleInv says that no day of its cycle has come since a video was last  *)
(* asked; DayInv that what a run carries accounts for all it was asked;    *)
(* FillInv relates the copies of a classification that a backfill and a    *)
(* worker hold to the two that are stored; BoardInv follows an answer of   *)
(* YouTube into the snapshots and the results built from them.             *)
(***************************************************************************)
EXTENDS MCCollection, Sequences, FiniteSetTheorems, WellFoundedInduction, TLAPS

-----------------------------------------------------------------------------
(* The schedule *)

Scheduled == [state : Cycle!States, snapshots : Nat, streak : Nat]
Remembered == [asked : Nat, quiet : Nat, from : Cycle!States]

CycleTypes ==
    /\ day \in 0..LastDay
    /\ video \in [CycleVideos -> Scheduled]
    /\ seen \in [CycleVideos -> Remembered]
    /\ \A v \in CycleVideos :
          video[v].snapshots <= day /\ video[v].streak <= video[v].snapshots /\ seen[v].asked <= day

\* No day of its cycle has come since a video was last asked for.
NotDueSince ==
    \A v \in CycleVideos :
        /\ video[v].state = "Hot" => day <= seen[v].asked + 1
        /\ video[v].state # "Hot" =>
              \A d \in (seen[v].asked + 1)..(day - 1) :
                  Cycle!RotationSlot(v, CycleDays[video[v].state]) # d % CycleDays[video[v].state]

\* What the quiet refreshes since the last one that was not have made of a video,
\* and the snapshots it has for that.
Earned(s, h) ==
    /\ h.from = "Hot" =>
          \/ h.quiet < QuietHot /\ s.state = "Hot" /\ s.streak = h.quiet
          \/ QuietHot <= h.quiet /\ h.quiet < QuietHot + QuietWarm /\ s.state = "Warm" /\ s.streak = h.quiet - QuietHot
          \/ QuietHot + QuietWarm <= h.quiet /\ s.state = "Cold"
    /\ h.from = "Warm" =>
          \/ h.quiet < QuietWarm /\ s.state = "Warm" /\ s.streak = h.quiet
          \/ QuietWarm <= h.quiet /\ s.state = "Cold"
    /\ h.from \in {"Cold", "Unknown"} => s.state = h.from
    /\ s.state \in {"Warm", "Cold"} => MinSnapshots <= s.snapshots
    /\ s.state # "Unknown" => 2 <= s.snapshots
    /\ s.state = "Hot" => s.streak + 2 <= s.snapshots

CycleInv == CycleTypes /\ NotDueSince /\ \A v \in CycleVideos : Earned(video[v], seen[v])

LEMMA Limits ==
    /\ RecentMaxAge \in Nat /\ QuietHot \in Nat \ {0} /\ QuietWarm \in Nat \ {0}
    /\ CycleDays \in [{"Unknown", "Warm", "Cold"} -> Nat \ {0}]
    /\ \A v \in CycleVideos : Hash[v] \in Nat
    /\ MinSnapshots \in Nat /\ MinSnapshots <= QuietHot + 2 /\ LastDay \in Nat
  BY CollectionAssumption DEF Cycle!ScheduleAssumption

LEMMA Reclassified ==
    ASSUME NEW s \in Scheduled, NEW h \in Remembered, NEW growth \in Cycle!Growths, Earned(s, h), s.streak <= s.snapshots
    PROVE  LET t == Cycle!ClassifyAfterObservation(s, growth)
           IN  /\ t \in Scheduled
               /\ t.snapshots = s.snapshots + 1 /\ t.streak <= t.snapshots
               /\ Cycle!Remember(h, s, t, growth) \in Remembered
               /\ Cycle!Remember(h, s, t, growth).asked = h.asked
               /\ Earned(t, Cycle!Remember(h, s, t, growth))
  <1> DEFINE t == Cycle!ClassifyAfterObservation(s, growth)
             r == Cycle!Remember(h, s, t, growth)
  <1> USE DEF Scheduled, Remembered, Cycle!States
  <1>1. \A state \in Cycle!States, streak \in Nat :
            /\ Cycle!Becomes(s, state, streak) \in Scheduled
            /\ Cycle!Becomes(s, state, streak).state = state
            /\ Cycle!Becomes(s, state, streak).snapshots = s.snapshots + 1
            /\ Cycle!Becomes(s, state, streak).streak = streak
    BY DEF Cycle!Becomes
  <1>2. /\ t \in Scheduled /\ t.snapshots = s.snapshots + 1 /\ t.streak <= t.snapshots
        /\ s.snapshots = 0 => t.state = "Unknown" /\ t.streak = 0
        /\ s.snapshots # 0 /\ s.state = "Unknown" =>
              /\ growth = "hot" => t.state = "Hot" /\ t.streak = 0
              /\ growth # "hot" /\ s.snapshots + 1 < MinSnapshots => t.state = "Unknown" /\ t.streak = 0
              /\ growth # "hot" /\ s.snapshots + 1 >= MinSnapshots =>
                    t.state = (IF growth = "warm" THEN "Warm" ELSE "Cold") /\ t.streak = 0
        /\ s.snapshots # 0 /\ s.state # "Unknown" =>
              /\ growth = "hot" => t.state = "Hot" /\ t.streak = 0
              /\ growth = "warm" => t.state = (IF s.state = "Hot" THEN "Hot" ELSE "Warm") /\ t.streak = 0
              /\ growth = "quiet" =>
                    /\ s.state = "Hot" => IF s.streak + 1 >= QuietHot THEN t.state = "Warm" /\ t.streak = 0
                                          ELSE t.state = "Hot" /\ t.streak = s.streak + 1
                    /\ s.state = "Warm" => IF s.streak + 1 >= QuietWarm THEN t.state = "Cold" /\ t.streak = 0
                                          ELSE t.state = "Warm" /\ t.streak = s.streak + 1
                    /\ s.state = "Cold" => t.state = "Cold" /\ t.streak = s.streak + 1
    <2>1. CASE s.snapshots = 0
      BY <1>1, <2>1 DEF Cycle!ClassifyAfterObservation
    <2>2. CASE s.snapshots # 0 /\ s.state = "Unknown"
      <3>1. t = Cycle!AfterBootstrap(s, growth)
        BY <2>2 DEF Cycle!ClassifyAfterObservation
      <3>2. QED
        BY <1>1, <2>2, <3>1, Limits DEF Cycle!AfterBootstrap, Cycle!Growths
    <2>3. CASE s.snapshots # 0 /\ s.state # "Unknown"
      <3>1. CASE growth # "quiet"
        BY <1>1, <2>3, <3>1 DEF Cycle!ClassifyAfterObservation, Cycle!Growths
      <3>2. CASE growth = "quiet"
        <4>1. t = Cycle!AfterQuiet(s)
          BY <2>3, <3>2 DEF Cycle!ClassifyAfterObservation
        <4>2. /\ DOMAIN Cycle!Quiets = {"Hot", "Warm"}
              /\ Cycle!Quiets["Hot"] = QuietHot /\ Cycle!Quiets["Warm"] = QuietWarm
              /\ Cycle!DemoteTo["Hot"] = "Warm" /\ Cycle!DemoteTo["Warm"] = "Cold"
          BY DEF Cycle!Quiets, Cycle!DemoteTo
        <4>3. QED
          BY <1>1, <2>3, <3>2, <4>1, <4>2 DEF Cycle!AfterQuiet
      <3>3. QED
        BY <3>1, <3>2
    <2>4. QED
      BY <2>1, <2>2, <2>3
  <1> HIDE DEF t
  <1>3. /\ r \in Remembered /\ r.asked = h.asked
        /\ IF t.state = "Unknown" \/ s.state = "Unknown" \/ growth # "quiet"
           THEN r.from = t.state /\ r.quiet = (IF growth = "quiet" THEN 1 ELSE 0)
           ELSE r.from = h.from /\ r.quiet = h.quiet + 1
    <2>1. \A q \in Nat, f \in Cycle!States :
              LET x == [h EXCEPT !.quiet = q, !.from = f]
              IN  x \in Remembered /\ x.asked = h.asked /\ x.from = f /\ x.quiet = q
      OBVIOUS
    <2>2. t.state \in Cycle!States /\ h.quiet + 1 \in Nat /\ (IF growth = "quiet" THEN 1 ELSE 0) \in Nat
      BY <1>2
    <2>3. CASE t.state = "Unknown" \/ s.state = "Unknown" \/ growth # "quiet"
      <3> DEFINE q == IF growth = "quiet" THEN 1 ELSE 0
      <3>1. r = [h EXCEPT !.quiet = q, !.from = t.state]
        BY <2>3, Zenon DEF Cycle!Remember
      <3>2. q \in Nat
        OBVIOUS
      <3> HIDE DEF q, r
      <3>3. r \in Remembered /\ r.asked = h.asked /\ r.from = t.state /\ r.quiet = q
        BY <2>1, <2>2, <3>1, <3>2
      <3>4. QED
        BY <2>3, <3>3 DEF q
    <2>4. CASE ~(t.state = "Unknown" \/ s.state = "Unknown" \/ growth # "quiet")
      <3>1. r = [h EXCEPT !.quiet = @ + 1]
        BY <2>4, Zenon DEF Cycle!Remember
      <3>2. QED
        BY <2>2, <2>4, <3>1
    <2>5. QED
      BY <2>3, <2>4
  <1> HIDE DEF r
  <1>4. Earned(t, r)
    <2>1. CASE s.state = "Unknown" \/ growth # "quiet"
      BY <1>2, <1>3, <2>1, Limits DEF Earned, Cycle!Growths
    <2>2. CASE s.state # "Unknown" /\ growth = "quiet"
      BY <1>2, <1>3, <2>2, Limits DEF Earned, Cycle!Growths
    <2>3. QED
      BY <2>1, <2>2
  <1>5. QED
    BY <1>2, <1>3, <1>4 DEF t, r
LEMMA TimesGrows ==
    ASSUME NEW d \in Nat, NEW a \in Int, NEW b \in Int, a <= b
    PROVE  d * a <= d * b
  <1>1. d * b - d * a = d * (b - a) /\ b - a \in Nat
    OBVIOUS
  <1> DEFINE c == b - a
  <1>2. c \in Nat /\ d * c >= 0
    BY <1>1
  <1>3. QED
    BY <1>1, <1>2

LEMMA Division ==
    ASSUME NEW n \in Int, NEW d \in Nat \ {0}
    PROVE  n \div d \in Int /\ n % d \in 0..(d - 1) /\ n % d = n - d * (n \div d)
  <1>1. n \div d \in Int /\ n % d \in 0..(d - 1)
    OBVIOUS
  <1>2. n % d = n - d * (n \div d)
    OBVIOUS
  <1>3. QED
    BY <1>1, <1>2

LEMMA OneDivision ==
    ASSUME NEW d \in Nat \ {0}, NEW p \in Int, NEW q \in Int, NEW r \in 0..(d - 1), NEW s \in 0..(d - 1),
           d * p + r = d * q + s
    PROVE  p = q /\ r = s
  <1>1. p <= q
    <2> SUFFICES ASSUME q + 1 <= p PROVE FALSE
      OBVIOUS
    <2>1. d * (q + 1) <= d * p
      BY TimesGrows
    <2>2. d * (q + 1) = d * q + d
      OBVIOUS
    <2> QED
      BY <2>1, <2>2
  <1>2. q <= p
    <2> SUFFICES ASSUME p + 1 <= q PROVE FALSE
      OBVIOUS
    <2>1. d * (p + 1) <= d * q
      BY TimesGrows
    <2>2. d * (p + 1) = d * p + d
      OBVIOUS
    <2> QED
      BY <2>1, <2>2
  <1>3. QED
    BY <1>1, <1>2

LEMMA Multiple ==
    ASSUME NEW d \in Nat \ {0}, NEW q \in Int, NEW r \in 0..(d - 1)
    PROVE  (d * q + r) \div d = q /\ (d * q + r) % d = r
  <1> DEFINE n == d * q + r
  <1>1. n \in Int
    OBVIOUS
  <1>2. n \div d \in Int /\ n % d \in 0..(d - 1) /\ n % d = n - d * (n \div d)
    BY <1>1, Division
  <1>3. n = d * q + r
    OBVIOUS
  <1> HIDE DEF n
  <1>4. n \div d = q /\ n % d = r
    BY <1>2, <1>3, OneDivision
  <1>5. QED
    BY <1>4 DEF n

\* Of as many days as a cycle has, one is in every slot.
LEMMA SlotComes ==
    ASSUME NEW cycle \in Nat \ {0}, NEW slot \in 0..(cycle - 1), NEW a \in Nat
    PROVE  \E d \in (a + 1)..(a + cycle) : d % cycle = slot
  <1> DEFINE m == slot - (a + 1)
             u == m % cycle
             w == m \div cycle
             d == (a + 1) + u
  <1>1. m \in Int
    OBVIOUS
  <1>2. w \in Int /\ u \in 0..(cycle - 1) /\ u = m - cycle * w
    <2> HIDE DEF m
    <2>1. QED
      BY <1>1, Division
  <1>3. m = slot - (a + 1) /\ d = (a + 1) + u
    OBVIOUS
  <1> HIDE DEF m, u, w, d
  <1>4. cycle * (-w) = -(cycle * w) /\ cycle * w \in Int
    BY <1>2
  <1> DEFINE p == -w
  <1>5. p \in Int /\ d = cycle * p + slot
    BY <1>2, <1>3, <1>4
  <1> HIDE DEF p
  <1>6. d % cycle = slot
    BY <1>5, Multiple
  <1>7. d \in (a + 1)..(a + cycle)
    BY <1>2, <1>3
  <1>8. QED
    BY <1>6, <1>7

LEMMA InitCycle == Cycle!Init => CycleInv
  <1> SUFFICES ASSUME Cycle!Init PROVE CycleInv
    OBVIOUS
  <1> USE DEF Cycle!Init
  <1>1. CycleTypes
    BY Limits DEF CycleTypes, Scheduled, Remembered, Cycle!States
  <1>2. NotDueSince
    <2>1. ASSUME NEW v \in CycleVideos PROVE day = 0 /\ seen[v].asked = 0
      OBVIOUS
    <2>2. (0 + 1)..(0 - 1) = {} /\ 0 <= 0 + 1
      OBVIOUS
    <2>3. QED
      BY <2>1, <2>2 DEF NotDueSince
  <1>3. ASSUME NEW v \in CycleVideos PROVE Earned(video[v], seen[v])
    BY DEF Earned
  <1>4. QED
    BY <1>1, <1>2, <1>3 DEF CycleInv

\* What one day makes of one video.
LEMMA DayOfVideo ==
    ASSUME CycleInv, Cycle!Day, NEW v \in CycleVideos
    PROVE  /\ video'[v] \in Scheduled /\ seen'[v] \in Remembered
           /\ video'[v].snapshots <= video[v].snapshots + 1 /\ video'[v].streak <= video'[v].snapshots
           /\ Earned(video'[v], seen'[v])
           /\ IF v \in Cycle!SelectDueVideoIds THEN seen'[v].asked = day
              ELSE seen'[v].asked = seen[v].asked /\ video'[v] = video[v]
  <1>1. PICK growth \in [CycleVideos -> Cycle!Growths \cup {"missed"}] :
            /\ \A w \in CycleVideos \ Cycle!SelectDueVideoIds : growth[w] = "missed"
            /\ video' = [w \in CycleVideos |->
                           IF growth[w] = "missed" THEN video[w]
                           ELSE Cycle!ClassifyAfterObservation(video[w], growth[w])]
            /\ seen' = [w \in CycleVideos |->
                          LET asked == IF w \in Cycle!SelectDueVideoIds THEN [seen[w] EXCEPT !.asked = day] ELSE seen[w]
                          IN IF growth[w] = "missed" THEN asked
                             ELSE Cycle!Remember(asked, video[w], video'[w], growth[w])]
    BY Zenon DEF Cycle!Day
  <1>2. /\ day \in Nat /\ video[v] \in Scheduled /\ seen[v] \in Remembered /\ video[v].streak <= video[v].snapshots
        /\ Earned(video[v], seen[v])
    BY Limits DEF CycleInv, CycleTypes
  <1> DEFINE asked == IF v \in Cycle!SelectDueVideoIds THEN [seen[v] EXCEPT !.asked = day] ELSE seen[v]
  <1>3. /\ asked \in Remembered /\ asked.quiet = seen[v].quiet /\ asked.from = seen[v].from
        /\ asked.asked = IF v \in Cycle!SelectDueVideoIds THEN day ELSE seen[v].asked
    BY <1>2 DEF Remembered
  <1>4. Earned(video[v], asked)
    BY <1>2, <1>3 DEF Earned
  <1>5. CASE growth[v] = "missed"
    <2>1. video'[v] = video[v] /\ seen'[v] = asked
      BY <1>1, <1>5
    <2>2. QED
      BY <1>2, <1>3, <1>4, <2>1 DEF Scheduled
  <1>6. CASE growth[v] # "missed"
    <2>1. growth[v] \in Cycle!Growths /\ v \in Cycle!SelectDueVideoIds
      BY <1>1, <1>6
    <2>2. video'[v] = Cycle!ClassifyAfterObservation(video[v], growth[v])
      BY <1>1, <1>6
    <2>3. seen'[v] = Cycle!Remember(asked, video[v], video'[v], growth[v])
      BY <1>1, <1>6
    <2> HIDE DEF asked
    <2>4. QED
      BY <1>2, <1>3, <1>4, <2>1, <2>2, <2>3, Reclassified DEF Scheduled
  <1>7. QED
    BY <1>5, <1>6

LEMMA StepCycle == CycleInv /\ Cycle!Day => CycleInv'
  <1> SUFFICES ASSUME CycleInv, Cycle!Day PROVE CycleInv'
    OBVIOUS
  <1>1. day \in 0..LastDay /\ day' = day + 1 /\ day' \in 0..LastDay /\ DOMAIN video' = CycleVideos /\ DOMAIN seen' = CycleVideos
    BY Limits DEF CycleInv, CycleTypes, Cycle!Day
  <1>2. video' = [v \in CycleVideos |-> video'[v]] /\ seen' = [v \in CycleVideos |-> seen'[v]]
    BY DEF Cycle!Day
  <1>3. CycleTypes'
    <2>1. \A v \in CycleVideos : video'[v] \in Scheduled /\ seen'[v] \in Remembered
      BY DayOfVideo
    <2>2. video' \in [CycleVideos -> Scheduled] /\ seen' \in [CycleVideos -> Remembered]
      BY <1>2, <2>1
    <2>3. ASSUME NEW v \in CycleVideos
          PROVE  video'[v].snapshots <= day' /\ video'[v].streak <= video'[v].snapshots /\ seen'[v].asked <= day'
      <3>1. video[v] \in Scheduled /\ seen[v] \in Remembered /\ video[v].snapshots <= day /\ seen[v].asked <= day
        BY DEF CycleInv, CycleTypes
      <3>2. QED
        BY <1>1, <2>1, <3>1, DayOfVideo DEF Scheduled, Remembered
    <2>4. QED
      BY <1>1, <2>2, <2>3 DEF CycleTypes
  <1>4. NotDueSince'
    <2> SUFFICES ASSUME NEW v \in CycleVideos
                 PROVE  /\ video'[v].state = "Hot" => day' <= seen'[v].asked + 1
                        /\ video'[v].state # "Hot" =>
                              \A d \in (seen'[v].asked + 1)..(day' - 1) :
                                  Cycle!RotationSlot(v, CycleDays[video'[v].state]) # d % CycleDays[video'[v].state]
      BY DEF NotDueSince, Cycle!RotationSlot
    <2>1. CASE v \in Cycle!SelectDueVideoIds
      <3>1. seen'[v].asked = day
        BY <2>1, DayOfVideo
      <3>2. QED
        BY <1>1, <3>1
    <2>2. CASE v \notin Cycle!SelectDueVideoIds
      <3>1. seen'[v].asked = seen[v].asked /\ video'[v] = video[v]
        BY <2>2, DayOfVideo
      <3>2. /\ video[v].state # "Hot"
            /\ Cycle!RotationSlot(v, CycleDays[video[v].state]) # day % CycleDays[video[v].state]
        BY <2>2 DEF Cycle!SelectDueVideoIds, Cycle!IsDueToday
      <3>3. video[v].state \in DOMAIN CycleDays /\ seen[v].asked \in Nat
        BY <3>2, Limits DEF CycleInv, CycleTypes, Scheduled, Remembered, Cycle!States
      <3>4. \A d \in (seen[v].asked + 1)..(day' - 1) : d = day \/ d \in (seen[v].asked + 1)..(day - 1)
        BY <1>1, <3>3
      <3>5. \A d \in (seen[v].asked + 1)..(day - 1) :
                Cycle!RotationSlot(v, CycleDays[video[v].state]) # d % CycleDays[video[v].state]
        BY <3>2 DEF CycleInv, NotDueSince
      <3> HIDE DEF Cycle!RotationSlot
      <3>6. QED
        BY <3>1, <3>2, <3>3, <3>4, <3>5
    <2>3. QED
      BY <2>1, <2>2
  <1>5. \A v \in CycleVideos : Earned(video'[v], seen'[v])
    BY DayOfVideo
  <1>6. QED
    BY <1>3, <1>4, <1>5 DEF CycleInv

LEMMA CycleIsSound == CycleInv => Cycle!ScheduleIsSound
  <1> SUFFICES ASSUME CycleInv PROVE Cycle!ScheduleIsSound
    OBVIOUS
  <1>1. Cycle!TypeOK
    <2>1. ASSUME NEW v \in CycleVideos
          PROVE  video[v] \in [state : Cycle!States, snapshots : 0..LastDay, streak : 0..LastDay]
      BY Limits DEF CycleInv, CycleTypes, Scheduled
    <2>2. QED
      BY <2>1 DEF CycleInv, CycleTypes, Cycle!TypeOK
  <1>2. Cycle!WaitsOneCycle
    <2> SUFFICES ASSUME NEW v \in CycleVideos
                 PROVE  day - seen[v].asked <= IF video[v].state = "Hot" THEN 1 ELSE CycleDays[video[v].state]
      BY DEF Cycle!WaitsOneCycle
    <2>1. day \in Nat /\ seen[v].asked \in Nat /\ video[v].state \in Cycle!States
      BY Limits DEF CycleInv, CycleTypes, Scheduled, Remembered
    <2>2. CASE video[v].state = "Hot"
      BY <2>1, <2>2 DEF CycleInv, NotDueSince
    <2>3. CASE video[v].state # "Hot"
      <3> DEFINE cycle == CycleDays[video[v].state]
                 hash == Hash[v]
                 slot == hash % cycle
      <3>1. cycle \in Nat \ {0} /\ hash \in Int
        BY <2>1, <2>3, Limits DEF Cycle!States
      <3>2. \A d \in (seen[v].asked + 1)..(day - 1) : slot # d % cycle
        BY <2>3 DEF CycleInv, NotDueSince, Cycle!RotationSlot
      <3> HIDE DEF cycle, hash
      <3>3. slot \in 0..(cycle - 1)
        BY <3>1, Division
      <3> HIDE DEF slot
      <3>4. PICK d \in (seen[v].asked + 1)..(seen[v].asked + cycle) : d % cycle = slot
        BY <2>1, <3>1, <3>3, SlotComes
      <3>5. d \notin (seen[v].asked + 1)..(day - 1)
        BY <3>2, <3>4
      <3>6. day - seen[v].asked <= cycle
        BY <2>1, <3>1, <3>4, <3>5
      <3>7. QED
        BY <2>3, <3>6 DEF cycle
    <2>4. QED
      BY <2>2, <2>3
  <1>3. Cycle!QuietIsEarned
    <2> SUFFICES ASSUME NEW v \in CycleVideos
                 PROVE  LET quiet == seen[v].quiet IN
                        /\ seen[v].from = "Hot" =>
                             video[v].state = IF quiet < QuietHot THEN "Hot"
                                              ELSE IF quiet < QuietHot + QuietWarm THEN "Warm" ELSE "Cold"
                        /\ seen[v].from = "Warm" => video[v].state = IF quiet < QuietWarm THEN "Warm" ELSE "Cold"
                        /\ video[v].state \in {"Warm", "Cold"} => video[v].snapshots >= MinSnapshots
      BY DEF Cycle!QuietIsEarned
    <2>1. video[v] \in Scheduled /\ seen[v] \in Remembered /\ Earned(video[v], seen[v])
      BY DEF CycleInv, CycleTypes
    <2>2. QED
      BY <2>1, Limits DEF Earned, Scheduled, Remembered
  <1>4. QED
    BY <1>1, <1>2, <1>3 DEF Cycle!ScheduleIsSound

-----------------------------------------------------------------------------
(* The run of a day *)

RunFields == {"at", "creator", "known", "found", "tracked", "first", "due", "asked", "results", "left", "reasons",
              "wall", "wasted"}
Reasons == {"noData", "malformed", "apiError", "quota"}

\* The places of a run after it has written what it found.
Written == {"record", "salvagePublish", "salvageRecord", "stopped", "publish", "select", "fetch", "summarise",
            "write", "mark", "done"}

\* The places before it knows what is due.
Early == {"start", "discover", "upsert", "record", "publish", "select"}

\* Where a run may be that YouTube told of the spent quota.
Stopped == {"salvage", "salvagePublish", "salvageRecord", "stopped", "summarise", "write", "mark", "done", "failed"}

\* Everything that was due so far has been answered for.
Answered(s) ==
    /\ s.asked \subseteq s.results \cup DOMAIN s.reasons
    /\ s.at = "summarise" => s.due \subseteq s.results \cup DOMAIN s.reasons
    /\ \A v \in DOMAIN s.reasons : s.reasons[v] \in Reasons

\* A run, when Video Master knows the videos m.
DayRunOK(m, s) ==
    /\ s = [f \in RunFields |-> s[f]]
    /\ s.at \in Collection!Places
    /\ s.creator \in Nat \ {0} /\ (s.at \in {"start", "discover"} => s.creator <= Len(Creators))
    /\ s.known \subseteq m /\ s.found \subseteq DayVideos /\ s.tracked \subseteq s.known \cup s.found
    /\ s.due \subseteq s.tracked /\ s.results \subseteq s.due
    /\ s.at \in Written => s.found \subseteq m
    /\ s.wall \in BOOLEAN /\ s.wasted = FALSE /\ (s.wall => s.at \in Stopped)
    /\ s.at \in Early => s.due = {} /\ s.results = {} /\ s.asked = {}
    /\ Answered(s)

DayTypes ==
    /\ master \subseteq DayVideos /\ events \subseteq master /\ manifest \subseteq master
    /\ stored \in [DayVideos -> DayRuns \cup {0}] /\ met \in BOOLEAN
    /\ run = [r \in DayRuns |-> run[r]]

DayRowOK ==
    /\ row = [f \in {"status", "by", "requested", "collected", "reasons"} |-> row[f]]
    /\ row.status \in {"none", "unset", "IN_PROGRESS", "COMPLETE"} /\ row.by \in DayRuns \cup {0}
    /\ row.collected \subseteq row.requested /\ row.requested \subseteq master
    /\ Collection!EverySkipExplained

\* A run that saves the day has stored what it has not left to store.
Stores(s) ==
    /\ s.at \in Collection!Saving => \A v \in s.results \ s.left : stored[v] # 0
    /\ s.at = "mark" => s.left = {}
    /\ s.at = "done" => \A v \in s.results : stored[v] # 0

\* Unless two runs met, the summary is that of the run that saves the day.
SavesAlone == ~met => \A r \in DayRuns : run[r].at \in Collection!Saving => row.by = r /\ row.collected = run[r].results

DayInv ==
    /\ DayTypes /\ DayRowOK /\ SavesAlone /\ Collection!CompleteMeansStored
    /\ \A r \in DayRuns : DayRunOK(master, run[r]) /\ Stores(run[r])

LEMMA DayLimits ==
    /\ DayRuns \subseteq Nat \ {0} /\ DayVideos \subseteq Int
    /\ Creators \in Seq(DOMAIN Uploads) /\ Len(Creators) \in Nat \ {0}
    /\ \A c \in DOMAIN Uploads : Uploads[c] \subseteq DayVideos
    /\ KnownAtFirst \subseteq DayVideos
  <1>1. Creators \in Seq(DOMAIN Uploads) /\ Creators # <<>>
    BY CollectionAssumption DEF Collection!DayAssumption
  <1>2. Len(Creators) \in Nat \ {0}
    BY <1>1
  <1>3. QED
    BY <1>1, <1>2, CollectionAssumption DEF Collection!DayAssumption

LEMMA CallEnds == Collection!CallOutcomes \subseteq {"response", "YouTubeAPIError", "QuotaExhaustedError"}
  BY DEF Collection!CallOutcomes, Collection!CallYoutubeApi

LEMMA InitDay == Collection!Init => DayInv
  <1> SUFFICES ASSUME Collection!Init PROVE DayInv
    OBVIOUS
  <1> USE DEF Collection!Init
  <1>1. DayTypes
    BY DayLimits DEF DayTypes
  <1>2. row = Collection!NoRow \/ row = [Collection!NoRow EXCEPT !.status = "unset"]
    OBVIOUS
  <1>3. DayRowOK /\ row.status # "COMPLETE"
    BY <1>2 DEF DayRowOK, Collection!NoRow, Collection!EverySkipExplained
  <1>4. ASSUME NEW r \in DayRuns PROVE run[r].at = "start" /\ DayRunOK(master, run[r]) /\ Stores(run[r])
    <2> DEFINE s == [at |-> "start", creator |-> 1, known |-> {}, found |-> {}, tracked |-> {}, first |-> {},
                     due |-> {}, asked |-> {}, results |-> {}, left |-> {}, reasons |-> <<>>, wall |-> FALSE,
                     wasted |-> FALSE]
    <2>1. run[r] = s
      OBVIOUS
    <2>2. s = [f \in RunFields |-> s[f]]
      BY DEF RunFields
    <2>3. /\ s.at = "start" /\ s.creator = 1 /\ s.known = {} /\ s.found = {} /\ s.tracked = {} /\ s.due = {}
          /\ s.asked = {} /\ s.results = {} /\ s.wall = FALSE /\ s.wasted = FALSE /\ DOMAIN s.reasons = {}
      OBVIOUS
    <2> HIDE DEF s
    <2>4. Answered(s)
      BY <2>3 DEF Answered
    <2>5. s.at \in Collection!Places /\ s.at \notin Written /\ s.at \in Early
      BY <2>3 DEF Collection!Places, Written, Early
    <2>6. DayRunOK(master, s)
      <3>1. s.creator \in Nat \ {0} /\ s.creator <= Len(Creators)
        BY <2>3, DayLimits
      <3>2. s.known \subseteq master /\ s.found \subseteq DayVideos /\ s.tracked \subseteq s.known \cup s.found
            /\ s.due \subseteq s.tracked /\ s.results \subseteq s.due
        BY <2>3
      <3>3. s.wall \in BOOLEAN /\ s.wasted = FALSE /\ ~s.wall
        BY <2>3
      <3>4. QED
        BY <2>2, <2>3, <2>4, <2>5, <3>1, <3>2, <3>3 DEF DayRunOK
    <2>7. QED
      BY <2>1, <2>3, <2>6 DEF Stores, Collection!Saving
  <1>5. SavesAlone /\ Collection!CompleteMeansStored
    BY <1>3, <1>4 DEF SavesAlone, Collection!Saving, Collection!CompleteMeansStored
  <1>6. QED
    BY <1>1, <1>3, <1>4, <1>5 DEF DayInv

\* A step of run r that leaves the summary and the snapshots alone.
LEMMA DayGoesOn ==
    ASSUME DayInv, NEW r \in DayRuns, run' = [run EXCEPT ![r] = run'[r]],
           UNCHANGED <<row, stored, met>>, master \subseteq master', master' \subseteq DayVideos,
           events' \subseteq master', manifest' \subseteq master',
           DayRunOK(master', run'[r]), run'[r].at \notin Collection!Saving,
           run'[r].at = "done" => run'[r].results = {}
    PROVE  DayInv'
  <1>1. DayTypes'
    BY DEF DayInv, DayTypes
  <1>2. \A q \in DayRuns : q # r => run'[q] = run[q]
    BY DEF DayInv, DayTypes
  <1>3. ASSUME NEW q \in DayRuns PROVE DayRunOK(master, run[q])' /\ Stores(run[q])'
    <2>1. CASE q = r
      BY <2>1 DEF Stores, Collection!Saving, DayRunOK, Answered
    <2>2. CASE q # r
      <3>1. DayRunOK(master, run[q]) /\ Stores(run[q]) /\ run'[q] = run[q]
        BY <1>2, <2>2 DEF DayInv
      <3>2. QED
        BY <3>1 DEF DayRunOK, Answered, Stores
    <2>3. QED
      BY <2>1, <2>2
  <1>4. DayRowOK' /\ Collection!CompleteMeansStored'
    BY DEF DayInv, DayRowOK, Collection!EverySkipExplained, Collection!CompleteMeansStored
  <1>5. SavesAlone'
    BY <1>2 DEF DayInv, SavesAlone
  <1>6. QED
    BY <1>1, <1>3, <1>4, <1>5 DEF DayInv

LEMMA NextCreatorOK ==
    ASSUME NEW m, NEW s, DayRunOK(m, s), s.at = "discover"
    PROVE  /\ DayRunOK(m, Collection!NextCreator(s))
           /\ Collection!NextCreator(s).at \in {"discover", "publish", "upsert"}
  <1>1. CASE s.creator < Len(Creators)
    <2>1. Collection!NextCreator(s) = [s EXCEPT !.creator = s.creator + 1]
      BY <1>1 DEF Collection!NextCreator
    <2>2. s.creator + 1 \in Nat \ {0} /\ s.creator + 1 <= Len(Creators)
      BY <1>1, DayLimits DEF DayRunOK
    <2>3. QED
      BY <2>1, <2>2 DEF DayRunOK, RunFields, Answered, Stopped, Early
  <1>2. CASE ~(s.creator < Len(Creators))
    <2> DEFINE place == Collection!AfterDiscovery(s)
    <2>1. place \in {"publish", "upsert"} /\ (place = "publish" => s.found = {})
      BY DEF Collection!AfterDiscovery
    <2>2. Collection!NextCreator(s) = [s EXCEPT !.creator = s.creator + 1, !.at = place]
      BY <1>2 DEF Collection!NextCreator
    <2>3. s.creator + 1 \in Nat \ {0}
      BY DEF DayRunOK
    <2> HIDE DEF place
    <2>4. QED
      BY <2>1, <2>2, <2>3 DEF DayRunOK, RunFields, Answered, Collection!Places, Collection!Saving, Collection!Over, Written, Early, Stopped
  <1>3. QED
    BY <1>1, <1>2

LEMMA StepStart == ASSUME DayInv, NEW r \in DayRuns, Collection!Start(r) PROVE DayInv'
  <1> DEFINE s == [run[r] EXCEPT !.at = "discover", !.known = master]
  <1>1. DayRunOK(master, run[r]) /\ run[r].at = "start" /\ DayTypes
    BY DEF DayInv, Collection!Start
  <1>2. DayRunOK(master, s) /\ s.at = "discover"
    BY <1>1 DEF DayRunOK, RunFields, Answered, Collection!Places, Written, Early, Stopped
  <1>3. run'[r] = s /\ run' = [run EXCEPT ![r] = s] /\ UNCHANGED <<met, master, events, manifest, row, stored>>
    BY <1>1 DEF Collection!Start, DayTypes
  <1> HIDE DEF s
  <1>4. QED
    BY <1>1, <1>2, <1>3, DayGoesOn DEF DayTypes, Collection!Saving

LEMMA StepSkipDisabled == ASSUME DayInv, NEW r \in DayRuns, Collection!SkipDisabled(r) PROVE DayInv'
  <1> DEFINE c == Creators[run[r].creator]
             t == [run[r] EXCEPT !.tracked = @ \cup Collection!KnownOf(run[r], c)]
             s == Collection!NextCreator(t)
  <1>1. DayRunOK(master, run[r]) /\ run[r].at = "discover" /\ DayTypes
    BY DEF DayInv, Collection!SkipDisabled
  <1>2. DayRunOK(master, t) /\ t.at = "discover"
    BY <1>1 DEF DayRunOK, RunFields, Answered, Collection!Places, Written, Early, Stopped, Collection!KnownOf
  <1>3. run'[r] = s /\ run' = [run EXCEPT ![r] = s] /\ UNCHANGED <<met, master, events, manifest, row, stored>>
    <2>1. run' = [run EXCEPT ![r] = s]
      BY DEF Collection!SkipDisabled
    <2>2. run'[r] = s
      BY <1>1, <2>1 DEF DayTypes
    <2>3. QED
      BY <2>1, <2>2 DEF Collection!SkipDisabled
  <1> HIDE DEF t
  <1>4. DayRunOK(master, s) /\ s.at \in {"discover", "publish", "upsert"}
    BY <1>2, NextCreatorOK
  <1> HIDE DEF s
  <1>5. QED
    BY <1>1, <1>3, <1>4, DayGoesOn DEF DayTypes, Collection!Saving

LEMMA AsksOK ==
    ASSUME NEW m, NEW s, DayRunOK(m, s), s.at = "discover", NEW c, NEW outcome \in {"response", "YouTubeAPIError"}
    PROVE  LET t == Collection!Asks(s, c, outcome) IN
           DayRunOK(m, t) /\ t.at = "discover" /\ t.known = s.known /\ t.found = s.found /\ t.tracked = s.tracked
  <1>1. s.wall = FALSE
    BY DEF DayRunOK, Stopped
  <1>2. QED
    BY <1>1 DEF DayRunOK, RunFields, Answered, Collection!Places, Written, Early, Stopped, Collection!Asks, Collection!Requested

LEMMA StepDiscoverCreator == ASSUME DayInv, NEW r \in DayRuns, Collection!DiscoverCreator(r) PROVE DayInv'
  <1> DEFINE c == Creators[run[r].creator]
  <1>1. DayRunOK(master, run[r]) /\ run[r].at = "discover" /\ DayTypes
    BY DEF DayInv, Collection!DiscoverCreator
  <1>2. Collection!Of(c) \subseteq DayVideos
    <2>1. run[r].creator \in 1..Len(Creators)
      BY <1>1, DayLimits DEF DayRunOK
    <2>2. c \in DOMAIN Uploads
      BY <2>1, DayLimits
    <2>3. QED
      BY <2>2, DayLimits DEF Collection!Of
  <1>3. PICK outcome \in Collection!CallOutcomes : run' = [run EXCEPT ![r] = Collection!Discovered(run[r], c, outcome)]
    BY DEF Collection!DiscoverCreator
  <1> DEFINE s == Collection!Discovered(run[r], c, outcome)
             t == Collection!Asks(run[r], c, outcome)
  <1>4. run'[r] = s /\ UNCHANGED <<met, master, events, manifest, row, stored>>
    BY <1>1, <1>3 DEF Collection!DiscoverCreator, DayTypes
  <1> HIDE DEF c
  <1>5. DayRunOK(master, s) /\ s.at \in {"discover", "publish", "upsert", "stopped", "salvage"}
    <2>1. CASE outcome = "response"
      <3> DEFINE u == [t EXCEPT !.found = @ \cup (Collection!Of(c) \ run[r].known), !.tracked = @ \cup Collection!Of(c)]
      <3>1. s = Collection!NextCreator(u)
        BY <2>1 DEF Collection!Discovered
      <3>2. DayRunOK(master, t) /\ t.at = "discover" /\ t.known = run[r].known
        BY <1>1, <2>1, AsksOK
      <3> HIDE DEF t, s
      <3>3. DayRunOK(master, u) /\ u.at = "discover"
        BY <1>2, <3>2 DEF DayRunOK, RunFields, Answered, Collection!Places, Written, Early, Stopped
      <3> HIDE DEF u
      <3>4. QED
        BY <3>1, <3>3, NextCreatorOK
    <2>2. CASE outcome = "YouTubeAPIError"
      <3> DEFINE u == [t EXCEPT !.tracked = @ \cup Collection!KnownOf(run[r], c)]
      <3>1. s = Collection!NextCreator(u)
        BY <2>2 DEF Collection!Discovered
      <3>2. DayRunOK(master, t) /\ t.at = "discover" /\ t.known = run[r].known
        BY <1>1, <2>2, AsksOK
      <3> HIDE DEF t, s
      <3>3. DayRunOK(master, u) /\ u.at = "discover"
        BY <3>2 DEF DayRunOK, RunFields, Answered, Collection!Places, Written, Early, Stopped, Collection!KnownOf
      <3> HIDE DEF u
      <3>4. QED
        BY <3>1, <3>3, NextCreatorOK
    <2>3. CASE outcome = "QuotaExhaustedError"
      <3> DEFINE place == IF run[r].found = {} THEN "stopped" ELSE "salvage"
      <3>1. s = [t EXCEPT !.at = place]
        BY <2>3 DEF Collection!Discovered
      <3>2. t = [[run[r] EXCEPT !.first = t.first] EXCEPT !.wasted = run[r].wasted \/ run[r].wall, !.wall = TRUE]
        BY <1>1, <2>3 DEF Collection!Asks, Collection!Requested, DayRunOK, RunFields
      <3>3. run[r].wall = FALSE
        BY <1>1 DEF DayRunOK, Stopped
      <3> HIDE DEF t, s
      <3>4. t = [f \in RunFields |-> t[f]] /\ t.wasted = FALSE /\ t.wall = TRUE
            /\ \A f \in RunFields \ {"first", "wasted", "wall"} : t[f] = run[r][f]
        BY <1>1, <3>2, <3>3 DEF DayRunOK, RunFields
      <3>5. place \in {"stopped", "salvage"} /\ (place = "stopped" => run[r].found = {})
        OBVIOUS
      <3> HIDE DEF place
      <3>6. QED
        BY <1>1, <3>1, <3>4, <3>5 DEF DayRunOK, RunFields, Answered, Collection!Places, Collection!Over, Written, Early, Stopped
    <2>4. QED
      BY <2>1, <2>2, <2>3, CallEnds
  <1> HIDE DEF s
  <1>6. QED
    BY <1>1, <1>3, <1>4, <1>5, DayGoesOn DEF DayTypes, Collection!Saving

\* A run that has written what it found goes to another place.
LEMMA DayMoves ==
    ASSUME DayInv, NEW r \in DayRuns, NEW place \in Collection!Places \ (Collection!Saving \cup {"start", "discover", "done", "summarise"}),
           run' = [run EXCEPT ![r].at = place], UNCHANGED <<row, stored, met>>,
           master \subseteq master', master' \subseteq DayVideos, events' \subseteq master', manifest' \subseteq master',
           place \in Written => run[r].found \subseteq master', run[r].wall => place \in Stopped,
           place \in Early => run[r].at \in Early
    PROVE  DayInv'
  <1>1. DayRunOK(master, run[r]) /\ DayTypes
    BY DEF DayInv
  <1>2. run'[r] = [run[r] EXCEPT !.at = place]
    BY <1>1 DEF DayTypes
  <1>3. DayRunOK(master', run'[r]) /\ run'[r].at = place
    BY <1>1, <1>2 DEF DayRunOK, RunFields, Answered
  <1>4. QED
    BY <1>2, <1>3, DayGoesOn

LEMMA StepUpsertVideos == ASSUME DayInv, NEW r \in DayRuns, Collection!UpsertVideos(r) PROVE DayInv'
  <1>1. DayRunOK(master, run[r]) /\ run[r].at \in {"upsert", "salvage"} /\ DayTypes
    BY DEF DayInv, Collection!UpsertVideos
  <1>2. run[r].found \subseteq DayVideos /\ UNCHANGED <<met, events, manifest, row, stored>>
    BY <1>1 DEF DayRunOK, Collection!UpsertVideos
  <1>3. CASE master' = master \cup run[r].found /\ run' = [run EXCEPT ![r].at = IF @ = "upsert" THEN "record" ELSE "salvagePublish"]
    <2> DEFINE place == IF run[r].at = "upsert" THEN "record" ELSE "salvagePublish"
    <2>1. run' = [run EXCEPT ![r].at = place]
      BY <1>3
    <2>2. /\ place \in {"record", "salvagePublish"} /\ (run[r].wall => place \in Stopped)
          /\ place \in Early => run[r].at \in Early
      BY <1>1 DEF DayRunOK, Stopped, Early
    <2> HIDE DEF place
    <2>3. QED
      BY <1>1, <1>2, <1>3, <2>1, <2>2, DayMoves DEF DayTypes, Collection!Places, Collection!Saving, Early
  <1>4. CASE run' = [run EXCEPT ![r].at = "failed"] /\ \E some \in SUBSET run[r].found : master' = master \cup some
    BY <1>1, <1>2, <1>4, DayMoves DEF DayTypes, Collection!Places, Collection!Saving, Collection!Over, Written, Early, Stopped
  <1>5. QED
    BY <1>3, <1>4 DEF Collection!UpsertVideos

LEMMA StepRecordBestEffort == ASSUME DayInv, NEW r \in DayRuns, Collection!RecordBestEffort(r) PROVE DayInv'
  <1> DEFINE place == IF run[r].at = "record" THEN "publish" ELSE "stopped"
  <1>1. DayRunOK(master, run[r]) /\ run[r].at \in {"record", "salvageRecord"} /\ DayTypes
    BY DEF DayInv, Collection!RecordBestEffort
  <1>2. /\ run' = [run EXCEPT ![r].at = place] /\ UNCHANGED <<met, master, manifest, row, stored>>
        /\ events' = events \cup Collection!VideosToNotify(run[r]) \/ events' = events
    BY DEF Collection!RecordBestEffort
  <1>3. /\ place \in {"publish", "stopped"} /\ (run[r].wall => place \in Stopped)
        /\ place \in Early => run[r].at \in Early
    BY <1>1 DEF DayRunOK, Stopped, Early
  <1>4. run[r].found \subseteq master /\ Collection!VideosToNotify(run[r]) \subseteq run[r].found
    BY <1>1 DEF DayRunOK, Written, Collection!VideosToNotify
  <1> HIDE DEF place
  <1>5. QED
    BY <1>1, <1>2, <1>3, <1>4, DayMoves DEF DayTypes, Collection!Places, Collection!Saving, Collection!Over

LEMMA StepPublishManifest == ASSUME DayInv, NEW r \in DayRuns, Collection!PublishManifest(r) PROVE DayInv'
  <1> DEFINE place == IF run[r].at = "publish" THEN "select" ELSE "salvageRecord"
  <1>1. DayRunOK(master, run[r]) /\ run[r].at \in {"publish", "salvagePublish"} /\ DayTypes
    BY DEF DayInv, Collection!PublishManifest
  <1>2. /\ run' = [run EXCEPT ![r].at = place] /\ UNCHANGED <<met, master, events, row, stored>>
        /\ manifest' = run[r].known \cup run[r].found \/ manifest' = manifest
    BY DEF Collection!PublishManifest
  <1>3. /\ place \in {"select", "salvageRecord"} /\ (run[r].wall => place \in Stopped)
        /\ place \in Early => run[r].at \in Early
    BY <1>1 DEF DayRunOK, Stopped, Early
  <1>4. run[r].found \subseteq master /\ run[r].known \subseteq master
    BY <1>1 DEF DayRunOK, Written
  <1> HIDE DEF place
  <1>5. QED
    BY <1>1, <1>2, <1>3, <1>4, DayMoves DEF DayTypes, Collection!Places, Collection!Saving, Collection!Over

LEMMA StepDies == ASSUME DayInv, NEW r \in DayRuns, Collection!Dies(r) PROVE DayInv'
  <1>1. run' = [run EXCEPT ![r].at = "failed"] /\ UNCHANGED <<met, master, events, manifest, row, stored>> /\ DayTypes
    BY DEF DayInv, Collection!Dies
  <1>2. QED
    BY <1>1, DayMoves DEF DayTypes, Collection!Places, Collection!Saving, Collection!Over, Written, Early, Stopped

LEMMA StepSelectDue == ASSUME DayInv, NEW r \in DayRuns, Collection!SelectDue(r) PROVE DayInv'
  <1>1. DayRunOK(master, run[r]) /\ run[r].at = "select" /\ DayTypes
    BY DEF DayInv, Collection!SelectDue
  <1>2. PICK wanted \in SUBSET run[r].tracked :
            run' = [run EXCEPT ![r].due = wanted, ![r].at = IF wanted = {} THEN "done" ELSE "fetch"]
    BY DEF Collection!SelectDue
  <1> DEFINE place == IF wanted = {} THEN "done" ELSE "fetch"
             s == [run[r] EXCEPT !.due = wanted, !.at = place]
  <1>3. run' = [run EXCEPT ![r] = s] /\ run'[r] = s /\ UNCHANGED <<met, master, events, manifest, row, stored>>
    BY <1>1, <1>2 DEF DayTypes, Collection!SelectDue
  <1>4. place \in {"done", "fetch"} /\ (place = "done" => wanted = {})
    OBVIOUS
  <1> HIDE DEF place
  <1>5. DayRunOK(master, s) /\ s.at = place /\ (place = "done" => s.results = {})
    BY <1>1, <1>4
       DEF DayRunOK, RunFields, Answered, Collection!Places, Collection!Over, Written, Early, Stopped
  <1> HIDE DEF s
  <1>6. QED
    BY <1>1, <1>3, <1>4, <1>5, DayGoesOn DEF DayTypes, Collection!Saving

\* The reasons of WithReasons.
Joined(f, g) == [v \in DOMAIN f \cup DOMAIN g |-> IF v \in DOMAIN f THEN f[v] ELSE g[v]]

\* A batch is answered for: each video of it is a result or has a reason.
LEMMA BatchAnswered ==
    ASSUME NEW m, NEW s, DayRunOK(m, s), s.at = "fetch",
           NEW got \in SUBSET Collection!Batch(s), NEW why, Collection!Batch(s) \subseteq got \cup DOMAIN why,
           DOMAIN why \subseteq Collection!Rest(s), \A v \in DOMAIN why : why[v] \in Reasons,
           NEW t, t = [s EXCEPT !.results = s.results \cup got, !.reasons = Joined(why, s.reasons)]
    PROVE  DayRunOK(m, Collection!AfterBatch(t)) /\ Collection!AfterBatch(t).at \in {"fetch", "summarise"}
  <1> DEFINE batch == Collection!Batch(s)
             all == Joined(why, s.reasons)
             place == IF batch = Collection!Rest(s) THEN "summarise" ELSE "fetch"
  <1>1. batch \subseteq Collection!Rest(s) /\ Collection!Rest(s) = s.due \ s.asked
    BY DEF Collection!Batch, Collection!Rest
  <1>2. DOMAIN all = DOMAIN why \cup DOMAIN s.reasons
    BY DEF Joined
  <1>3. \A v \in DOMAIN all : all[v] \in Reasons
    BY DEF Joined, DayRunOK, Answered
  <1> HIDE DEF all
  <1>4. t.due = s.due /\ t.asked = s.asked
    BY DEF DayRunOK, RunFields
  <1>5. Collection!Rest(t) = Collection!Rest(s) /\ Collection!Batch(t) = batch
    BY <1>4 DEF Collection!Rest, Collection!Batch
  <1>6. Collection!AfterBatch(t) = [t EXCEPT !.asked = s.asked \cup batch, !.at = place]
    BY <1>4, <1>5 DEF Collection!AfterBatch
  <1>7. place \in {"fetch", "summarise"} /\ (place = "summarise" => s.due \ s.asked = batch)
    BY <1>1
  <1> HIDE DEF place, batch
  <1> DEFINE u == Collection!AfterBatch(t)
  <1>8. u = [s EXCEPT !.results = s.results \cup got, !.reasons = all, !.asked = s.asked \cup batch, !.at = place]
    BY <1>6 DEF DayRunOK, RunFields, all
  <1> HIDE DEF u
  <1>9. /\ u = [f \in RunFields |-> u[f]] /\ u.results = s.results \cup got /\ u.reasons = all
        /\ u.asked = s.asked \cup batch /\ u.at = place
        /\ \A f \in RunFields \ {"results", "reasons", "asked", "at"} : u[f] = s[f]
    BY <1>8 DEF DayRunOK, RunFields
  <1>10. got \subseteq s.due /\ batch \subseteq got \cup DOMAIN all
    BY <1>1, <1>2 DEF batch
  <1>11. Answered(u)
    BY <1>2, <1>3, <1>7, <1>9, <1>10 DEF Answered, DayRunOK, RunFields
  <1>12. s.wall = FALSE /\ s.at \in Written
    BY DEF DayRunOK, Stopped, Written
  <1>13. place \in Collection!Places /\ place \notin Early /\ place \notin {"start", "discover"} /\ place \in Written
    BY <1>7 DEF Collection!Places, Early, Written
  <1>14. DayRunOK(m, u)
    BY <1>9, <1>10, <1>11, <1>12, <1>13 DEF DayRunOK, RunFields
  <1>15. QED
    BY <1>7, <1>9, <1>14 DEF u

LEMMA StepGetVideoStatistics == ASSUME DayInv, NEW r \in DayRuns, Collection!GetVideoStatistics(r) PROVE DayInv'
  <1>1. DayRunOK(master, run[r]) /\ run[r].at = "fetch" /\ DayTypes
        /\ UNCHANGED <<met, master, events, manifest, row, stored>>
    BY DEF DayInv, Collection!GetVideoStatistics
  <1> DEFINE batch == Collection!Batch(run[r])
  <1> DEFINE Ends(outcome, missing, malformed) ==
            LET s == Collection!Requested(run[r], outcome)
                got == Collection!FetchBatch(Collection!Batch(s), missing, malformed)
            IN run' = [run EXCEPT ![r] =
                 CASE outcome = "response" ->
                        Collection!AfterBatch(Collection!WithReasons([s EXCEPT !.results = @ \cup got.results], got.reasons))
                   [] outcome = "YouTubeAPIError" ->
                        Collection!AfterBatch(Collection!WithReasons(s, [v \in Collection!Batch(s) |-> "apiError"]))
                   [] outcome = "QuotaExhaustedError" ->
                        [Collection!WithReasons(s, [v \in Collection!Rest(s) |-> "quota"]) EXCEPT !.at = "summarise"]]
  <1>0. PICK outcome \in Collection!CallOutcomes, missing \in SUBSET batch :
            \E malformed \in SUBSET (batch \ missing) : Ends(outcome, missing, malformed)
    BY DEF Collection!GetVideoStatistics
  <1>2. PICK malformed \in SUBSET (batch \ missing) : Ends(outcome, missing, malformed)
    BY <1>0
  <1>3. run[r].wall = FALSE /\ run[r].wasted = FALSE
    BY <1>1 DEF DayRunOK, Stopped
  <1>4. batch \subseteq Collection!Rest(run[r])
    BY DEF Collection!Batch, Collection!Rest
  <1>5. DayRunOK(master, run'[r]) /\ run'[r].at \in {"fetch", "summarise"} /\ run' = [run EXCEPT ![r] = run'[r]]
    <2>1. CASE outcome = "response"
      <3> DEFINE got == Collection!FetchBatch(batch, missing, malformed)
                 t == [run[r] EXCEPT !.results = run[r].results \cup got.results,
                                     !.reasons = Joined(got.reasons, run[r].reasons)]
      <3>1. Collection!Requested(run[r], outcome) = run[r]
        BY <1>1, <1>3, <2>1 DEF Collection!Requested, DayRunOK, RunFields
      <3>2. t = Collection!WithReasons([run[r] EXCEPT !.results = @ \cup got.results], got.reasons)
        BY <1>1 DEF Collection!WithReasons, Joined, DayRunOK, RunFields
      <3>3. run'[r] = Collection!AfterBatch(t) /\ run' = [run EXCEPT ![r] = Collection!AfterBatch(t)]
        BY <1>1, <1>2, <2>1, <3>1, <3>2 DEF DayTypes
      <3>4. /\ got.results \subseteq batch /\ DOMAIN got.reasons \subseteq batch
            /\ batch \subseteq got.results \cup DOMAIN got.reasons /\ \A v \in DOMAIN got.reasons : got.reasons[v] \in Reasons
        BY DEF Collection!FetchBatch, Reasons
      <3> HIDE DEF got
      <3>5. DayRunOK(master, Collection!AfterBatch(t)) /\ Collection!AfterBatch(t).at \in {"fetch", "summarise"}
        BY <1>1, <1>4, <3>4, BatchAnswered
      <3> HIDE DEF t
      <3>6. QED
        BY <3>3, <3>5
    <2>2. CASE outcome = "YouTubeAPIError"
      <3> DEFINE why == [v \in batch |-> "apiError"]
                 t == [run[r] EXCEPT !.results = run[r].results \cup {}, !.reasons = Joined(why, run[r].reasons)]
      <3>1. Collection!Requested(run[r], outcome) = run[r]
        BY <1>1, <1>3, <2>2 DEF Collection!Requested, DayRunOK, RunFields
      <3>2. t = Collection!WithReasons(run[r], why)
        BY <1>1 DEF Collection!WithReasons, Joined, DayRunOK, RunFields
      <3>3. run'[r] = Collection!AfterBatch(t) /\ run' = [run EXCEPT ![r] = Collection!AfterBatch(t)]
        BY <1>1, <1>2, <2>2, <3>1, <3>2 DEF DayTypes
      <3>4. DOMAIN why = batch /\ \A v \in DOMAIN why : why[v] \in Reasons
        BY DEF Reasons
      <3> HIDE DEF why
      <3>5. DayRunOK(master, Collection!AfterBatch(t)) /\ Collection!AfterBatch(t).at \in {"fetch", "summarise"}
        BY <1>1, <1>4, <3>4, BatchAnswered
      <3> HIDE DEF t
      <3>6. QED
        BY <3>3, <3>5
    <2>3. CASE outcome = "QuotaExhaustedError"
      <3> DEFINE s == Collection!Requested(run[r], outcome)
                 why == [v \in Collection!Rest(s) |-> "quota"]
                 all == Joined(why, s.reasons)
                 t == [Collection!WithReasons(s, why) EXCEPT !.at = "summarise"]
      <3>1. run'[r] = t /\ run' = [run EXCEPT ![r] = t]
        BY <1>1, <1>2, <2>3 DEF DayTypes
      <3>2. s = [run[r] EXCEPT !.wasted = FALSE, !.wall = TRUE]
        BY <1>1, <1>3, <2>3 DEF Collection!Requested, DayRunOK, RunFields
      <3>3. s.due = run[r].due /\ s.asked = run[r].asked /\ s.reasons = run[r].reasons
        BY <1>1, <3>2 DEF DayRunOK, RunFields
      <3>4. /\ DOMAIN all = (run[r].due \ run[r].asked) \cup DOMAIN run[r].reasons
            /\ \A v \in DOMAIN all : all[v] \in Reasons
        BY <1>1, <3>3 DEF Joined, Collection!Rest, Reasons, DayRunOK, Answered
      <3>5. t = [s EXCEPT !.reasons = all, !.at = "summarise"]
        BY DEF Collection!WithReasons, Joined
      <3> HIDE DEF all, s, t, why
      <3>6. /\ t = [f \in RunFields |-> t[f]] /\ t.at = "summarise" /\ t.reasons = all /\ t.wall = TRUE /\ t.wasted = FALSE
            /\ \A f \in RunFields \ {"at", "reasons", "wall", "wasted"} : t[f] = run[r][f]
        BY <1>1, <3>2, <3>5 DEF DayRunOK, RunFields
      <3>7. Answered(t)
        BY <1>1, <3>4, <3>6 DEF Answered, DayRunOK, RunFields
      <3>8. DayRunOK(master, t)
        BY <1>1, <3>6, <3>7 DEF DayRunOK, RunFields, Collection!Places, Written, Early, Stopped
      <3>9. QED
        BY <3>1, <3>6, <3>8
    <2>4. QED
      BY <2>1, <2>2, <2>3, CallEnds
  <1>6. QED
    BY <1>1, <1>5, DayGoesOn DEF DayTypes, Collection!Saving

\* A run that saves the day keeps all it has but its place and what is left to store.
Goes(s, place, todo) == [s EXCEPT !.at = place, !.left = todo]

LEMMA SaverOK ==
    ASSUME NEW m, NEW s, DayRunOK(m, s), s.at \in {"summarise", "write", "mark"},
           NEW place \in {"write", "mark", "done", "failed"}, NEW todo
    PROVE  /\ DayRunOK(m, Goes(s, place, todo)) /\ Goes(s, place, todo).at = place
           /\ Goes(s, place, todo).left = todo /\ Goes(s, place, todo).results = s.results
  <1> DEFINE t == Goes(s, place, todo)
  <1>1. /\ t = [f \in RunFields |-> t[f]] /\ t.at = place /\ t.left = todo
        /\ \A f \in RunFields \ {"at", "left"} : t[f] = s[f]
    BY DEF DayRunOK, RunFields, Goes
  <1>2. place \in Collection!Places /\ place \in Stopped /\ place \notin Early /\ place \notin {"start", "discover", "summarise"}
    BY DEF Collection!Places, Collection!Over, Collection!Saving, Stopped, Early
  <1>3. s.found \subseteq m
    BY DEF DayRunOK, Written
  <1> HIDE DEF t
  <1>4. DayRunOK(m, t)
    BY <1>1, <1>2, <1>3 DEF DayRunOK, RunFields, Answered
  <1>5. QED
    BY <1>1, <1>4 DEF t, RunFields

LEMMA Stays == ASSUME NEW m, NEW s, DayRunOK(m, s), NEW place PROVE [s EXCEPT !.at = place] = Goes(s, place, s.left)
  BY DEF DayRunOK, RunFields, Goes

LEMMA SummaryOK ==
    ASSUME NEW m, NEW r \in DayRuns, DayRunOK(m, run[r]), run[r].at = "summarise"
    PROVE  LET x == Collection!Summary(r) IN
           /\ x = [f \in {"status", "by", "requested", "collected", "reasons"} |-> x[f]]
           /\ x.status = "IN_PROGRESS" /\ x.by = r /\ x.collected = run[r].results
           /\ x.collected \subseteq x.requested /\ x.requested \subseteq m
           /\ x.requested = x.collected \cup DOMAIN x.reasons
           /\ \A v \in DOMAIN x.reasons : x.reasons[v] # "unknown"
  <1> DEFINE x == Collection!Summary(r)
  <1>1. /\ x = [f \in {"status", "by", "requested", "collected", "reasons"} |-> x[f]]
        /\ x.status = "IN_PROGRESS" /\ x.by = r /\ x.collected = run[r].results /\ x.requested = run[r].due
        /\ x.reasons = [v \in run[r].due \ run[r].results |->
                            IF v \in DOMAIN run[r].reasons THEN run[r].reasons[v] ELSE "unknown"]
    BY DEF Collection!Summary, Collection!Skipped
  <1> HIDE DEF x
  <1>2. run[r].due \subseteq run[r].results \cup DOMAIN run[r].reasons /\ run[r].results \subseteq run[r].due
    BY DEF DayRunOK, Answered
  <1>3. \A v \in DOMAIN run[r].reasons : run[r].reasons[v] \in Reasons
    BY DEF DayRunOK, Answered
  <1>4. \A v \in DOMAIN x.reasons : x.reasons[v] # "unknown"
    BY <1>1, <1>2, <1>3 DEF Reasons
  <1>5. run[r].due \subseteq m
    BY DEF DayRunOK, Written
  <1>6. QED
    BY <1>1, <1>2, <1>4, <1>5 DEF x

LEMMA StepClaimRunSummary ==
    ASSUME DayInv, NEW r \in DayRuns, Collection!ClaimRunSummary(r)
    PROVE  DayInv' /\ (row.status = "COMPLETE" => row' = row)
  <1>1. DayRunOK(master, run[r]) /\ run[r].at = "summarise" /\ DayTypes /\ UNCHANGED <<master, events, manifest, stored>>
    BY DEF DayInv, Collection!ClaimRunSummary
  <1> DEFINE x == Collection!Summary(r)
  <1>2. /\ x = [f \in {"status", "by", "requested", "collected", "reasons"} |-> x[f]]
        /\ x.status = "IN_PROGRESS" /\ x.by = r /\ x.collected = run[r].results
        /\ x.collected \subseteq x.requested /\ x.requested \subseteq master
        /\ x.requested = x.collected \cup DOMAIN x.reasons
        /\ \A v \in DOMAIN x.reasons : x.reasons[v] # "unknown"
    BY <1>1, SummaryOK
  <1> DEFINE place == IF run[r].results = {} THEN "mark" ELSE "write"
             claims == row' = x /\ run' = [run EXCEPT ![r].at = place, ![r].left = run[r].results]
             ends == row' \in {row, x} /\ run' = [run EXCEPT ![r].at = "failed"]
  <1>3. (row' = row \/ (Collection!Claimable(row.status) /\ row' = x)) /\ (claims \/ ends)
    BY DEF Collection!ClaimRunSummary
  <1>4. row.status = "COMPLETE" => row' = row
    BY <1>3 DEF Collection!Claimable
  <1>5. met' = (met \/ (row' # row /\ \E p \in DayRuns \ {r} : run[p].at \in Collection!Saving))
    BY DEF Collection!ClaimRunSummary
  <1> HIDE DEF x
  <1>6. \A q \in DayRuns : q # r => run'[q] = run[q]
    BY <1>1, <1>3 DEF DayTypes
  <1>7. /\ DayRunOK(master, run'[r]) /\ run'[r].results = run[r].results
        /\ claims => run'[r].at = place /\ run'[r].left = run[r].results
        /\ ends => run'[r].at = "failed"
    <2>1. place \in {"mark", "write"}
      OBVIOUS
    <2>2. CASE claims
      <3>1. run'[r] = Goes(run[r], place, run[r].results)
        BY <1>1, <2>2 DEF DayTypes, Goes
      <3> HIDE DEF place
      <3>2. DayRunOK(master, run'[r]) /\ run'[r].at = place /\ run'[r].left = run[r].results /\ run'[r].results = run[r].results
        BY <1>1, <2>1, <3>1, SaverOK
      <3>3. ends => run'[r].at = "failed"
        BY <1>1 DEF DayTypes, DayRunOK, RunFields
      <3>4. QED
        BY <3>2, <3>3
    <2>3. CASE ends /\ ~claims
      <3>1. run'[r] = Goes(run[r], "failed", run[r].left)
        BY <1>1, <2>3, Stays DEF DayTypes
      <3>2. DayRunOK(master, run'[r]) /\ run'[r].at = "failed" /\ run'[r].results = run[r].results
        BY <1>1, <3>1, SaverOK
      <3>3. QED
        BY <2>3, <3>2
    <2>4. QED
      BY <1>3, <2>2, <2>3
  <1>8. DayTypes'
    <2>1. run' = [q \in DayRuns |-> run'[q]]
      BY <1>1, <1>3 DEF DayTypes
    <2>2. met' \in BOOLEAN
      BY <1>1, <1>5 DEF DayTypes
    <2>3. QED
      BY <1>1, <2>1, <2>2 DEF DayTypes
  <1>9. DayRowOK'
    <2>1. DayRowOK /\ 0 \notin DayRuns
      BY DayLimits DEF DayInv
    <2>2. CASE row' = row
      BY <1>1, <2>1, <2>2 DEF DayRowOK, Collection!EverySkipExplained
    <2>3. CASE row' = x
      BY <1>1, <1>2, <2>3 DEF DayRowOK, Collection!EverySkipExplained
    <2>4. QED
      BY <1>3, <2>2, <2>3
  <1>10. Collection!CompleteMeansStored'
    <2>1. row'.status = "COMPLETE" => row' = row
      BY <1>2, <1>3
    <2>2. met' = FALSE => met = FALSE
      BY <1>1, <1>5 DEF DayTypes
    <2>3. QED
      BY <1>1, <2>1, <2>2, <1>5 DEF DayInv, Collection!CompleteMeansStored
  <1>11. SavesAlone'
    <2> SUFFICES ASSUME ~met', NEW q \in DayRuns, run'[q].at \in Collection!Saving
                 PROVE  row'.by = q /\ row'.collected = run'[q].results
      BY DEF SavesAlone
    <2>1. ~met /\ (row' # row => \A p \in DayRuns \ {r} : run[p].at \notin Collection!Saving)
      BY <1>5
    <2>2. CASE q = r
      <3>1. claims
        BY <1>3, <1>7, <2>2 DEF Collection!Saving
      <3>2. QED
        BY <1>2, <1>7, <2>2, <3>1
    <2>3. CASE q # r
      BY <1>6, <2>1, <2>3 DEF DayInv, SavesAlone
    <2>4. QED
      BY <2>2, <2>3
  <1>12. ASSUME NEW q \in DayRuns PROVE DayRunOK(master, run[q])' /\ Stores(run[q])'
    <2>1. CASE q = r
      <3>1. claims => Stores(run[r])'
        BY <1>7 DEF Stores, Collection!Saving
      <3>2. ends => Stores(run[r])'
        BY <1>7 DEF Stores, Collection!Saving
      <3>3. QED
        BY <1>1, <1>3, <1>7, <2>1, <3>1, <3>2
    <2>2. CASE q # r
      BY <1>1, <1>6, <2>2 DEF DayInv, Stores
    <2>3. QED
      BY <2>1, <2>2
  <1>13. QED
    BY <1>4, <1>8, <1>9, <1>10, <1>11, <1>12 DEF DayInv

LEMMA StepWriteSnapshot == ASSUME DayInv, NEW r \in DayRuns, Collection!WriteSnapshot(r) PROVE DayInv'
  <1>1. DayRunOK(master, run[r]) /\ Stores(run[r]) /\ run[r].at = "write" /\ DayTypes
        /\ UNCHANGED <<met, master, events, manifest, row>>
    BY DEF DayInv, Collection!WriteSnapshot
  <1>2. CASE run' = [run EXCEPT ![r].at = "failed"] /\ stored' = stored
    <2>1. run'[r] = Goes(run[r], "failed", run[r].left)
      BY <1>1, <1>2, Stays DEF DayTypes
    <2>2. DayRunOK(master, run'[r]) /\ run'[r].at = "failed"
      BY <1>1, <2>1, SaverOK
    <2>3. run' = [run EXCEPT ![r] = run'[r]]
      BY <1>2 DEF DayTypes
    <2>4. QED
      BY <1>1, <1>2, <2>2, <2>3, DayGoesOn DEF DayTypes, Collection!Saving
  <1>3. ASSUME NEW v \in run[r].left, stored' = [stored EXCEPT ![v] = r],
               run' = [run EXCEPT ![r].left = @ \ {v}, ![r].at = IF run[r].left = {v} THEN "mark" ELSE @]
        PROVE  DayInv'
    <2> DEFINE place == IF run[r].left = {v} THEN "mark" ELSE "write"
    <2>1. place \in {"mark", "write"} /\ (place = "mark" => run[r].left \ {v} = {})
      OBVIOUS
    <2>2. run'[r] = Goes(run[r], place, run[r].left \ {v})
      BY <1>1, <1>3 DEF DayTypes, DayRunOK, RunFields, Goes
    <2>3. DayTypes'
      BY <1>1, <1>3 DEF DayTypes
    <2>4. \A q \in DayRuns : q # r => run'[q] = run[q]
      BY <1>1, <1>3 DEF DayTypes
    <2> HIDE DEF place
    <2>5. DayRunOK(master, run'[r]) /\ run'[r].at = place /\ run'[r].left = run[r].left \ {v} /\ run'[r].results = run[r].results
      BY <1>1, <2>1, <2>2, SaverOK
    <2>6. run[r].results \subseteq DayVideos /\ r # 0
      BY <1>1, DayLimits DEF DayRunOK, DayTypes, Written
    <2>7. \A u \in DayVideos : (stored[u] # 0 \/ u = v) => stored'[u] # 0
      BY <1>1, <1>3, <2>6 DEF DayTypes
    <2>9. Stores(run[r])'
      BY <1>1, <2>1, <2>5, <2>6, <2>7 DEF Stores, Collection!Saving
    <2>10. ASSUME NEW q \in DayRuns PROVE DayRunOK(master, run[q])' /\ Stores(run[q])'
      <3>1. CASE q = r
        BY <1>1, <2>5, <2>9, <3>1
      <3>2. CASE q # r
        <4>1. run[q].results \subseteq DayVideos \/ run[q].at \notin Collection!Saving \cup {"done"}
          BY <1>1 DEF DayInv, DayRunOK, DayTypes, Written, Collection!Saving
        <4>2. QED
          BY <1>1, <2>4, <2>7, <3>2, <4>1 DEF DayInv, Stores, Collection!Saving
      <3>3. QED
        BY <3>1, <3>2
    <2>11. DayRowOK' /\ Collection!CompleteMeansStored'
      <3>1. row.collected \subseteq DayVideos
        BY <1>1 DEF DayInv, DayRowOK, DayTypes
      <3>2. QED
        BY <1>1, <2>7, <3>1 DEF DayInv, DayRowOK, Collection!EverySkipExplained, Collection!CompleteMeansStored
    <2>12. SavesAlone'
      BY <1>1, <2>4, <2>5 DEF DayInv, SavesAlone, Collection!Saving
    <2>13. QED
      BY <2>3, <2>10, <2>11, <2>12 DEF DayInv
  <1>4. QED
    BY <1>2, <1>3 DEF Collection!WriteSnapshot

LEMMA StepMarkRunSummaryComplete ==
    ASSUME DayInv, NEW r \in DayRuns, Collection!MarkRunSummaryComplete(r)
    PROVE  DayInv' /\ (row.status = "COMPLETE" => row' = row)
  <1>1. DayRunOK(master, run[r]) /\ Stores(run[r]) /\ run[r].at = "mark" /\ DayTypes /\ DayRowOK
        /\ UNCHANGED <<met, master, events, manifest, stored>>
    BY DEF DayInv, Collection!MarkRunSummaryComplete
  <1> DEFINE x == [row EXCEPT !.status = "COMPLETE"]
  <1>2. PICK place \in {"done", "failed"} : run' = [run EXCEPT ![r].at = place]
    BY DEF Collection!MarkRunSummaryComplete
  <1>3. row' \in {row, x}
    BY DEF Collection!MarkRunSummaryComplete
  <1>4. run'[r] = Goes(run[r], place, run[r].left) /\ \A q \in DayRuns : q # r => run'[q] = run[q]
    BY <1>1, <1>2, Stays DEF DayTypes
  <1>5. DayRunOK(master, run'[r]) /\ run'[r].at = place /\ run'[r].results = run[r].results
    BY <1>1, <1>4, SaverOK
  <1>6. /\ x = [f \in {"status", "by", "requested", "collected", "reasons"} |-> x[f]] /\ x.status = "COMPLETE"
        /\ \A f \in {"by", "requested", "collected", "reasons"} : x[f] = row[f]
        /\ row.status = "COMPLETE" => x = row
    BY <1>1 DEF DayRowOK
  <1> HIDE DEF x
  <1>7. DayTypes'
    BY <1>1, <1>2 DEF DayTypes
  <1>8. DayRowOK'
    <2>1. CASE row' = row
      BY <1>1, <2>1 DEF DayRowOK, Collection!EverySkipExplained
    <2>2. CASE row' = x
      BY <1>1, <1>6, <2>2 DEF DayRowOK, Collection!EverySkipExplained
    <2>3. QED
      BY <1>3, <2>1, <2>2
  <1>9. \A v \in run[r].results : stored[v] # 0
    BY <1>1 DEF Stores, Collection!Saving
  <1>10. row'.by = row.by /\ row'.collected = row.collected
    BY <1>3, <1>6
  <1>11. Collection!CompleteMeansStored'
    BY <1>1, <1>9, <1>10 DEF DayInv, SavesAlone, Collection!Saving, Collection!CompleteMeansStored
  <1>12. SavesAlone'
    BY <1>1, <1>4, <1>5, <1>10 DEF DayInv, SavesAlone, Collection!Saving
  <1>13. ASSUME NEW q \in DayRuns PROVE DayRunOK(master, run[q])' /\ Stores(run[q])'
    <2>1. CASE q = r
      BY <1>1, <1>5, <1>9, <2>1 DEF Stores, Collection!Saving
    <2>2. CASE q # r
      BY <1>1, <1>4, <2>2 DEF DayInv, Stores
    <2>3. QED
      BY <2>1, <2>2
  <1>14. QED
    BY <1>3, <1>6, <1>7, <1>8, <1>11, <1>12, <1>13 DEF DayInv

LEMMA StepDay == ASSUME DayInv, Collection!Next PROVE DayInv' /\ (row.status = "COMPLETE" => row' = row)
  <1>1. PICK r \in DayRuns :
            \/ Collection!Start(r) \/ Collection!SkipDisabled(r) \/ Collection!DiscoverCreator(r)
            \/ Collection!UpsertVideos(r) \/ Collection!RecordBestEffort(r) \/ Collection!PublishManifest(r)
            \/ Collection!SelectDue(r) \/ Collection!GetVideoStatistics(r) \/ Collection!ClaimRunSummary(r)
            \/ Collection!WriteSnapshot(r) \/ Collection!MarkRunSummaryComplete(r) \/ Collection!Dies(r)
    BY DEF Collection!Next
  <1>2. CASE Collection!Start(r)
    BY <1>2, StepStart DEF Collection!Start
  <1>3. CASE Collection!SkipDisabled(r)
    BY <1>3, StepSkipDisabled DEF Collection!SkipDisabled
  <1>4. CASE Collection!DiscoverCreator(r)
    BY <1>4, StepDiscoverCreator DEF Collection!DiscoverCreator
  <1>5. CASE Collection!UpsertVideos(r)
    BY <1>5, StepUpsertVideos DEF Collection!UpsertVideos
  <1>6. CASE Collection!RecordBestEffort(r)
    BY <1>6, StepRecordBestEffort DEF Collection!RecordBestEffort
  <1>7. CASE Collection!PublishManifest(r)
    BY <1>7, StepPublishManifest DEF Collection!PublishManifest
  <1>8. CASE Collection!SelectDue(r)
    BY <1>8, StepSelectDue DEF Collection!SelectDue
  <1>9. CASE Collection!GetVideoStatistics(r)
    BY <1>9, StepGetVideoStatistics DEF Collection!GetVideoStatistics
  <1>10. CASE Collection!WriteSnapshot(r)
    BY <1>10, StepWriteSnapshot DEF Collection!WriteSnapshot
  <1>11. CASE Collection!Dies(r)
    BY <1>11, StepDies DEF Collection!Dies
  <1>12. QED
    BY <1>1, <1>2, <1>3, <1>4, <1>5, <1>6, <1>7, <1>8, <1>9, <1>10, <1>11, StepClaimRunSummary, StepMarkRunSummaryComplete

LEMMA DaySound == ASSUME DayInv PROVE Collection!DayIsSound
  <1>1. Collection!TypeOK
    BY DEF DayInv, DayTypes, DayRowOK, DayRunOK, Collection!TypeOK
  <1>2. Collection!NothingAsked
    BY DEF DayInv, DayRunOK, Collection!NothingAsked
  <1>3. Collection!PaidForIsKept
    BY DEF DayInv, DayRunOK, Stores, Written, Collection!PaidForIsKept
  <1>4. QED
    BY <1>1, <1>2, <1>3 DEF DayInv, DayRowOK, Collection!DayIsSound
-----------------------------------------------------------------------------
(* The classification *)

FillFields == {"at", "seen", "todo", "writes", "targets", "ahead", "planned", "excused", "reread", "trouble", "end"}
ShortsFields == {"at", "todo", "ids", "trouble", "end"}

Known(class) == class # "gone" /\ ~Backfill!IsClassificationIncomplete(class)

\* What a video may be filed as: class is one a video of the kind can have.
Fits(v, class) == class \in Backfill!Classes \cup {"gone"} /\ Backfill!CanBe(v, class)

\* A Shorts backfill is about to follow up in the manifest.
ShortPending(v) == \E s \in ShortsRuns : shorts[s].at = "master" /\ v \in shorts[s].ids

\* Video Master said class of v, and has not been changed since but by a Shorts backfill.
Since(v, class) ==
    \/ fillMaster[v] = class
    \/ class = "upload" /\ fillMaster[v] = "short" /\ (ShortPending(v) \/ fillManifest[v] = "short")

FillTypes ==
    /\ phase \in [FillVideos -> Backfill!Phases]
    /\ fillMaster \in [FillVideos -> Backfill!Classes \cup {"gone"}]
    /\ fillManifest \in [FillVideos -> Backfill!Classes]
    /\ unsettled \subseteq FillVideos
    /\ fillRun = [r \in FillRuns |-> fillRun[r]] /\ shorts = [s \in ShortsRuns |-> shorts[s]]
    /\ worker = [v \in FillVideos |-> worker[v]]

\* The two copies of v, before any worker writes it.
PairOK(v) ==
    \/ ~Known(fillMaster[v]) \/ ~Known(fillManifest[v]) \/ fillMaster[v] = fillManifest[v]
    \/ fillMaster[v] = "short" /\ fillManifest[v] = "upload" /\ ShortPending(v)

WorkerOK(v) == LET w == worker[v] IN
    /\ w = [f \in {"at", "row", "old"} |-> w[f]]
    /\ w.at \in {"idle", "observed", "read", "put"}
    /\ w.at # "idle" => Known(w.row) /\ Fits(v, w.row)
    /\ w.at \in {"read", "put"} => w.old # "gone" /\ Fits(v, w.old)
    /\ Kind[v] = "short" /\ w.at = "read" => w.old = fillMaster[v]
    /\ w.at = "put" /\ (v \notin unsettled \/ Kind[v] = "short") => fillMaster[v] = Backfill!Merged(w.old, w.row)
    /\ w.at = "put" => Known(fillMaster[v])

VideoOK(v) ==
    /\ Fits(v, fillMaster[v]) /\ Fits(v, fillManifest[v])
    /\ Kind[v] \in {"upload", "short"} => phase[v] = "upcoming"
    /\ v \notin unsettled /\ worker[v].at # "put" => PairOK(v)
    /\ WorkerOK(v)

Apart == Backfill!BackfillInFlight => ~Backfill!WorkerInFlight

\* A run and a video of its plan.
RunVideoOK(s, v) ==
    /\ s.at = "plan" /\ Known(s.seen[v]) => Known(fillMaster[v]) /\ (v \notin unsettled => Since(v, s.seen[v]))
    /\ s.at = "plan" => Fits(v, s.seen[v])
    /\ s.at \in {"fetch", "master"} /\ v \in s.todo \cup (DOMAIN s.writes \ s.ahead) /\ v \notin unsettled =>
         ~(Known(fillManifest[v]) /\ Backfill!Fillable(v))
    /\ v \in DOMAIN s.writes => Known(s.writes[v]) /\ Fits(v, s.writes[v])
    /\ s.at \in {"fetch", "master"} /\ v \in DOMAIN s.writes \cap s.ahead /\ v \notin unsettled /\ Backfill!Fillable(v) =>
         fillManifest[v] = s.writes[v]
    /\ v \in s.ahead => Known(fillManifest[v])
    /\ v \in DOMAIN s.targets => Known(s.targets[v]) /\ Fits(v, s.targets[v]) /\ Known(fillMaster[v])
    /\ s.at \in {"fetch", "master"} /\ v \in DOMAIN s.targets /\ v \notin unsettled => Since(v, s.targets[v])
    /\ v \in s.reread => ~Backfill!Fillable(v)
    /\ s.at = "verify" /\ v \in DOMAIN s.targets /\ ~s.trouble => Known(fillManifest[v])
    /\ s.end = "COMPLETE" /\ v \in s.planned \ s.excused => Known(fillMaster[v]) /\ Known(fillManifest[v])

FillRunOK(s) ==
    /\ s = [f \in FillFields |-> s[f]]
    /\ s.at \in {"start", "plan", "fetch", "master", "verify", "over"}
    /\ s.end \in {"none", "PARTIAL", "COMPLETE", "FAILED"} /\ (s.end # "none" => s.at = "over")
    /\ s.at \in {"start", "plan"} => s.todo = {} /\ DOMAIN s.writes = {} /\ DOMAIN s.targets = {} /\ s.ahead = {}
                                     /\ s.planned = {} /\ s.excused = {} /\ s.reread = {}
    /\ s.at = "plan" => DOMAIN s.seen = FillVideos
    /\ s.trouble \in BOOLEAN
    /\ s.todo \subseteq FillVideos /\ DOMAIN s.writes \subseteq FillVideos /\ DOMAIN s.targets \subseteq FillVideos
    /\ s.planned \subseteq FillVideos /\ s.ahead \subseteq FillVideos /\ s.reread \subseteq FillVideos
    /\ s.at \in {"master", "verify"} => s.todo = {}
    /\ s.todo \cap s.ahead = {}
    /\ s.at = "verify" => DOMAIN s.writes = {} /\ s.reread = {}
    /\ s.at \in {"fetch", "master", "verify"} /\ ~s.trouble =>
         s.planned \subseteq s.todo \cup s.excused \cup DOMAIN s.writes \cup s.reread \cup DOMAIN s.targets
    /\ \A v \in FillVideos : RunVideoOK(s, v)

ShortsOK(s) ==
    /\ s = [f \in ShortsFields |-> s[f]]
    /\ s.at \in {"start", "master", "over"} /\ s.trouble \in BOOLEAN
    /\ s.end # "none" => s.at = "over"
    /\ s.todo \subseteq Backfill!OnShelf /\ s.ids \subseteq Backfill!OnShelf
    /\ \A v \in s.ids : fillMaster[v] = "short"
    /\ s.end = "COMPLETE" => \A v \in s.ids : fillManifest[v] = "short"

FillInv ==
    /\ FillTypes /\ Apart
    /\ \A v \in FillVideos : VideoOK(v)
    /\ \A r \in FillRuns : FillRunOK(fillRun[r])
    /\ \A s \in ShortsRuns : ShortsOK(shorts[s])

\* A step takes no classification back, and while a backfill is in flight it settles
\* nothing and fills the manifest only after Video Master.
Moves(v) ==
    /\ Known(fillMaster[v]) => Known(fillMaster'[v])
    /\ Known(fillManifest[v]) => Known(fillManifest'[v])
    /\ Backfill!Fillable(v)' => Backfill!Fillable(v)
    /\ Backfill!BackfillInFlight =>
         /\ v \in unsettled => v \in unsettled'
         /\ v \notin unsettled' => \A class : Known(class) /\ Since(v, class) => Since(v, class)'
         /\ v \notin unsettled' /\ Backfill!Fillable(v)' /\ Known(fillManifest'[v]) => fillManifest'[v] = fillManifest[v]

\* What a Shorts backfill has found stays found.
StaysShort(v) ==
    /\ fillMaster[v] = "short" => fillMaster'[v] = "short"
    /\ fillMaster[v] = "short" /\ fillManifest[v] = "short" => fillManifest'[v] = "short"

LEMMA KeepRun ==
    ASSUME FillInv, NEW r \in FillRuns, fillRun'[r] = fillRun[r], \A v \in FillVideos : Moves(v)
    PROVE  FillRunOK(fillRun[r])'
  <1>1. FillRunOK(fillRun[r])
    BY DEF FillInv
  <1>2. fillRun[r].at \in {"plan", "fetch", "master", "verify"} => Backfill!BackfillInFlight
    BY DEF Backfill!BackfillInFlight
  <1>3. ASSUME NEW v \in FillVideos PROVE RunVideoOK(fillRun[r], v)'
    <2>1. RunVideoOK(fillRun[r], v) /\ Moves(v)
      BY <1>1 DEF FillRunOK
    <2> DEFINE s == fillRun[r]
    <2>2. s.at = "plan" /\ Known(s.seen[v]) => Known(fillMaster'[v]) /\ (v \notin unsettled' => Since(v, s.seen[v])')
      BY <1>2, <2>1 DEF RunVideoOK, Moves
    <2>3. s.at \in {"fetch", "master"} /\ v \in s.todo \cup (DOMAIN s.writes \ s.ahead) /\ v \notin unsettled' =>
            ~(Known(fillManifest'[v]) /\ Backfill!Fillable(v)')
      BY <1>2, <2>1 DEF RunVideoOK, Moves
    <2>4. /\ v \in DOMAIN s.writes => Known(s.writes[v]) /\ Fits(v, s.writes[v])
          /\ s.at = "plan" => Fits(v, s.seen[v])
      BY <2>1 DEF RunVideoOK
    <2>5. s.at \in {"fetch", "master"} /\ v \in DOMAIN s.writes \cap s.ahead /\ v \notin unsettled' /\ Backfill!Fillable(v)' =>
            fillManifest'[v] = s.writes[v]
      BY <1>2, <2>1 DEF RunVideoOK, Moves
    <2>6. /\ v \in s.ahead => Known(fillManifest'[v])
          /\ v \in DOMAIN s.targets => Known(s.targets[v]) /\ Fits(v, s.targets[v]) /\ Known(fillMaster'[v])
      BY <2>1 DEF RunVideoOK, Moves
    <2>7. s.at \in {"fetch", "master"} /\ v \in DOMAIN s.targets /\ v \notin unsettled' => Since(v, s.targets[v])'
      BY <1>2, <2>1 DEF RunVideoOK, Moves
    <2>8. /\ v \in s.reread => ~Backfill!Fillable(v)'
          /\ s.at = "verify" /\ v \in DOMAIN s.targets /\ ~s.trouble => Known(fillManifest'[v])
          /\ s.end = "COMPLETE" /\ v \in s.planned \ s.excused => Known(fillMaster'[v]) /\ Known(fillManifest'[v])
      BY <2>1 DEF RunVideoOK, Moves
    <2>9. s' = s
      OBVIOUS
    <2> HIDE DEF s
    <2>10. RunVideoOK(s, v)'
      BY <2>2, <2>3, <2>4, <2>5, <2>6, <2>7, <2>8, <2>9 DEF RunVideoOK, Known, Fits, Since
    <2>11. QED
      BY <2>10 DEF s
  <1>4. QED
    BY <1>1, <1>3 DEF FillRunOK

LEMMA KeepShorts ==
    ASSUME FillInv, NEW s \in ShortsRuns, shorts'[s] = shorts[s], \A v \in FillVideos : Kind[v] = "short" => StaysShort(v)
    PROVE  ShortsOK(shorts[s])'
  <1>1. ShortsOK(shorts[s])
    BY DEF FillInv
  <1>2. \A v \in shorts[s].ids : v \in FillVideos /\ Kind[v] = "short"
    BY <1>1 DEF ShortsOK, Backfill!OnShelf
  <1>3. QED
    BY <1>1, <1>2 DEF ShortsOK, StaysShort, Backfill!OnShelf

LEMMA KeepVideo ==
    ASSUME FillInv, NEW v \in FillVideos, fillMaster'[v] = fillMaster[v], fillManifest'[v] = fillManifest[v],
           worker'[v] = worker[v], phase'[v] = phase[v] \/ Kind[v] \notin {"upload", "short"},
           v \in unsettled => v \in unsettled', ShortPending(v) => ShortPending(v)'
    PROVE  VideoOK(v)'
  <1>1. VideoOK(v) /\ WorkerOK(v)
    BY DEF FillInv, VideoOK
  <1>2. WorkerOK(v)'
    BY <1>1 DEF WorkerOK
  <1>3. QED
    BY <1>1, <1>2 DEF VideoOK, PairOK

\* A video that no step of the copies or of their writers touches.
LEMMA StillMoves ==
    ASSUME FillInv, NEW v \in FillVideos, fillMaster'[v] = fillMaster[v], fillManifest'[v] = fillManifest[v],
           v \in unsettled => v \in unsettled', ShortPending(v) => ShortPending(v)'
    PROVE  Moves(v) /\ StaysShort(v)
  BY DEF Moves, StaysShort, Since, Backfill!Fillable, Backfill!IsClassificationIncomplete

LEMMA NowFits ==
    ASSUME FillInv, NEW v \in FillVideos
    PROVE  /\ Known(Backfill!Now(v)) /\ Fits(v, Backfill!Now(v))
           /\ Kind[v] \in {"upload", "short"} => Backfill!Now(v) = "upload"
  <1> DEFINE item == Backfill!Item(Kind[v], phase[v])
  <1>1. Kind[v] \in {"upload", "short", "stream", "premiere"} /\ phase[v] \in {"upcoming", "running", "ended"}
    BY CollectionAssumption DEF Backfill!ClassificationAssumption, Backfill!Kinds, FillInv, FillTypes, Backfill!Phases
  <1>2. item = [details |-> Kind[v] \in {"stream", "premiere"}, scheduled |-> Kind[v] \in {"stream", "premiere"},
                started |-> Kind[v] \in {"stream", "premiere"} /\ phase[v] # "upcoming",
                ended |-> Kind[v] \in {"stream", "premiere"} /\ phase[v] = "ended",
                atStart |-> Kind[v] = "premiere" /\ phase[v] # "upcoming",
                upcoming |-> Kind[v] \in {"stream", "premiere"} /\ phase[v] = "upcoming",
                duration |-> ~(Kind[v] = "premiere" /\ phase[v] = "upcoming")]
    BY DEF Backfill!Item
  <1> HIDE DEF item
  <1>3. CASE Kind[v] \in {"upload", "short"}
    <2>1. ~item.details
      BY <1>2, <1>3
    <2>2. Backfill!Now(v) = "upload"
      BY <2>1 DEF Backfill!Now, Backfill!Classification, item
    <2>3. QED
      BY <1>3, <2>2 DEF Known, Fits, Backfill!CanBe, Backfill!Classes, Backfill!Classified, Backfill!Statuses, Backfill!IsClassificationIncomplete
  <1>4. CASE Kind[v] = "stream"
    <2>1. item.details /\ item.atStart = FALSE /\ item.duration = TRUE
      BY <1>2, <1>4
    <2>2. Backfill!Now(v) \in Backfill!Statuses
      BY <2>1 DEF Backfill!Now, Backfill!Classification, item, Backfill!IsCompletedPremiere, Backfill!IsUpcomingPremiere, Backfill!Statuses
    <2>3. QED
      BY <1>4, <2>2 DEF Known, Fits, Backfill!CanBe, Backfill!Classes, Backfill!Classified, Backfill!Statuses, Backfill!IsClassificationIncomplete
  <1>5. CASE Kind[v] = "premiere"
    <2>1. Backfill!Now(v) = Backfill!Classification(item)
      BY DEF Backfill!Now, item
    <2>2. Backfill!Now(v) \in {"upload", "live"}
      <3>1. CASE phase[v] = "upcoming"
        <4>1. item.upcoming /\ item.scheduled /\ ~item.started /\ ~item.ended /\ ~item.duration
          BY <1>2, <1>5, <3>1
        <4>2. QED
          BY <2>1, <4>1 DEF Backfill!Classification, Backfill!IsUpcomingPremiere
      <3>2. CASE phase[v] = "running"
        <4>1. item.details /\ item.started /\ ~item.ended /\ ~item.upcoming
          BY <1>2, <1>5, <3>2
        <4>2. QED
          BY <2>1, <4>1 DEF Backfill!Classification, Backfill!IsUpcomingPremiere, Backfill!IsCompletedPremiere
      <3>3. CASE phase[v] = "ended"
        <4>1. item.started /\ item.ended /\ item.atStart
          BY <1>2, <1>5, <3>3
        <4>2. QED
          BY <2>1, <4>1 DEF Backfill!Classification, Backfill!IsCompletedPremiere
      <3>4. QED
        BY <1>1, <3>1, <3>2, <3>3
    <2>3. QED
      BY <1>5, <2>2 DEF Known, Fits, Backfill!CanBe, Backfill!Classes, Backfill!Classified, Backfill!Statuses, Backfill!IsClassificationIncomplete
  <1>6. QED
    BY <1>1, <1>3, <1>4, <1>5

LEMMA InitFill == Backfill!Init => FillInv
  <1> SUFFICES ASSUME Backfill!Init PROVE FillInv
    OBVIOUS
  <1> USE DEF Backfill!Init
  <1>1. FillTypes
    BY DEF FillTypes, Backfill!Phases
  <1>2. Apart
    BY DEF Apart, Backfill!WorkerInFlight
  <1>3. ASSUME NEW v \in FillVideos PROVE VideoOK(v)
    <2>1. fillMaster[v] \in MasterAtFirst[v] /\ fillManifest[v] \in ManifestAtFirst[v]
          /\ fillMaster[v] \in Backfill!Classes \cup {"gone"} /\ fillManifest[v] \in Backfill!Classes
      OBVIOUS
    <2>2. Fits(v, fillMaster[v]) /\ Fits(v, fillManifest[v]) /\ PairOK(v)
      BY <2>1, CollectionAssumption DEF Backfill!ClassificationAssumption, Fits, PairOK, Known
    <2>3. WorkerOK(v)
      BY DEF WorkerOK
    <2>4. QED
      BY <2>2, <2>3 DEF VideoOK
  <1>4. ASSUME NEW r \in FillRuns PROVE FillRunOK(fillRun[r])
    <2> DEFINE s == Backfill!Idle
    <2>1. /\ s = [f \in FillFields |-> s[f]] /\ s.at = "start" /\ s.end = "none" /\ s.trouble = FALSE
          /\ s.todo = {} /\ DOMAIN s.writes = {} /\ DOMAIN s.targets = {} /\ s.ahead = {} /\ s.planned = {}
          /\ s.excused = {} /\ s.reread = {}
      BY DEF Backfill!Idle, FillFields
    <2>2. fillRun[r] = s
      OBVIOUS
    <2> HIDE DEF s
    <2>3. \A v \in FillVideos : RunVideoOK(s, v)
      BY <2>1 DEF RunVideoOK
    <2>4. QED
      BY <2>1, <2>2, <2>3 DEF FillRunOK
  <1>5. ASSUME NEW s \in ShortsRuns PROVE ShortsOK(shorts[s])
    BY DEF ShortsOK, ShortsFields, Backfill!IdleShorts
  <1>6. QED
    BY <1>1, <1>2, <1>3, <1>4, <1>5 DEF FillInv

\* What a step shows to keep the invariant: it moves the copies as it may, and leaves every
\* run but its own alone.
LEMMA FillStep ==
    ASSUME FillInv, FillTypes', Apart', \A v \in FillVideos : Moves(v) /\ VideoOK(v)',
           \A v \in FillVideos : Kind[v] = "short" => StaysShort(v),
           \A r \in FillRuns : fillRun'[r] = fillRun[r] \/ FillRunOK(fillRun[r])',
           \A s \in ShortsRuns : shorts'[s] = shorts[s] \/ ShortsOK(shorts[s])'
    PROVE  FillInv'
  <1>1. \A r \in FillRuns : FillRunOK(fillRun[r])'
    BY KeepRun
  <1>2. \A s \in ShortsRuns : ShortsOK(shorts[s])'
    BY KeepShorts
  <1>3. QED
    BY <1>1, <1>2 DEF FillInv

LEMMA InFlight ==
    /\ \A r \in FillRuns : fillRun[r].at \notin {"start", "over"} => Backfill!BackfillInFlight
    /\ \A s \in ShortsRuns : shorts[s].at \notin {"start", "over"} => Backfill!BackfillInFlight
    /\ \A v \in FillVideos : worker[v].at # "idle" => Backfill!WorkerInFlight
  BY DEF Backfill!BackfillInFlight, Backfill!WorkerInFlight

\* A step of run r that writes neither copy.
LEMMA RunStep ==
    ASSUME FillInv, NEW r \in FillRuns, fillRun' = [fillRun EXCEPT ![r] = fillRun'[r]],
           UNCHANGED <<phase, worker, fillMaster, fillManifest, shorts>>,
           unsettled \subseteq unsettled', unsettled' \subseteq FillVideos,
           NEW t, fillRun'[r] = t, FillRunOK(t), fillRun[r].at \notin {"start", "over"} \/ ~Backfill!WorkerInFlight
    PROVE  FillInv'
  <1>0. FillRunOK(fillRun[r])'
    <2>1. \A v : Backfill!Fillable(v)' <=> Backfill!Fillable(v)
      BY DEF Backfill!Fillable, Backfill!IsClassificationIncomplete
    <2>2. \A v, class : Since(v, class)' <=> Since(v, class)
      BY DEF Since, ShortPending
    <2>3. \A v \in FillVideos : RunVideoOK(fillRun[r], v)'
      BY <2>1, <2>2 DEF FillRunOK, RunVideoOK
    <2>4. QED
      BY <2>3 DEF FillRunOK
  <1>1. FillTypes'
    BY DEF FillInv, FillTypes
  <1>2. \A v \in FillVideos : Moves(v) /\ StaysShort(v)
    BY StillMoves DEF ShortPending
  <1>3. \A v \in FillVideos : VideoOK(v)'
    BY KeepVideo DEF ShortPending
  <1>4. \A q \in FillRuns : fillRun'[q] = fillRun[q] \/ FillRunOK(fillRun[q])'
    BY <1>0 DEF FillInv, FillTypes
  <1>5. Apart'
    BY InFlight DEF FillInv, Apart, Backfill!WorkerInFlight
  <1>6. QED
    BY <1>1, <1>2, <1>3, <1>4, <1>5, FillStep

LEMMA StepScan == ASSUME FillInv, NEW r \in FillRuns, Backfill!Scan(r) PROVE FillInv'
  <1> DEFINE s == fillRun[r]
             t == fillRun'[r]
  <1>1. FillRunOK(s) /\ s.at = "start" /\ FillTypes /\ UNCHANGED <<phase, worker, fillMaster, fillManifest, shorts, unsettled>>
    BY DEF FillInv, Backfill!Scan, Backfill!others
  <1>2. t = [s EXCEPT !.at = "plan", !.seen = fillMaster] /\ fillRun' = [fillRun EXCEPT ![r] = t]
    BY <1>1 DEF Backfill!Scan, FillTypes
  <1> HIDE DEF s, t
  <1>3. /\ t = [f \in FillFields |-> t[f]] /\ t.at = "plan" /\ t.seen = fillMaster
        /\ \A f \in FillFields \ {"at", "seen"} : t[f] = s[f]
    BY <1>1, <1>2 DEF FillRunOK, FillFields
  <1>4. ASSUME NEW v \in FillVideos PROVE RunVideoOK(t, v)
    <2>1. Fits(v, fillMaster[v]) /\ RunVideoOK(s, v)
      BY <1>1 DEF FillInv, VideoOK, FillRunOK
    <2>2. QED
      BY <1>1, <1>3, <2>1 DEF RunVideoOK, FillRunOK, FillFields, Since
  <1>5. FillRunOK(t)
    BY <1>1, <1>3, <1>4 DEF FillRunOK, FillFields, FillTypes
  <1>6. ~Backfill!WorkerInFlight
    BY DEF Backfill!Scan
  <1>7. QED
    BY <1>1, <1>2, <1>5, <1>6, RunStep DEF FillTypes, t

LEMMA StepPlan == ASSUME FillInv, NEW r \in FillRuns, Backfill!Plan(r) PROVE FillInv'
  <1> DEFINE s == fillRun[r]
             t == fillRun'[r]
             plan == Backfill!PlanShard(s.seen)
  <1>1. FillRunOK(s) /\ s.at = "plan" /\ FillTypes /\ UNCHANGED <<phase, worker, fillMaster, fillManifest, shorts, unsettled>>
    BY DEF FillInv, Backfill!Plan, Backfill!others
  <1>2. t = [s EXCEPT !.at = "fetch", !.todo = plan.observe, !.ahead = plan.heal,
                      !.writes = [v \in plan.heal |-> fillManifest[v]], !.targets = [v \in plan.sync |-> s.seen[v]],
                      !.planned = plan.observe \cup plan.sync \cup plan.heal] /\ fillRun' = [fillRun EXCEPT ![r] = t]
    BY <1>1 DEF Backfill!Plan, FillTypes
  <1>3. /\ plan.observe \subseteq FillVideos /\ plan.sync \subseteq FillVideos /\ plan.heal \subseteq FillVideos
        /\ plan.observe \cap plan.heal = {}
        /\ \A v \in plan.observe : ~Known(fillManifest[v])
        /\ \A v \in plan.sync : Known(s.seen[v])
        /\ \A v \in plan.heal : Known(fillManifest[v])
    BY <1>1 DEF Backfill!PlanShard, Known, FillTypes, Backfill!Classes, Backfill!Classified, Backfill!Statuses
  <1> HIDE DEF s, t, plan
  <1>4. /\ t = [f \in FillFields |-> t[f]] /\ t.at = "fetch" /\ t.todo = plan.observe /\ t.ahead = plan.heal
        /\ t.writes = [v \in plan.heal |-> fillManifest[v]] /\ t.targets = [v \in plan.sync |-> s.seen[v]]
        /\ t.planned = plan.observe \cup plan.sync \cup plan.heal
        /\ t.excused = s.excused /\ t.reread = s.reread /\ t.trouble = s.trouble /\ t.end = s.end
    BY <1>1, <1>2 DEF FillRunOK, FillFields
  <1>5. s.excused = {} /\ s.reread = {} /\ s.end = "none" /\ s.trouble \in BOOLEAN
    BY <1>1 DEF FillRunOK
  <1>6. ASSUME NEW v \in FillVideos PROVE RunVideoOK(t, v)
    <2>1. Fits(v, fillManifest[v]) /\ RunVideoOK(s, v)
      BY <1>1 DEF FillInv, VideoOK, FillRunOK
    <2>2. Known(s.seen[v]) => Known(fillMaster[v]) /\ (v \notin unsettled => Since(v, s.seen[v])) /\ Fits(v, s.seen[v])
      BY <1>1, <2>1 DEF RunVideoOK
    <2>3. QED
      BY <1>3, <1>4, <1>5, <2>1, <2>2 DEF RunVideoOK
  <1>7. FillRunOK(t)
    BY <1>3, <1>4, <1>5, <1>6 DEF FillRunOK
  <1>8. QED
    BY <1>1, <1>2, <1>7, RunStep DEF FillTypes, FillInv, s, t

\* A run gives up what it has not asked, because of trouble.
LEMMA DeferredOK ==
    ASSUME NEW s, FillRunOK(s), s.at = "fetch" PROVE FillRunOK(Backfill!Deferred(s))
  <1> DEFINE t == Backfill!Deferred(s)
  <1>1. /\ t = [f \in FillFields |-> t[f]] /\ t.at = "master" /\ t.todo = {} /\ t.trouble = TRUE
        /\ \A f \in FillFields \ {"at", "todo", "trouble"} : t[f] = s[f]
    BY DEF FillRunOK, FillFields, Backfill!Deferred
  <1> HIDE DEF t
  <1>2. \A v \in FillVideos : RunVideoOK(t, v)
    BY <1>1 DEF RunVideoOK, FillRunOK, FillFields
  <1>3. FillRunOK(t)
    BY <1>1, <1>2 DEF FillRunOK, FillFields
  <1>4. QED
    BY <1>3 DEF t

LEMMA StepFetchShard == ASSUME FillInv, NEW r \in FillRuns, Backfill!FetchShard(r) PROVE FillInv'
  <1> DEFINE s == fillRun[r]
             t == fillRun'[r]
             batch == Backfill!Batch(s.todo)
  <1>1. FillRunOK(s) /\ s.at = "fetch" /\ FillTypes /\ UNCHANGED <<phase, worker, fillMaster, fillManifest, shorts, unsettled>>
    BY DEF FillInv, Backfill!FetchShard, Backfill!others
  <1>2. fillRun' = [fillRun EXCEPT ![r] = t]
    BY <1>1 DEF Backfill!FetchShard, FillTypes
  <1>3. batch \subseteq s.todo
    BY DEF Backfill!Batch
  <1>4. \/ s.todo = {} /\ t = [s EXCEPT !.at = "master"]
        \/ t = Backfill!Deferred(s)
        \/ t = [s EXCEPT !.todo = s.todo \ batch, !.trouble = TRUE]
        \/ \E skipped \in SUBSET batch :
             LET got == Backfill!FetchBatch(batch, skipped, {}) IN
             t = [s EXCEPT !.todo = s.todo \ batch, !.excused = s.excused \cup DOMAIN got.reasons,
                           !.writes = [v \in DOMAIN s.writes \cup got.results |->
                                          IF v \in got.results THEN Backfill!Now(v) ELSE s.writes[v]]]
    <2> DEFINE Deferral == fillRun' = [fillRun EXCEPT ![r] = Backfill!Deferred(fillRun[r])]
               Failure == fillRun' = [fillRun EXCEPT ![r] = Backfill!Unanswered(fillRun[r])]
               Answer(skipped) == fillRun' = [fillRun EXCEPT ![r] = Backfill!Observed(fillRun[r], skipped)]
    <2>1. \/ s.todo = {} /\ fillRun' = [fillRun EXCEPT ![r].at = "master"]
          \/ Deferral \/ Failure \/ \E skipped \in SUBSET batch : Answer(skipped)
      BY DEF Backfill!FetchShard
    <2>2. CASE s.todo = {} /\ fillRun' = [fillRun EXCEPT ![r].at = "master"]
      BY <1>1, <2>2 DEF FillTypes
    <2>3. CASE Deferral
      BY <1>1, <2>3 DEF FillTypes
    <2>4. CASE Failure
      BY <1>1, <2>4 DEF FillTypes, Backfill!Unanswered
    <2>5. CASE \E skipped \in SUBSET batch : Answer(skipped)
      BY <1>1, <2>5 DEF FillTypes, Backfill!Observed
    <2>6. QED
      BY <2>1, <2>2, <2>3, <2>4, <2>5
  <1> HIDE DEF t, batch
  <1>5. CASE s.todo = {} /\ t = [s EXCEPT !.at = "master"]
    <2> HIDE DEF s
    <2>1. /\ t = [f \in FillFields |-> t[f]] /\ t.at = "master" /\ \A f \in FillFields \ {"at"} : t[f] = s[f]
      BY <1>1, <1>5 DEF FillRunOK, FillFields
    <2>2. \A v \in FillVideos : RunVideoOK(t, v)
      BY <1>1, <2>1 DEF RunVideoOK, FillRunOK, FillFields
    <2>3. FillRunOK(t)
      BY <1>1, <1>5, <2>1, <2>2 DEF FillRunOK, FillFields
    <2>4. QED
      BY <1>1, <1>2, <2>3, RunStep DEF FillTypes, FillInv, s, t
  <1>6. CASE t = Backfill!Deferred(s)
    <2>1. FillRunOK(t)
      BY <1>1, <1>6, DeferredOK
    <2>2. QED
      BY <1>1, <1>2, <2>1, RunStep DEF FillTypes, FillInv, t
  <1>7. CASE t = [s EXCEPT !.todo = s.todo \ batch, !.trouble = TRUE]
    <2> HIDE DEF s
    <2>1. /\ t = [f \in FillFields |-> t[f]] /\ t.todo = s.todo \ batch /\ t.trouble = TRUE
          /\ \A f \in FillFields \ {"todo", "trouble"} : t[f] = s[f]
      BY <1>1, <1>7 DEF FillRunOK, FillFields
    <2>2. \A v \in FillVideos : RunVideoOK(t, v)
      BY <1>1, <2>1 DEF RunVideoOK, FillRunOK, FillFields
    <2>3. FillRunOK(t)
      BY <1>1, <2>1, <2>2 DEF FillRunOK, FillFields
    <2>4. QED
      BY <1>1, <1>2, <2>3, RunStep DEF FillTypes, FillInv, s, t
  <1>8. ASSUME NEW skipped \in SUBSET batch,
               LET got == Backfill!FetchBatch(batch, skipped, {}) IN
               t = [s EXCEPT !.todo = s.todo \ batch, !.excused = s.excused \cup DOMAIN got.reasons,
                             !.writes = [v \in DOMAIN s.writes \cup got.results |->
                                            IF v \in got.results THEN Backfill!Now(v) ELSE s.writes[v]]]
        PROVE  FillInv'
    <2> DEFINE told == batch \ skipped
               writes == [v \in DOMAIN s.writes \cup told |-> IF v \in told THEN Backfill!Now(v) ELSE s.writes[v]]
    <2>1. t = [s EXCEPT !.todo = s.todo \ batch, !.excused = s.excused \cup skipped, !.writes = writes]
      <3>1. /\ Backfill!FetchBatch(batch, skipped, {}).results = told
            /\ DOMAIN Backfill!FetchBatch(batch, skipped, {}).reasons = skipped
        BY DEF Backfill!FetchBatch
      <3>2. QED
        BY <1>8, <3>1
    <2>2. /\ DOMAIN writes = DOMAIN s.writes \cup told
          /\ \A v \in told : writes[v] = Backfill!Now(v)
          /\ \A v \in DOMAIN s.writes \ told : writes[v] = s.writes[v]
      OBVIOUS
    <2> HIDE DEF s, writes
    <2>3. /\ t = [f \in FillFields |-> t[f]] /\ t.todo = s.todo \ batch /\ t.excused = s.excused \cup skipped
          /\ t.writes = writes /\ \A f \in FillFields \ {"todo", "excused", "writes"} : t[f] = s[f]
      BY <1>1, <2>1 DEF FillRunOK, FillFields
    <2>4. told \subseteq s.todo /\ told \cap s.ahead = {} /\ told \subseteq FillVideos
      BY <1>1, <1>3 DEF FillRunOK
    <2>5. ASSUME NEW v \in FillVideos PROVE RunVideoOK(t, v)
      <3>1. RunVideoOK(s, v) /\ Known(Backfill!Now(v)) /\ Fits(v, Backfill!Now(v))
        BY <1>1, NowFits DEF FillRunOK
      <3>2. t.at = "fetch" /\ t.end = s.end /\ t.ahead = s.ahead /\ t.targets = s.targets /\ t.reread = s.reread
            /\ s.end = "none" /\ t.planned = s.planned
        BY <1>1, <2>3 DEF FillFields, FillRunOK
      <3>3. v \in t.todo \cup (DOMAIN t.writes \ t.ahead) => v \in s.todo \cup (DOMAIN s.writes \ s.ahead)
        BY <1>3, <2>2, <2>3, <2>4, <3>2
      <3>4. v \in DOMAIN t.writes => Known(t.writes[v]) /\ Fits(v, t.writes[v])
        BY <2>2, <2>3, <3>1 DEF RunVideoOK
      <3>5. v \in DOMAIN t.writes \cap t.ahead => v \in DOMAIN s.writes \cap s.ahead /\ t.writes[v] = s.writes[v]
        BY <2>2, <2>3, <2>4, <3>2
      <3>6. QED
        BY <1>1, <3>1, <3>2, <3>3, <3>4, <3>5 DEF RunVideoOK
    <2>6. t.planned \subseteq s.planned /\ s.todo = t.todo \cup skipped \cup told
      BY <1>3, <2>3 DEF FillFields
    <2>7. ~s.trouble => t.planned \subseteq t.todo \cup t.excused \cup DOMAIN t.writes \cup t.reread \cup DOMAIN t.targets
      <3>1. ~s.trouble => s.planned \subseteq s.todo \cup s.excused \cup DOMAIN s.writes \cup s.reread \cup DOMAIN s.targets
        BY <1>1 DEF FillRunOK
      <3>2. t.reread = s.reread /\ t.targets = s.targets
        BY <2>3 DEF FillFields
      <3>3. QED
        BY <2>2, <2>3, <2>6, <3>1, <3>2
    <2>8. FillRunOK(t)
      BY <1>1, <2>2, <2>3, <2>4, <2>5, <2>7 DEF FillRunOK, FillFields
    <2>9. QED
      BY <1>1, <1>2, <2>8, RunStep DEF FillTypes, FillInv, s, t
  <1>9. QED
    BY <1>4, <1>5, <1>6, <1>7, <1>8

LEMMA StepVerify == ASSUME FillInv, NEW r \in FillRuns, Backfill!Verify(r) PROVE FillInv'
  <1> DEFINE s == fillRun[r]
             remaining == {v \in DOMAIN Backfill!ToPatch(s) : Backfill!IsClassificationIncomplete(fillManifest[v])}
  <1>1. FillRunOK(s) /\ s.at = "verify" /\ FillTypes /\ UNCHANGED <<phase, worker, fillMaster, fillManifest, shorts, unsettled>>
    BY DEF FillInv, Backfill!Verify, Backfill!others
  <1>2. PICK end \in {Backfill!FinalStatus(s, remaining), "PARTIAL"} :
            fillRun' = [fillRun EXCEPT ![r].at = "over", ![r].end = end]
    BY DEF Backfill!Verify
  <1>3. end \in {"PARTIAL", "COMPLETE"} /\ (end = "COMPLETE" => ~s.trouble)
    BY DEF Backfill!FinalStatus
  <1> DEFINE t == [s EXCEPT !.at = "over", !.end = end]
  <1>4. fillRun'[r] = t /\ fillRun' = [fillRun EXCEPT ![r] = fillRun'[r]]
    BY <1>1, <1>2 DEF FillTypes
  <1> HIDE DEF s
  <1>5. /\ t = [f \in FillFields |-> t[f]] /\ t.at = "over" /\ t.end = end
        /\ \A f \in FillFields \ {"at", "end"} : t[f] = s[f]
    BY <1>1 DEF FillRunOK, FillFields
  <1> HIDE DEF t
  <1>6. ASSUME NEW v \in FillVideos PROVE RunVideoOK(t, v)
    <2>1. RunVideoOK(s, v)
      BY <1>1 DEF FillRunOK
    <2>2. ~s.trouble => s.planned \ s.excused \subseteq DOMAIN s.targets
      BY <1>1 DEF FillRunOK
    <2>3. t.end = "COMPLETE" /\ v \in t.planned \ t.excused => Known(fillMaster[v]) /\ Known(fillManifest[v])
      BY <1>1, <1>3, <1>5, <2>1, <2>2 DEF RunVideoOK, FillFields
    <2>4. QED
      BY <1>5, <2>1, <2>3 DEF RunVideoOK, FillFields
  <1>7. FillRunOK(t)
    BY <1>1, <1>3, <1>5, <1>6 DEF FillRunOK, FillFields
  <1>8. QED
    BY <1>1, <1>4, <1>7, RunStep DEF FillTypes, FillInv, s

LEMMA StepInterrupted == ASSUME FillInv, NEW r \in FillRuns, Backfill!Interrupted(r) PROVE FillInv'
  <1> DEFINE s == fillRun[r]
             t == [s EXCEPT !.at = "over", !.end = "FAILED"]
  <1>1. FillRunOK(s) /\ s.at \notin {"start", "over"} /\ FillTypes /\ UNCHANGED <<phase, worker, fillMaster, fillManifest, shorts>>
        /\ unsettled' = unsettled \cup s.planned
    BY DEF FillInv, Backfill!Interrupted, Backfill!others
  <1>2. fillRun'[r] = t /\ fillRun' = [fillRun EXCEPT ![r] = fillRun'[r]]
    BY <1>1 DEF FillTypes, Backfill!Interrupted
  <1> HIDE DEF s
  <1>3. /\ t = [f \in FillFields |-> t[f]] /\ t.at = "over" /\ t.end = "FAILED"
        /\ \A f \in FillFields \ {"at", "end"} : t[f] = s[f]
    BY <1>1 DEF FillRunOK, FillFields
  <1> HIDE DEF t
  <1>4. \A v \in FillVideos : RunVideoOK(t, v)
    BY <1>1, <1>3 DEF RunVideoOK, FillRunOK, FillFields
  <1>5. FillRunOK(t)
    BY <1>1, <1>3, <1>4 DEF FillRunOK, FillFields
  <1>6. unsettled' \subseteq FillVideos
    BY <1>1 DEF FillTypes, FillRunOK
  <1>7. QED
    BY <1>1, <1>2, <1>5, <1>6, RunStep DEF s

LEMMA StepReadMaster == ASSUME FillInv, NEW r \in FillRuns, Backfill!ReadMaster(r) PROVE FillInv'
  <1> DEFINE s == fillRun[r]
  <1>1. FillRunOK(s) /\ s.at = "master" /\ FillTypes /\ UNCHANGED <<phase, worker, fillMaster, fillManifest, shorts, unsettled>>
    BY DEF FillInv, Backfill!ReadMaster, Backfill!others
  <1>2. PICK v \in s.reread :
            LET rest == [s EXCEPT !.reread = @ \ {v}] IN
            \/ fillRun' = [fillRun EXCEPT ![r] =
                  IF fillMaster[v] = "gone" THEN [rest EXCEPT !.trouble = TRUE]
                  ELSE IF Backfill!IsClassificationIncomplete(fillMaster[v]) THEN rest
                  ELSE [rest EXCEPT !.targets = Backfill!With(@, v, fillMaster[v])]]
            \/ fillRun' = [fillRun EXCEPT ![r] = [rest EXCEPT !.trouble = TRUE]]
    BY DEF Backfill!ReadMaster
  <1>3. v \in FillVideos /\ ~Backfill!Fillable(v)
    BY <1>1 DEF FillRunOK, RunVideoOK
  <1> DEFINE failed == [s EXCEPT !.reread = s.reread \ {v}, !.trouble = TRUE]
             read == [s EXCEPT !.reread = s.reread \ {v}, !.targets = Backfill!With(s.targets, v, fillMaster[v])]
             t == fillRun'[r]
  <1>4. fillRun' = [fillRun EXCEPT ![r] = t] /\ (t = failed \/ (Known(fillMaster[v]) /\ t = read))
    BY <1>1, <1>2, <1>3 DEF FillTypes, Backfill!Fillable, Known
  <1> HIDE DEF s, t, failed, read
  <1>5. CASE t = failed
    <2>1. /\ t = [f \in FillFields |-> t[f]] /\ t.reread = s.reread \ {v} /\ t.trouble = TRUE
          /\ \A f \in FillFields \ {"reread", "trouble"} : t[f] = s[f]
      BY <1>1, <1>5 DEF FillRunOK, FillFields, failed
    <2>2. \A w \in FillVideos : RunVideoOK(t, w)
      BY <1>1, <2>1 DEF RunVideoOK, FillRunOK, FillFields
    <2>3. FillRunOK(t)
      BY <1>1, <2>1, <2>2 DEF FillRunOK, FillFields
    <2>4. QED
      BY <1>1, <1>4, <2>3, RunStep DEF FillTypes, FillInv, s, t
  <1>6. CASE Known(fillMaster[v]) /\ t = read
    <2>1. /\ t = [f \in FillFields |-> t[f]] /\ t.reread = s.reread \ {v}
          /\ t.targets = Backfill!With(s.targets, v, fillMaster[v])
          /\ \A f \in FillFields \ {"reread", "targets"} : t[f] = s[f]
      BY <1>1, <1>6 DEF FillRunOK, FillFields, read
    <2>2. /\ DOMAIN t.targets = DOMAIN s.targets \cup {v} /\ t.targets[v] = fillMaster[v]
          /\ \A w \in DOMAIN s.targets \ {v} : t.targets[w] = s.targets[w]
      BY <2>1 DEF Backfill!With
    <2>3. ASSUME NEW w \in FillVideos PROVE RunVideoOK(t, w)
      <3>1. RunVideoOK(s, w) /\ Fits(v, fillMaster[v])
        BY <1>1, <1>3 DEF FillRunOK, FillInv, VideoOK
      <3>2. t.at = "master" /\ t.todo = s.todo /\ t.writes = s.writes /\ t.ahead = s.ahead /\ t.end = s.end /\ s.end = "none"
        BY <1>1, <2>1 DEF FillFields, FillRunOK
      <3>3. CASE w = v
        BY <1>1, <1>6, <2>1, <2>2, <3>1, <3>2, <3>3 DEF RunVideoOK, Since
      <3>4. CASE w # v
        BY <1>1, <2>1, <2>2, <3>1, <3>2, <3>4 DEF RunVideoOK
      <3>5. QED
        BY <3>3, <3>4
    <2>4. FillRunOK(t)
      BY <1>1, <1>3, <2>1, <2>2, <2>3 DEF FillRunOK, FillFields
    <2>5. QED
      BY <1>1, <1>4, <2>4, RunStep DEF FillTypes, FillInv, s, t
  <1>7. QED
    BY <1>4, <1>5, <1>6

\* Somebody fills in what Video Master does not say of v.
LEMMA Filling ==
    ASSUME FillInv, NEW v \in FillVideos, Backfill!Fillable(v), Known(fillMaster'[v]), Fits(v, fillMaster'[v]),
           fillManifest'[v] = fillManifest[v], v \in unsettled => v \in unsettled', UNCHANGED <<worker, phase>>,
           Kind[v] # "short" \/ worker[v].at = "idle",
           v \notin unsettled' => ~Known(fillManifest[v]) \/ fillManifest[v] = fillMaster'[v]
    PROVE  Moves(v) /\ StaysShort(v) /\ VideoOK(v)'
  <1>1. fillMaster[v] \in {"none", "bare"} /\ ~Backfill!Fillable(v)' /\ ~Known(fillMaster[v])
    BY DEF Backfill!Fillable, Known, Backfill!IsClassificationIncomplete
  <1>2. VideoOK(v) /\ WorkerOK(v)
    BY DEF FillInv, VideoOK
  <1>3. \A class : Known(class) => ~Since(v, class)
    BY <1>1 DEF Since
  <1>4. Moves(v) /\ StaysShort(v)
    BY <1>1, <1>3 DEF Moves, StaysShort
  <1>5. WorkerOK(v)'
    BY <1>1, <1>2 DEF WorkerOK
  <1>6. QED
    BY <1>2, <1>4, <1>5 DEF VideoOK, PairOK

LEMMA StepPersistInferredClassification ==
    ASSUME FillInv, NEW v \in FillVideos, Backfill!PersistInferredClassification(v) PROVE FillInv'
  <1>1. /\ Backfill!Fillable(v) /\ Kind[v] \in {"stream", "premiere"} /\ UNCHANGED <<phase, worker, fillManifest, fillRun, shorts>>
        /\ fillMaster' = [fillMaster EXCEPT ![v] = Backfill!Now(v)] /\ FillTypes
        /\ unsettled' = IF Backfill!IsClassificationIncomplete(fillManifest[v]) THEN unsettled ELSE unsettled \cup {v}
    BY DEF FillInv, Backfill!PersistInferredClassification, Backfill!others, Backfill!SetVideoClassification, FillTypes
  <1>2. Known(Backfill!Now(v)) /\ Fits(v, Backfill!Now(v)) /\ fillMaster'[v] = Backfill!Now(v)
    BY <1>1, NowFits DEF FillTypes
  <1>3. Moves(v) /\ StaysShort(v) /\ VideoOK(v)'
    BY <1>1, <1>2, Filling DEF Known
  <1>4. ASSUME NEW w \in FillVideos, w # v PROVE Moves(w) /\ StaysShort(w) /\ VideoOK(w)'
    BY <1>1, <1>4, StillMoves, KeepVideo DEF ShortPending, FillTypes
  <1>5. FillTypes'
    BY <1>1, <1>2 DEF FillTypes, Fits, Known
  <1>6. Apart'
    BY <1>1 DEF FillInv, Apart, Backfill!BackfillInFlight, Backfill!WorkerInFlight
  <1>7. QED
    BY <1>1, <1>3, <1>4, <1>5, <1>6, FillStep

LEMMA StepResolveEnded == ASSUME FillInv, NEW v \in FillVideos, Backfill!ResolveEnded(v) PROVE FillInv'
  <1>1. /\ phase[v] = "ended" /\ UNCHANGED <<phase, worker, fillManifest, fillRun, shorts>> /\ FillTypes
        /\ unsettled' = unsettled \cup {v} /\ fillMaster' = Backfill!Completion(v) /\ VideoOK(v) /\ WorkerOK(v)
    BY DEF FillInv, Backfill!ResolveEnded, Backfill!others, VideoOK
  <1>2. Kind[v] \in {"stream", "premiere"} /\ fillMaster[v] \in Backfill!Classes \cup {"gone"}
    BY <1>1, CollectionAssumption
       DEF VideoOK, FillTypes, Backfill!ClassificationAssumption, Backfill!Kinds
  <1>3. /\ \A w \in FillVideos : w # v => fillMaster'[w] = fillMaster[w]
        /\ fillMaster' = [fillMaster EXCEPT ![v] = fillMaster'[v]]
        /\ \/ Kind[v] = "premiere" /\ Backfill!Fillable(v) /\ fillMaster'[v] = "upload"
           \/ Kind[v] = "stream" /\ Backfill!Completable(v) /\ fillMaster'[v] = "completed"
           \/ fillMaster'[v] = fillMaster[v]
    <2>1. CASE Kind[v] = "premiere"
      <3>1. Backfill!IsCompletedPremiere(Backfill!Item(Kind[v], phase[v]))
        BY <1>1, <2>1 DEF Backfill!IsCompletedPremiere, Backfill!Item
      <3>2. fillMaster' = Backfill!SetVideoClassification(v, "upload")
        BY <1>1, <3>1 DEF Backfill!Completion
      <3>3. QED
        BY <1>1, <2>1, <3>2 DEF Backfill!SetVideoClassification, FillTypes
    <2>2. CASE Kind[v] = "stream"
      <3>1. Backfill!Item(Kind[v], phase[v]).atStart = FALSE
        BY <2>2 DEF Backfill!Item
      <3>2. ~Backfill!IsCompletedPremiere(Backfill!Item(Kind[v], phase[v]))
        BY <3>1 DEF Backfill!IsCompletedPremiere
      <3>3. fillMaster' = [fillMaster EXCEPT ![v] = IF Backfill!Completable(v) THEN "completed" ELSE @]
        BY <1>1, <3>2 DEF Backfill!Completion
      <3>4. QED
        BY <1>1, <2>2, <3>3 DEF FillTypes
    <2>3. QED
      BY <1>2, <2>1, <2>2
  <1>4. /\ Known(fillMaster[v]) => Known(fillMaster'[v])
        /\ Backfill!Fillable(v)' => Backfill!Fillable(v)
        /\ Fits(v, fillMaster'[v])
    BY <1>1, <1>2, <1>3 DEF Known, Backfill!Fillable, Backfill!Completable, Backfill!IsClassificationIncomplete, Fits,
       Backfill!CanBe, VideoOK, Backfill!Classes, Backfill!Classified, Backfill!Statuses
  <1>5. Moves(v)
    BY <1>1, <1>4 DEF Moves
  <1>6. WorkerOK(v)'
    BY <1>1, <1>2, <1>4 DEF WorkerOK
  <1>7. VideoOK(v)'
    BY <1>1, <1>2, <1>4, <1>6 DEF VideoOK
  <1>8. ASSUME NEW w \in FillVideos, w # v PROVE Moves(w) /\ StaysShort(w) /\ VideoOK(w)'
    BY <1>1, <1>3, <1>8, StillMoves, KeepVideo DEF ShortPending, FillTypes
  <1>9. FillTypes'
    <2>1. fillMaster'[v] \in Backfill!Classes \cup {"gone"}
      BY <1>4 DEF Fits
    <2>2. QED
      BY <1>1, <1>3, <2>1 DEF FillTypes
  <1>10. Apart'
    BY <1>1 DEF FillInv, Apart, Backfill!BackfillInFlight, Backfill!WorkerInFlight
  <1>11. \A w \in FillVideos : Kind[w] = "short" => StaysShort(w)
    BY <1>2, <1>8
  <1>12. QED
    BY <1>1, <1>5, <1>7, <1>8, <1>9, <1>10, <1>11, FillStep

LEMMA StepAdvance == ASSUME FillInv, NEW v \in FillVideos, Backfill!Advance(v) PROVE FillInv'
  <1>1. /\ Kind[v] \in {"stream", "premiere"} /\ UNCHANGED <<fillMaster, fillManifest, fillRun, shorts, worker, unsettled>>
        /\ phase' = [phase EXCEPT ![v] = phase'[v]] /\ phase'[v] \in Backfill!Phases /\ FillTypes
    BY DEF FillInv, FillTypes, Backfill!Advance, Backfill!Phases
  <1>2. \A w \in FillVideos : Moves(w) /\ StaysShort(w)
    BY <1>1, StillMoves DEF ShortPending
  <1>3. \A w \in FillVideos : VideoOK(w)'
    BY <1>1, KeepVideo DEF ShortPending, FillTypes
  <1>4. FillTypes'
    BY <1>1 DEF FillTypes
  <1>5. Apart'
    BY <1>1 DEF FillInv, Apart, Backfill!BackfillInFlight, Backfill!WorkerInFlight
  <1>6. QED
    BY <1>1, <1>2, <1>3, <1>4, <1>5, FillStep

\* What a video of a kind is merged into is of that kind.
LEMMA MergedFits ==
    ASSUME NEW v \in FillVideos, NEW old, NEW now, Fits(v, old), Known(now), Fits(v, now)
    PROVE  /\ Known(Backfill!Merged(old, now)) /\ Fits(v, Backfill!Merged(old, now))
           /\ Kind[v] = "short" /\ old = "short" => Backfill!Merged(old, now) = "short"
  <1>1. Kind[v] \in {"upload", "short", "stream", "premiere"}
    BY CollectionAssumption DEF Backfill!ClassificationAssumption, Backfill!Kinds
  <1>2. \/ Backfill!Merged(old, now) = "short" /\ old = "short" /\ now = "upload"
        \/ Backfill!Merged(old, now) = "upload" /\ old = "upload" /\ now = "live"
        \/ Backfill!Merged(old, now) = now /\ ~(old = "short" /\ now = "upload")
    BY DEF Backfill!Merged
  <1>3. QED
    BY <1>1, <1>2 DEF Known, Fits, Backfill!CanBe, Backfill!Classes, Backfill!Classified, Backfill!Statuses,
       Backfill!IsClassificationIncomplete

\* A step of the worker, which no backfill is in flight with.
LEMMA WorkerStep ==
    ASSUME FillInv, NEW v \in FillVideos, worker' = [worker EXCEPT ![v] = worker'[v]], UNCHANGED <<phase, fillRun, shorts>>,
           fillMaster' = [fillMaster EXCEPT ![v] = fillMaster'[v]],
           fillManifest' = [fillManifest EXCEPT ![v] = fillManifest'[v]], ~Backfill!BackfillInFlight,
           unsettled' \subseteq FillVideos, unsettled \ {v} \subseteq unsettled',
           Moves(v), Kind[v] = "short" => StaysShort(v),
           Fits(v, fillMaster'[v]), Fits(v, fillManifest'[v]), fillManifest'[v] # "gone", WorkerOK(v)',
           v \notin unsettled' /\ worker'[v].at # "put" => PairOK(v)'
    PROVE  FillInv'
  <1>1. FillTypes /\ VideoOK(v)
    BY DEF FillInv
  <1>2. VideoOK(v)'
    BY <1>1 DEF VideoOK
  <1>3. ASSUME NEW w \in FillVideos, w # v PROVE Moves(w) /\ StaysShort(w) /\ VideoOK(w)'
    BY <1>1, <1>3, StillMoves, KeepVideo DEF ShortPending, FillTypes
  <1>4. FillTypes'
    BY <1>1 DEF FillTypes, Fits
  <1>5. Apart'
    BY DEF Apart, Backfill!BackfillInFlight
  <1>6. QED
    BY <1>2, <1>3, <1>4, <1>5, FillStep

LEMMA StepWorkerObserves == ASSUME FillInv, NEW v \in FillVideos, Backfill!WorkerObserves(v) PROVE FillInv'
  <1>1. /\ worker[v].at = "idle" /\ ~Backfill!BackfillInFlight /\ FillTypes /\ VideoOK(v)
        /\ UNCHANGED <<phase, fillMaster, fillManifest, fillRun, shorts, unsettled>>
        /\ worker' = [worker EXCEPT ![v] = [at |-> "observed", row |-> Backfill!Now(v), old |-> "none"]]
    BY DEF FillInv, Backfill!WorkerObserves
  <1>2. worker'[v] = [at |-> "observed", row |-> Backfill!Now(v), old |-> "none"]
    BY <1>1 DEF FillTypes
  <1>3. WorkerOK(v)'
    BY <1>2, NowFits DEF WorkerOK, Known, Fits
  <1>4. Moves(v) /\ StaysShort(v)
    BY <1>1, StillMoves DEF ShortPending
  <1>5. fillManifest[v] # "gone"
    BY <1>1 DEF FillTypes, Backfill!Classes, Backfill!Classified, Backfill!Statuses
  <1>6. v \notin unsettled' => PairOK(v)'
    BY <1>1 DEF VideoOK, PairOK, ShortPending
  <1>7. QED
    BY <1>1, <1>2, <1>3, <1>4, <1>5, <1>6, WorkerStep DEF FillTypes, VideoOK

LEMMA StepWorkerReads == ASSUME FillInv, NEW v \in FillVideos, Backfill!WorkerReads(v) PROVE FillInv'
  <1> DEFINE w == worker[v]
             place == IF fillMaster[v] = "gone" THEN "idle" ELSE "read"
  <1>1. /\ w.at = "observed" /\ FillTypes /\ VideoOK(v) /\ WorkerOK(v)
        /\ UNCHANGED <<phase, fillMaster, fillManifest, fillRun, shorts, unsettled>>
        /\ worker' = [worker EXCEPT ![v].at = place, ![v].old = fillMaster[v]]
    BY DEF FillInv, VideoOK, Backfill!WorkerReads
  <1>2. ~Backfill!BackfillInFlight
    BY <1>1, InFlight DEF FillInv, Apart
  <1>3. worker'[v] = [w EXCEPT !.at = place, !.old = fillMaster[v]] /\ worker' = [worker EXCEPT ![v] = worker'[v]]
    BY <1>1 DEF FillTypes
  <1>4. place \in {"idle", "read"} /\ (place = "read" => fillMaster[v] # "gone")
    OBVIOUS
  <1> HIDE DEF place
  <1>5. /\ worker'[v].at = place /\ worker'[v].row = w.row /\ worker'[v].old = fillMaster[v]
        /\ worker'[v] = [f \in {"at", "row", "old"} |-> worker'[v][f]]
    <2>1. w = [f \in {"at", "row", "old"} |-> w[f]]
      BY <1>1 DEF WorkerOK
    <2> HIDE DEF w
    <2>2. QED
      BY <1>3, <2>1
  <1>6. WorkerOK(v)'
    <2>1. Known(w.row) /\ Fits(v, w.row) /\ Fits(v, fillMaster[v])
      BY <1>1 DEF WorkerOK, VideoOK
    <2> HIDE DEF w
    <2>2. QED
      BY <1>1, <1>4, <1>5, <2>1 DEF WorkerOK, Known, Fits
  <1>7. Moves(v) /\ StaysShort(v)
    BY <1>1, StillMoves DEF ShortPending
  <1>8. fillManifest[v] # "gone"
    BY <1>1 DEF FillTypes, Backfill!Classes, Backfill!Classified, Backfill!Statuses
  <1>9. v \notin unsettled' => PairOK(v)'
    BY <1>1 DEF VideoOK, PairOK, ShortPending
  <1>10. QED
    BY <1>1, <1>2, <1>3, <1>6, <1>7, <1>8, <1>9, WorkerStep DEF FillTypes, VideoOK

LEMMA StepWorkerPuts == ASSUME FillInv, NEW v \in FillVideos, Backfill!WorkerPuts(v) PROVE FillInv'
  <1> DEFINE w == worker[v]
             class == Backfill!Merged(w.old, w.row)
  <1>1. /\ w.at = "read" /\ FillTypes /\ VideoOK(v) /\ WorkerOK(v)
        /\ UNCHANGED <<phase, fillManifest, fillRun, shorts>>
    BY DEF FillInv, VideoOK, Backfill!WorkerPuts
  <1>2. ~Backfill!BackfillInFlight
    BY <1>1, InFlight DEF FillInv, Apart
  <1>3. /\ Known(class) /\ Fits(v, class) /\ (Kind[v] = "short" /\ w.old = "short" => class = "short")
        /\ fillManifest[v] # "gone"
    BY <1>1, MergedFits DEF WorkerOK, FillTypes, Backfill!Classes, Backfill!Classified, Backfill!Statuses
  <1>4. CASE /\ fillMaster' = [fillMaster EXCEPT ![v] = class] /\ worker' = [worker EXCEPT ![v].at = "put"]
             /\ unsettled' = unsettled \ {v}
    <2>1. worker'[v] = [w EXCEPT !.at = "put"] /\ worker' = [worker EXCEPT ![v] = worker'[v]] /\ fillMaster'[v] = class
          /\ fillMaster' = [fillMaster EXCEPT ![v] = fillMaster'[v]]
      BY <1>1, <1>4 DEF FillTypes
    <2>2. worker'[v] = [at |-> "put", row |-> w.row, old |-> w.old]
      BY <1>1, <2>1 DEF WorkerOK
    <2> HIDE DEF class
    <2>3. ~Backfill!Fillable(v)' /\ Known(fillMaster'[v])
      BY <1>3, <2>1 DEF Backfill!Fillable, Known, Backfill!IsClassificationIncomplete
    <2>4. Moves(v)
      BY <1>1, <1>2, <2>3 DEF Moves
    <2>5. Kind[v] = "short" => StaysShort(v)
      BY <1>1, <1>3, <2>1 DEF StaysShort, WorkerOK
    <2>6. WorkerOK(v)'
      <3>1. Known(w.row) /\ Fits(v, w.row) /\ w.old # "gone" /\ Fits(v, w.old)
        BY <1>1 DEF WorkerOK
      <3>2. fillMaster'[v] = Backfill!Merged(w.old, w.row)
        BY <2>1 DEF class
      <3> HIDE DEF w
      <3>3. QED
        BY <2>2, <2>3, <3>1, <3>2 DEF WorkerOK, Known, Fits
    <2>7. Fits(v, fillManifest[v]) /\ unsettled' \subseteq FillVideos
      BY <1>1, <1>4 DEF VideoOK, FillTypes
    <2>8. QED
      BY <1>1, <1>2, <1>3, <1>4, <2>1, <2>2, <2>4, <2>5, <2>6, <2>7, WorkerStep DEF FillTypes
  <1>5. CASE worker' = [worker EXCEPT ![v].at = "idle"] /\ UNCHANGED <<fillMaster, unsettled>>
    <2>1. worker'[v] = [w EXCEPT !.at = "idle"] /\ worker' = [worker EXCEPT ![v] = worker'[v]]
      BY <1>1, <1>5 DEF FillTypes
    <2>2. worker'[v] = [at |-> "idle", row |-> w.row, old |-> w.old]
      BY <1>1, <2>1 DEF WorkerOK
    <2>3. WorkerOK(v)'
      BY <2>2 DEF WorkerOK
    <2>4. Moves(v) /\ StaysShort(v)
      BY <1>1, <1>5, StillMoves DEF ShortPending
    <2>5. v \notin unsettled' => PairOK(v)'
      BY <1>1, <1>5 DEF VideoOK, PairOK, ShortPending
    <2>6. QED
      BY <1>1, <1>2, <1>3, <1>5, <2>1, <2>3, <2>4, <2>5, WorkerStep DEF FillTypes, VideoOK
  <1>6. QED
    BY <1>4, <1>5 DEF Backfill!WorkerPuts

LEMMA StepWorkerPatches == ASSUME FillInv, NEW v \in FillVideos, Backfill!WorkerPatches(v) PROVE FillInv'
  <1> DEFINE w == worker[v]
             class == Backfill!Merged(w.old, w.row)
  <1>1. /\ w.at = "put" /\ FillTypes /\ VideoOK(v) /\ WorkerOK(v)
        /\ UNCHANGED <<phase, fillMaster, fillRun, shorts>> /\ worker' = [worker EXCEPT ![v].at = "idle"]
    BY DEF FillInv, VideoOK, Backfill!WorkerPatches
  <1>2. ~Backfill!BackfillInFlight
    BY <1>1, InFlight DEF FillInv, Apart
  <1>3. Known(class) /\ Fits(v, class) /\ fillManifest[v] # "gone" /\ Fits(v, fillManifest[v]) /\ Fits(v, fillMaster[v])
    BY <1>1, MergedFits DEF WorkerOK, FillTypes, VideoOK, Backfill!Classes, Backfill!Classified, Backfill!Statuses
  <1>4. worker'[v] = [w EXCEPT !.at = "idle"] /\ worker' = [worker EXCEPT ![v] = worker'[v]]
    BY <1>1 DEF FillTypes
  <1>5. worker'[v] = [at |-> "idle", row |-> w.row, old |-> w.old]
    BY <1>1, <1>4 DEF WorkerOK
  <1>6. WorkerOK(v)'
    BY <1>5 DEF WorkerOK
  <1>7. v \notin unsettled \/ Kind[v] = "short" => fillMaster[v] = class
    BY <1>1 DEF WorkerOK
  <1> HIDE DEF class
  <1>8. CASE fillManifest' = [fillManifest EXCEPT ![v] = class] /\ UNCHANGED unsettled
    <2>1. fillManifest'[v] = class /\ fillManifest' = [fillManifest EXCEPT ![v] = fillManifest'[v]]
      BY <1>1, <1>8 DEF FillTypes
    <2>2. Moves(v)
      BY <1>1, <1>2, <1>3, <2>1 DEF Moves, Backfill!Fillable, Backfill!IsClassificationIncomplete
    <2>3. Kind[v] = "short" => StaysShort(v)
      BY <1>1, <1>7, <2>1 DEF StaysShort
    <2>4. v \notin unsettled' => PairOK(v)'
      BY <1>1, <1>7, <1>8, <2>1 DEF PairOK
    <2>5. QED
      BY <1>1, <1>2, <1>3, <1>4, <1>6, <1>8, <2>1, <2>2, <2>3, <2>4, WorkerStep DEF FillTypes, Known
  <1>9. CASE UNCHANGED fillManifest /\ unsettled' = unsettled \cup {v}
    <2>1. Moves(v) /\ StaysShort(v)
      BY <1>1, <1>9, StillMoves DEF ShortPending
    <2>2. QED
      BY <1>1, <1>2, <1>3, <1>4, <1>6, <1>9, <2>1, WorkerStep DEF FillTypes
  <1>10. \/ fillManifest' = [fillManifest EXCEPT ![v] = class] /\ UNCHANGED unsettled
         \/ UNCHANGED fillManifest /\ unsettled' = unsettled \cup {v}
    BY DEF Backfill!WorkerPatches, class
  <1>11. QED
    BY <1>8, <1>9, <1>10

LEMMA StepWriteMaster == ASSUME FillInv, NEW r \in FillRuns, Backfill!WriteMaster(r) PROVE FillInv'
  <1> DEFINE s == fillRun[r]
             t == fillRun'[r]
  <1>1. FillRunOK(s) /\ s.at = "master" /\ FillTypes /\ UNCHANGED <<phase, worker, fillManifest, shorts>>
    BY DEF FillInv, Backfill!WriteMaster, Backfill!others
  <1>2. PICK v \in DOMAIN s.writes :
            LET class == s.writes[v]
                rest == [s EXCEPT !.writes = Backfill!Without(@, v)]
            IN \/ /\ fillMaster' = Backfill!SetVideoClassification(v, class)
                  /\ fillRun' = [fillRun EXCEPT ![r] =
                       IF Backfill!Fillable(v) THEN [rest EXCEPT !.targets = Backfill!With(@, v, class)]
                       ELSE [rest EXCEPT !.reread = @ \cup {v}]]
                  /\ UNCHANGED unsettled
               \/ /\ fillMaster' \in {fillMaster, Backfill!SetVideoClassification(v, class)}
                  /\ fillRun' = [fillRun EXCEPT ![r] = [rest EXCEPT !.trouble = TRUE]]
                  /\ unsettled' = unsettled \cup {v}
    BY DEF Backfill!WriteMaster, Backfill!Pending
  <1> DEFINE class == s.writes[v]
             left == Backfill!Without(s.writes, v)
  <1>3. v \in FillVideos /\ Known(class) /\ Fits(v, class) /\ class \in Backfill!Classes
    BY <1>1 DEF FillRunOK, RunVideoOK, Known, Fits
  <1>4. fillRun' = [fillRun EXCEPT ![r] = t] /\ unsettled \subseteq unsettled' /\ unsettled' \subseteq FillVideos
    BY <1>1, <1>2, <1>3 DEF FillTypes
  <1>5. DOMAIN left = DOMAIN s.writes \ {v} /\ \A w \in DOMAIN left : left[w] = s.writes[w]
    BY DEF Backfill!Without
  <1>6. \/ fillMaster' = fillMaster
        \/ Backfill!Fillable(v) /\ fillMaster' = [fillMaster EXCEPT ![v] = class] /\ fillMaster'[v] = class
    BY <1>1, <1>2, <1>3 DEF Backfill!SetVideoClassification, FillTypes
  <1>7. \/ /\ Backfill!Fillable(v) /\ fillMaster'[v] = class /\ unsettled' = unsettled
           /\ t = [s EXCEPT !.writes = left, !.targets = Backfill!With(s.targets, v, class)]
        \/ ~Backfill!Fillable(v) /\ t = [s EXCEPT !.writes = left, !.reread = s.reread \cup {v}]
        \/ t = [s EXCEPT !.writes = left, !.trouble = TRUE] /\ v \in unsettled'
    <2>1. CASE Backfill!Fillable(v)
      BY <1>1, <1>2, <1>3, <2>1 DEF Backfill!SetVideoClassification, FillTypes
    <2>2. CASE ~Backfill!Fillable(v)
      BY <1>1, <1>2, <1>3, <2>2 DEF FillTypes
    <2>3. QED
      BY <2>1, <2>2
  <1>8. Backfill!BackfillInFlight /\ \A w \in FillVideos : worker[w].at = "idle"
    BY <1>1, InFlight DEF FillInv, Apart
  <1>9. RunVideoOK(s, v)
    BY <1>1, <1>3 DEF FillRunOK
  <1>10. fillMaster' # fillMaster /\ v \notin unsettled' => ~Known(fillManifest[v]) \/ fillManifest[v] = class
    BY <1>1, <1>4, <1>6, <1>9 DEF RunVideoOK
  <1> HIDE DEF s, t, class, left
  <1>11. ASSUME NEW w \in FillVideos PROVE Moves(w) /\ StaysShort(w) /\ VideoOK(w)'
    <2>1. CASE w = v /\ fillMaster' # fillMaster
      BY <1>1, <1>3, <1>4, <1>6, <1>8, <1>10, <2>1, Filling
    <2>2. CASE w # v \/ fillMaster' = fillMaster
      BY <1>1, <1>4, <1>6, <2>2, StillMoves, KeepVideo DEF ShortPending, FillTypes
    <2>3. QED
      BY <2>1, <2>2
  <1>12. FillTypes'
    BY <1>1, <1>3, <1>4, <1>6 DEF FillTypes
  <1>13. /\ t = [f \in FillFields |-> t[f]] /\ t.writes = left
         /\ \A f \in FillFields \ {"writes", "targets", "reread", "trouble"} : t[f] = s[f]
         /\ t.targets = s.targets \/ (fillMaster'[v] = class /\ t.targets = Backfill!With(s.targets, v, class))
         /\ t.reread = s.reread \/ (~Backfill!Fillable(v) /\ t.reread = s.reread \cup {v})
         /\ t.trouble \in BOOLEAN
         /\ ~t.trouble => ~s.trouble /\ v \in DOMAIN t.targets \cup t.reread
         /\ s.reread \subseteq t.reread
    <2>1. CASE t = [s EXCEPT !.writes = left, !.targets = Backfill!With(s.targets, v, class)] /\ fillMaster'[v] = class
      <3>1. v \in DOMAIN Backfill!With(s.targets, v, class)
        BY DEF Backfill!With
      <3>2. /\ t = [f \in FillFields |-> t[f]] /\ t.writes = left /\ t.targets = Backfill!With(s.targets, v, class)
            /\ \A f \in FillFields \ {"writes", "targets"} : t[f] = s[f]
        BY <1>1, <2>1 DEF FillRunOK, FillFields
      <3>3. t.reread = s.reread /\ t.trouble = s.trouble /\ s.trouble \in BOOLEAN
        BY <1>1, <3>2 DEF FillRunOK, FillFields
      <3>4. QED
        BY <2>1, <3>1, <3>2, <3>3
    <2>2. CASE ~Backfill!Fillable(v) /\ t = [s EXCEPT !.writes = left, !.reread = s.reread \cup {v}]
      BY <1>1, <2>2 DEF FillRunOK, FillFields
    <2>3. CASE t = [s EXCEPT !.writes = left, !.trouble = TRUE]
      BY <1>1, <2>3 DEF FillRunOK, FillFields
    <2>4. QED
      BY <1>7, <2>1, <2>2, <2>3
  <1>14. /\ DOMAIN s.targets \subseteq DOMAIN t.targets /\ DOMAIN t.targets \subseteq DOMAIN s.targets \cup {v}
         /\ \A w \in DOMAIN s.targets : w # v => t.targets[w] = s.targets[w]
         /\ t.targets # s.targets => fillMaster'[v] = class /\ t.targets[v] = class
    BY <1>13 DEF Backfill!With
  <1>15. ASSUME NEW w \in FillVideos PROVE RunVideoOK(fillRun[r], w)'
    <2>1. RunVideoOK(s, w) /\ Moves(w)
      BY <1>1, <1>11 DEF FillRunOK
    <2>2. /\ t.at = "master" /\ t.end = "none" /\ t.todo = s.todo /\ t.ahead = s.ahead /\ t.planned = s.planned
          /\ t.excused = s.excused /\ DOMAIN t.writes \subseteq DOMAIN s.writes
          /\ \A x \in DOMAIN t.writes : t.writes[x] = s.writes[x]
      BY <1>1, <1>5, <1>13 DEF FillRunOK, FillFields
    <2>3. w \in t.todo \cup (DOMAIN t.writes \ t.ahead) /\ w \notin unsettled' =>
            ~(Known(fillManifest'[w]) /\ Backfill!Fillable(w)')
      BY <1>1, <1>8, <2>1, <2>2 DEF RunVideoOK, Moves
    <2>4. w \in DOMAIN t.writes => Known(t.writes[w]) /\ Fits(w, t.writes[w])
      BY <2>1, <2>2 DEF RunVideoOK
    <2>5. w \in DOMAIN t.writes \cap t.ahead /\ w \notin unsettled' /\ Backfill!Fillable(w)' => fillManifest'[w] = t.writes[w]
      BY <1>1, <1>8, <2>1, <2>2 DEF RunVideoOK, Moves
    <2>6. w \in t.ahead => Known(fillManifest'[w])
      BY <1>1, <2>1, <2>2 DEF RunVideoOK, Moves
    <2>7. w \in DOMAIN t.targets => /\ Known(t.targets[w]) /\ Fits(w, t.targets[w]) /\ Known(fillMaster'[w])
                                    /\ w \notin unsettled' => \A c : c = t.targets[w] => Since(w, c)'
      <3>1. CASE w \in DOMAIN s.targets /\ t.targets[w] = s.targets[w]
        <4>1. Known(s.targets[w]) /\ Fits(w, s.targets[w]) /\ Known(fillMaster[w]) /\ (w \notin unsettled => Since(w, s.targets[w]))
          BY <1>1, <2>1, <3>1 DEF RunVideoOK
        <4>2. Known(fillMaster'[w])
          BY <2>1, <4>1 DEF Moves
        <4>3. ASSUME NEW c, c = s.targets[w], w \notin unsettled' PROVE Since(w, c)'
          <5>1. Known(c) /\ Since(w, c)
            BY <1>4, <4>1, <4>3
          <5>2. QED
            BY <1>8, <2>1, <4>3, <5>1 DEF Moves
        <4>4. QED
          BY <3>1, <4>1, <4>2, <4>3
      <3>2. CASE w = v /\ t.targets[v] = class /\ fillMaster'[v] = class
        <4>1. \A c : c = class => Since(w, c)'
          BY <3>2 DEF Since
        <4>2. QED
          BY <1>3, <3>2, <4>1
      <3>3. QED
        BY <1>14, <3>1, <3>2
    <2>8. w \in t.reread => ~Backfill!Fillable(w)'
      BY <1>13, <2>1 DEF RunVideoOK, Moves
    <2>9. t.at = "master" /\ w \in DOMAIN t.targets /\ w \notin unsettled' => Since(w, fillRun[r].targets[w])'
      BY <2>7 DEF t, Since
    <2>10. QED
      BY <2>2, <2>3, <2>4, <2>5, <2>6, <2>7, <2>8, <2>9 DEF t, RunVideoOK, Known, Fits
  <1>16. /\ t.at = "master" /\ t.end = "none" /\ t.todo = {} /\ t.planned = s.planned /\ t.ahead = s.ahead /\ t.excused = s.excused
         /\ t.planned \subseteq FillVideos /\ t.ahead \subseteq FillVideos /\ s.reread \subseteq FillVideos
         /\ DOMAIN s.targets \subseteq FillVideos /\ DOMAIN s.writes \subseteq FillVideos
    BY <1>1, <1>13 DEF FillRunOK, FillFields
  <1>17. ~t.trouble => t.planned \subseteq t.todo \cup t.excused \cup DOMAIN t.writes \cup t.reread \cup DOMAIN t.targets
    <2>1. ~s.trouble => s.planned \subseteq s.excused \cup DOMAIN s.writes \cup s.reread \cup DOMAIN s.targets
      BY <1>1 DEF FillRunOK
    <2>2. DOMAIN t.writes = DOMAIN s.writes \ {v}
      BY <1>5, <1>13
    <2>3. QED
      BY <1>13, <1>14, <1>16, <2>1, <2>2
  <1>18. FillRunOK(fillRun[r])'
    <2>1. DOMAIN t.writes \subseteq FillVideos /\ DOMAIN t.targets \subseteq FillVideos /\ t.reread \subseteq FillVideos
      BY <1>3, <1>5, <1>13, <1>14, <1>16
    <2>2. QED
      BY <1>13, <1>15, <1>16, <1>17, <2>1 DEF t, FillRunOK
  <1>19. \A q \in FillRuns : fillRun'[q] = fillRun[q] \/ FillRunOK(fillRun[q])'
    BY <1>1, <1>4, <1>18 DEF FillTypes
  <1>20. Apart'
    BY <1>1, <1>8 DEF Apart, Backfill!WorkerInFlight
  <1>21. QED
    BY <1>1, <1>11, <1>12, <1>19, <1>20, FillStep

LEMMA StepPatchManifestShard == ASSUME FillInv, NEW r \in FillRuns, Backfill!PatchManifestShard(r) PROVE FillInv'
  <1> DEFINE s == fillRun[r]
             t == fillRun'[r]
             targets == Backfill!ToPatch(s)
  <1>1. /\ FillRunOK(s) /\ s.at = "master" /\ s.reread = {} /\ DOMAIN s.writes = {} /\ FillTypes
        /\ UNCHANGED <<phase, worker, fillMaster, shorts>>
        /\ unsettled' = IF fillRun'[r].trouble THEN unsettled \cup s.planned ELSE unsettled
    BY DEF FillInv, Backfill!PatchManifestShard, Backfill!others, Backfill!Pending
  <1>2. \/ fillManifest' = Backfill!Filled(targets) /\ fillRun' = [fillRun EXCEPT ![r].at = "verify"]
        \/ /\ fillManifest' \in {fillManifest, Backfill!Filled(targets)}
           /\ fillRun' = [fillRun EXCEPT ![r].at = "verify", ![r].trouble = TRUE]
    BY DEF Backfill!PatchManifestShard
  <1>3. /\ fillRun' = [fillRun EXCEPT ![r] = t]
        /\ \/ t = [s EXCEPT !.at = "verify"] /\ fillManifest' = Backfill!Filled(targets)
           \/ t = [s EXCEPT !.at = "verify", !.trouble = TRUE]
    BY <1>1, <1>2 DEF FillTypes
  <1>4. Backfill!BackfillInFlight /\ \A w \in FillVideos : worker[w].at = "idle"
    BY <1>1, InFlight DEF FillInv, Apart
  <1>5. DOMAIN targets = DOMAIN s.targets \ s.ahead /\ \A w \in DOMAIN targets : targets[w] = s.targets[w]
    BY DEF Backfill!ToPatch
  <1>6. fillManifest' \in [FillVideos -> Backfill!Classes \cup {"gone"}] /\
        \A w \in FillVideos :
          \/ fillManifest'[w] = fillManifest[w]
          \/ w \in DOMAIN targets /\ Backfill!IsClassificationIncomplete(fillManifest[w]) /\ fillManifest'[w] = targets[w]
    <2>1. \A w \in DOMAIN targets : w \in FillVideos /\ targets[w] \in Backfill!Classes \cup {"gone"}
      BY <1>1, <1>5 DEF FillRunOK, RunVideoOK, Fits
    <2>2. fillManifest \in [FillVideos -> Backfill!Classes \cup {"gone"}]
      BY <1>1 DEF FillTypes
    <2> HIDE DEF targets
    <2>3. CASE fillManifest' = Backfill!Filled(targets)
      BY <2>1, <2>2, <2>3 DEF Backfill!Filled
    <2>4. CASE fillManifest' = fillManifest
      BY <2>2, <2>4
    <2>5. QED
      BY <1>2, <2>3, <2>4
  <1>7. t.trouble \/ \A w \in DOMAIN targets : Known(fillManifest[w]) \/ fillManifest'[w] = targets[w]
    <2>1. CASE fillManifest' = Backfill!Filled(targets)
      <3>1. \A w \in DOMAIN targets : w \in FillVideos
        BY <1>1, <1>5 DEF FillRunOK
      <3>2. \A w \in FillVideos : fillManifest[w] # "gone"
        BY <1>1 DEF FillTypes, Backfill!Classes, Backfill!Classified, Backfill!Statuses
      <3> HIDE DEF targets
      <3>3. QED
        BY <2>1, <3>1, <3>2 DEF Backfill!Filled, Known
    <2>2. CASE t = [s EXCEPT !.at = "verify", !.trouble = TRUE]
      <3>1. s = [f \in FillFields |-> s[f]]
        BY <1>1 DEF FillRunOK
      <3> HIDE DEF s, t
      <3>2. QED
        BY <2>2, <3>1 DEF FillFields
    <2>3. QED
      BY <1>3, <2>1, <2>2
  <1> HIDE DEF s, t, targets
  <1>8. /\ t = [f \in FillFields |-> t[f]] /\ t.at = "verify" /\ \A f \in FillFields \ {"at", "trouble"} : t[f] = s[f]
        /\ t.trouble \in BOOLEAN /\ (s.trouble => t.trouble)
    BY <1>1, <1>3 DEF FillRunOK, FillFields
  <1>9. unsettled \subseteq unsettled' /\ unsettled' \subseteq FillVideos
    BY <1>1 DEF FillTypes, FillRunOK
  <1>10. ASSUME NEW w \in FillVideos PROVE Moves(w) /\ StaysShort(w) /\ VideoOK(w)'
    <2>1. VideoOK(w) /\ RunVideoOK(s, w)
      BY <1>1 DEF FillInv, FillRunOK
    <2>2. CASE fillManifest'[w] = fillManifest[w]
      BY <1>1, <1>9, <2>2, StillMoves, KeepVideo DEF ShortPending
    <2>3. CASE w \in DOMAIN targets /\ Backfill!IsClassificationIncomplete(fillManifest[w]) /\ fillManifest'[w] = targets[w]
      <3>1. /\ Known(fillManifest'[w]) /\ Fits(w, fillManifest'[w]) /\ Known(fillMaster[w])
            /\ w \notin unsettled => Since(w, fillManifest'[w])
        BY <1>1, <1>5, <2>1, <2>3 DEF RunVideoOK
      <3>2. fillMaster'[w] = fillMaster[w] /\ ~Backfill!Fillable(w)' /\ ~Known(fillManifest[w])
            /\ (ShortPending(w) <=> ShortPending(w)')
        BY <1>1, <2>3, <3>1 DEF Backfill!Fillable, Known, ShortPending
      <3>3. fillManifest[w] # "short"
        BY <2>3 DEF Backfill!IsClassificationIncomplete
      <3>4. Moves(w)
        BY <1>9, <3>1, <3>2, <3>3 DEF Moves, Since
      <3>5. StaysShort(w)
        BY <3>2, <3>3 DEF StaysShort
      <3>6. w \notin unsettled' => PairOK(w)'
        BY <1>9, <3>1, <3>2, <3>3 DEF Since, PairOK
      <3>7. VideoOK(w)'
        BY <1>1, <1>9, <2>1, <3>1, <3>2, <3>6 DEF VideoOK, WorkerOK
      <3>8. QED
        BY <3>4, <3>5, <3>7
    <2>4. QED
      BY <1>6, <2>2, <2>3
  <1>11. FillTypes'
    <2>1. \A w \in FillVideos : fillManifest'[w] # "gone"
      <3>1. \A w \in FillVideos : fillManifest[w] # "gone"
        BY <1>1 DEF FillTypes, Backfill!Classes, Backfill!Classified, Backfill!Statuses
      <3>2. \A w \in DOMAIN targets : targets[w] # "gone"
        BY <1>1, <1>5 DEF FillRunOK, RunVideoOK, Known
      <3>3. QED
        BY <1>6, <3>1, <3>2
    <2>2. fillManifest' \in [FillVideos -> Backfill!Classes]
      BY <1>6, <2>1
    <2>3. QED
      BY <1>1, <1>3, <1>9, <2>2 DEF FillTypes
  <1>12. ASSUME NEW w \in FillVideos PROVE RunVideoOK(fillRun[r], w)'
    <2>1. RunVideoOK(s, w) /\ Moves(w)
      BY <1>1, <1>10 DEF FillRunOK
    <2>2. /\ t.at = "verify" /\ t.end = "none" /\ t.ahead = s.ahead /\ t.targets = s.targets /\ DOMAIN t.writes = {}
          /\ t.reread = {}
      BY <1>1, <1>8 DEF FillRunOK, FillFields
    <2>3. w \in t.ahead => Known(fillManifest'[w])
      BY <2>1, <2>2 DEF RunVideoOK, Moves
    <2>4. w \in DOMAIN t.targets => Known(t.targets[w]) /\ Fits(w, t.targets[w]) /\ Known(fillMaster'[w])
      BY <2>1, <2>2 DEF RunVideoOK, Moves
    <2>5. w \in DOMAIN t.targets /\ ~t.trouble => Known(fillManifest'[w])
      BY <1>5, <1>7, <2>1, <2>2, <2>3, <2>4 DEF Moves
    <2>6. QED
      BY <2>2, <2>3, <2>4, <2>5 DEF t, RunVideoOK, Known, Fits
  <1>13. FillRunOK(fillRun[r])'
    <2>1. /\ t.at = "verify" /\ t.end = "none" /\ t.todo = {} /\ DOMAIN t.writes = {} /\ t.reread = {} /\ t.ahead = s.ahead
          /\ t.targets = s.targets /\ t.planned = s.planned /\ t.excused = s.excused
      BY <1>1, <1>8 DEF FillRunOK, FillFields
    <2>2. /\ DOMAIN s.targets \subseteq FillVideos /\ s.planned \subseteq FillVideos /\ s.ahead \subseteq FillVideos
          /\ ~s.trouble => s.planned \subseteq s.excused \cup DOMAIN s.targets
      BY <1>1 DEF FillRunOK
    <2>3. QED
      BY <1>8, <1>12, <2>1, <2>2 DEF t, FillRunOK
  <1>14. \A q \in FillRuns : fillRun'[q] = fillRun[q] \/ FillRunOK(fillRun[q])'
    BY <1>1, <1>3, <1>13 DEF FillTypes
  <1>15. Apart'
    BY <1>1, <1>4 DEF Apart, Backfill!WorkerInFlight
  <1>16. QED
    BY <1>1, <1>10, <1>11, <1>14, <1>15, FillStep

LEMMA StepReadShelf == ASSUME FillInv, NEW s \in ShortsRuns, Backfill!ReadShelf(s) PROVE FillInv'
  <1> DEFINE x == shorts[s]
             ids == {v \in Backfill!OnShelf : fillMaster[v] = "short"}
             todo == {v \in Backfill!OnShelf : Backfill!Shortable(v)}
             y == [x EXCEPT !.at = "master", !.todo = todo, !.ids = ids]
  <1>1. /\ ShortsOK(x) /\ x.at = "start" /\ FillTypes /\ ~Backfill!WorkerInFlight
        /\ UNCHANGED <<phase, worker, fillMaster, fillManifest, fillRun, unsettled>>
    BY DEF FillInv, Backfill!ReadShelf, Backfill!others
  <1>2. shorts'[s] = y /\ shorts' = [shorts EXCEPT ![s] = shorts'[s]]
    BY <1>1 DEF Backfill!ReadShelf, FillTypes
  <1> HIDE DEF x, ids, todo
  <1>3. /\ y = [f \in ShortsFields |-> y[f]] /\ y.at = "master" /\ y.todo = todo /\ y.ids = ids
        /\ y.trouble = x.trouble /\ y.end = x.end
    BY <1>1 DEF ShortsOK, ShortsFields
  <1>4. todo \subseteq Backfill!OnShelf /\ ids \subseteq Backfill!OnShelf /\ \A v \in ids : fillMaster'[v] = "short"
    BY <1>1 DEF todo, ids
  <1> HIDE DEF y
  <1>5. ShortsOK(shorts[s])'
    BY <1>1, <1>2, <1>3, <1>4 DEF ShortsOK, Backfill!OnShelf
  <1>6. \A v \in FillVideos : ShortPending(v) => ShortPending(v)'
    BY <1>1, <1>2 DEF ShortPending, FillTypes, x
  <1>7. \A v \in FillVideos : Moves(v) /\ StaysShort(v)
    BY <1>1, <1>6, StillMoves
  <1>8. \A v \in FillVideos : VideoOK(v)'
    BY <1>1, <1>6, KeepVideo
  <1>9. FillTypes'
    BY <1>1, <1>2 DEF FillTypes
  <1>10. Apart'
    BY <1>1 DEF Apart, Backfill!WorkerInFlight
  <1>11. \A q \in ShortsRuns : shorts'[q] = shorts[q] \/ ShortsOK(shorts[q])'
    BY <1>1, <1>2, <1>5 DEF FillTypes
  <1>12. QED
    BY <1>1, <1>7, <1>8, <1>9, <1>10, <1>11, FillStep

LEMMA StepMarkShort == ASSUME FillInv, NEW s \in ShortsRuns, Backfill!MarkShort(s) PROVE FillInv'
  <1> DEFINE x == shorts[s]
             y == shorts'[s]
  <1>1. /\ ShortsOK(x) /\ x.at = "master" /\ FillTypes /\ UNCHANGED <<phase, worker, fillManifest, fillRun>>
    BY DEF FillInv, Backfill!MarkShort, Backfill!others
  <1>2. PICK v \in x.todo :
            LET rest == [x EXCEPT !.todo = @ \ {v}] IN
            \/ /\ fillMaster' = Backfill!SetVideoShort(v) /\ UNCHANGED unsettled
               /\ shorts' = [shorts EXCEPT ![s] = IF Backfill!Shortable(v) THEN [rest EXCEPT !.ids = @ \cup {v}]
                                                  ELSE [rest EXCEPT !.trouble = TRUE]]
            \/ /\ fillMaster' \in {fillMaster, Backfill!SetVideoShort(v)} /\ unsettled' = unsettled \cup {v}
               /\ shorts' = [shorts EXCEPT ![s] = [rest EXCEPT !.trouble = TRUE]]
    BY DEF Backfill!MarkShort
  <1>3. v \in FillVideos /\ Kind[v] = "short"
    BY <1>1 DEF ShortsOK, Backfill!OnShelf
  <1>4. shorts' = [shorts EXCEPT ![s] = y] /\ unsettled \subseteq unsettled' /\ unsettled' \subseteq FillVideos
    BY <1>1, <1>2, <1>3 DEF FillTypes
  <1>5. \/ fillMaster' = fillMaster
        \/ Backfill!Shortable(v) /\ fillMaster' = [fillMaster EXCEPT ![v] = "short"] /\ fillMaster'[v] = "short"
    BY <1>1, <1>2, <1>3 DEF Backfill!SetVideoShort, FillTypes
  <1>6. \/ Backfill!Shortable(v) /\ fillMaster'[v] = "short" /\ y = [x EXCEPT !.todo = x.todo \ {v}, !.ids = x.ids \cup {v}]
        \/ (fillMaster' = fillMaster \/ v \in unsettled') /\ y = [x EXCEPT !.todo = x.todo \ {v}, !.trouble = TRUE]
    <2>1. CASE Backfill!Shortable(v)
      BY <1>1, <1>2, <1>3, <2>1 DEF Backfill!SetVideoShort, FillTypes
    <2>2. CASE ~Backfill!Shortable(v)
      BY <1>1, <1>2, <1>3, <1>5, <2>2 DEF FillTypes
    <2>3. QED
      BY <2>1, <2>2
  <1>7. Backfill!BackfillInFlight /\ \A w \in FillVideos : worker[w].at = "idle"
    BY <1>1, InFlight DEF FillInv, Apart
  <1> HIDE DEF x, y
  <1>8. /\ y = [f \in ShortsFields |-> y[f]] /\ y.at = "master" /\ y.todo = x.todo \ {v} /\ y.end = x.end /\ y.trouble \in BOOLEAN
        /\ y.ids = x.ids \/ (y.ids = x.ids \cup {v} /\ fillMaster'[v] = "short")
        /\ y.ids = x.ids \cup {v} \/ fillMaster' = fillMaster \/ v \in unsettled'
    BY <1>1, <1>6 DEF ShortsOK, ShortsFields
  <1>9. ShortsOK(shorts[s])'
    <2>1. \A w \in x.ids : fillMaster'[w] = "short"
      BY <1>1, <1>5 DEF ShortsOK, FillTypes, Backfill!OnShelf
    <2>2. QED
      BY <1>1, <1>3, <1>8, <2>1 DEF ShortsOK, Backfill!OnShelf, y
  <1>10. \A w : ShortPending(w) => ShortPending(w)'
    BY <1>1, <1>4, <1>8 DEF ShortPending, FillTypes, x, y
  <1>11. fillMaster'[v] = "short" /\ v \notin unsettled' => fillMaster[v] = "short" \/ ShortPending(v)'
    BY <1>1, <1>8 DEF ShortPending, y
  <1>12. ASSUME NEW w \in FillVideos PROVE Moves(w) /\ StaysShort(w) /\ VideoOK(w)'
    <2>1. CASE fillMaster'[w] = fillMaster[w]
      BY <1>1, <1>4, <1>10, <2>1, StillMoves, KeepVideo
    <2>2. CASE w = v /\ Backfill!Shortable(v) /\ fillMaster'[v] = "short"
      <3>1. fillMaster[v] \in {"none", "upload"} /\ ~Backfill!Fillable(v)' /\ Known(fillMaster'[v])
        BY <2>2 DEF Backfill!Shortable, Backfill!Fillable, Known, Backfill!IsClassificationIncomplete
      <3>2. \A class : Known(class) /\ Since(v, class) => class = "upload"
        BY <3>1 DEF Since, Known, Backfill!IsClassificationIncomplete
      <3>3. v \notin unsettled' => ShortPending(v)'
        BY <1>11, <2>2, <3>1
      <3>4. Moves(v)
        BY <1>1, <1>4, <2>2, <3>1, <3>2, <3>3 DEF Moves, Since
      <3>5. StaysShort(v)
        BY <2>2, <3>1 DEF StaysShort
      <3>6. VideoOK(v) /\ WorkerOK(v) /\ fillManifest[v] \in {"none", "upload", "short"}
        BY <1>1, <1>3 DEF FillInv, VideoOK, Fits, Backfill!CanBe, FillTypes, Backfill!Classes, Backfill!Classified, Backfill!Statuses
      <3>7. v \notin unsettled' => PairOK(v)'
        BY <1>1, <2>2, <3>3, <3>6 DEF PairOK, Known, Backfill!IsClassificationIncomplete
      <3>8. Fits(v, "short")
        BY <1>3 DEF Fits, Backfill!CanBe, Backfill!Classes, Backfill!Classified, Backfill!Statuses
      <3>9. WorkerOK(v)'
        <4>1. worker'[v] = worker[v] /\ worker[v].at = "idle" /\ WorkerOK(v)
          BY <1>1, <1>3, <1>7, <3>6
        <4>2. QED
          BY <4>1 DEF WorkerOK
      <3>10. VideoOK(v)'
        BY <1>1, <2>2, <3>6, <3>7, <3>8, <3>9 DEF VideoOK
      <3>11. QED
        BY <2>2, <3>4, <3>5, <3>10
    <2>3. QED
      BY <1>1, <1>5, <2>1, <2>2 DEF FillTypes
  <1>13. FillTypes'
    BY <1>1, <1>4, <1>5 DEF FillTypes, Backfill!Classes, Backfill!Classified
  <1>14. \A q \in ShortsRuns : shorts'[q] = shorts[q] \/ ShortsOK(shorts[q])'
    BY <1>1, <1>4, <1>9 DEF FillTypes
  <1>15. Apart'
    BY <1>1, <1>7 DEF Apart, Backfill!WorkerInFlight
  <1>16. QED
    BY <1>1, <1>12, <1>13, <1>14, <1>15, FillStep

LEMMA StepPatchShorts == ASSUME FillInv, NEW s \in ShortsRuns, Backfill!PatchShorts(s) PROVE FillInv'
  <1> DEFINE x == shorts[s]
             y == shorts'[s]
  <1>1. /\ ShortsOK(x) /\ x.at = "master" /\ FillTypes /\ UNCHANGED <<phase, worker, fillMaster, fillRun>>
    BY DEF FillInv, Backfill!PatchShorts, Backfill!others
  <1>2. PICK end \in {"COMPLETE", "PARTIAL"} :
            /\ shorts' = [shorts EXCEPT ![s].at = "over", ![s].end = end]
            /\ \/ fillManifest' = Backfill!Shorted(x.ids) /\ UNCHANGED unsettled
               \/ /\ fillManifest' \in {fillManifest, Backfill!Shorted(x.ids)} /\ unsettled' = unsettled \cup x.ids
                  /\ end = "PARTIAL"
    BY DEF Backfill!PatchShorts
  <1>3. y = [x EXCEPT !.at = "over", !.end = end] /\ shorts' = [shorts EXCEPT ![s] = y]
    BY <1>1, <1>2 DEF FillTypes
  <1>4. \A v \in x.ids : v \in FillVideos /\ Kind[v] = "short" /\ fillMaster[v] = "short"
                         /\ fillManifest[v] \in {"none", "upload", "short"}
    BY <1>1 DEF ShortsOK, Backfill!OnShelf, FillInv, VideoOK, Fits, Backfill!CanBe, FillTypes, Backfill!Classes,
       Backfill!Classified, Backfill!Statuses
  <1>5. Backfill!BackfillInFlight /\ \A w \in FillVideos : worker[w].at = "idle"
    BY <1>1, InFlight DEF FillInv, Apart
  <1> HIDE DEF x, y
  <1>6. unsettled \subseteq unsettled' /\ unsettled' \subseteq FillVideos
    BY <1>1, <1>2, <1>4 DEF FillTypes
  <1>7. /\ y = [f \in ShortsFields |-> y[f]] /\ y.at = "over" /\ y.end = end /\ y.ids = x.ids /\ y.todo = x.todo
        /\ y.trouble = x.trouble
    BY <1>1, <1>3 DEF ShortsOK, ShortsFields
  <1>8. \A w \in FillVideos : fillManifest'[w] = fillManifest[w] \/ (w \in x.ids /\ fillManifest'[w] = "short")
    BY <1>2 DEF Backfill!Shorted
  <1>9. \A w \in x.ids : w \in unsettled' \/ fillManifest'[w] = "short"
    BY <1>2, <1>4 DEF Backfill!Shorted
  <1>10. end = "COMPLETE" => \A w \in x.ids : fillManifest'[w] = "short"
    BY <1>2, <1>4 DEF Backfill!Shorted
  <1>11. ShortsOK(shorts[s])'
    BY <1>1, <1>2, <1>7, <1>10 DEF ShortsOK, Backfill!OnShelf, y
  <1>12. \A w : ShortPending(w) => ShortPending(w)' \/ w \in x.ids
    BY <1>1, <1>3 DEF ShortPending, FillTypes, x
  <1>13. ASSUME NEW w \in FillVideos PROVE Moves(w) /\ StaysShort(w) /\ VideoOK(w)'
    <2>1. VideoOK(w)
      BY DEF FillInv
    <2>2. CASE w \notin x.ids
      BY <1>1, <1>6, <1>8, <1>12, <2>2, StillMoves, KeepVideo
    <2>3. CASE w \in x.ids
      <3>1. fillMaster[w] = "short" /\ fillMaster'[w] = "short" /\ (w \notin unsettled' => fillManifest'[w] = "short")
            /\ fillManifest'[w] \in {fillManifest[w], "short"} /\ Kind[w] = "short"
        BY <1>1, <1>4, <1>8, <1>9, <2>3
      <3>2. ~Backfill!Fillable(w) /\ ~Backfill!Fillable(w)' /\ Known("short")
        BY <3>1 DEF Backfill!Fillable, Known, Backfill!IsClassificationIncomplete
      <3>3. Moves(w)
        BY <1>6, <3>1, <3>2 DEF Moves, Since
      <3>4. StaysShort(w)
        BY <3>1 DEF StaysShort
      <3>5. Fits(w, fillManifest'[w])
        BY <2>1, <3>1 DEF VideoOK, Fits, Backfill!CanBe, Backfill!Classes, Backfill!Classified, Backfill!Statuses
      <3>6. WorkerOK(w)'
        BY <1>1, <1>5, <2>1 DEF VideoOK, WorkerOK
      <3>7. VideoOK(w)'
        BY <1>1, <2>1, <3>1, <3>5, <3>6 DEF VideoOK, PairOK
      <3>8. QED
        BY <3>3, <3>4, <3>7
    <2>4. QED
      BY <2>2, <2>3
  <1>14. FillTypes'
    <2>1. fillManifest' \in [FillVideos -> Backfill!Classes]
      <3>1. "short" \in Backfill!Classes
        BY DEF Backfill!Classes, Backfill!Classified
      <3>2. CASE fillManifest' = fillManifest
        BY <1>1, <3>2 DEF FillTypes
      <3>3. CASE fillManifest' = Backfill!Shorted(x.ids)
        BY <1>1, <3>1, <3>3 DEF FillTypes, Backfill!Shorted
      <3>4. QED
        BY <1>2, <3>2, <3>3
    <2>2. QED
      BY <1>1, <1>3, <1>6, <2>1 DEF FillTypes
  <1>15. \A q \in ShortsRuns : shorts'[q] = shorts[q] \/ ShortsOK(shorts[q])'
    BY <1>1, <1>3, <1>11 DEF FillTypes
  <1>16. Apart'
    BY <1>1, <1>5 DEF Apart, Backfill!WorkerInFlight
  <1>17. QED
    BY <1>1, <1>13, <1>14, <1>15, <1>16, FillStep

LEMMA StepFill == ASSUME FillInv, Backfill!Next PROVE FillInv'
  <1>1. ASSUME NEW r \in FillRuns,
               \/ Backfill!Scan(r) \/ Backfill!Plan(r) \/ Backfill!FetchShard(r) \/ Backfill!WriteMaster(r)
               \/ Backfill!ReadMaster(r) \/ Backfill!PatchManifestShard(r) \/ Backfill!Verify(r) \/ Backfill!Interrupted(r)
        PROVE  FillInv'
    BY <1>1, StepScan, StepPlan, StepFetchShard, StepWriteMaster, StepReadMaster, StepPatchManifestShard, StepVerify,
       StepInterrupted
  <1>2. ASSUME NEW s \in ShortsRuns, Backfill!ReadShelf(s) \/ Backfill!MarkShort(s) \/ Backfill!PatchShorts(s)
        PROVE  FillInv'
    BY <1>2, StepReadShelf, StepMarkShort, StepPatchShorts
  <1>3. ASSUME NEW v \in FillVideos,
               \/ Backfill!Advance(v) \/ Backfill!PersistInferredClassification(v) \/ Backfill!ResolveEnded(v)
               \/ Backfill!WorkerObserves(v) \/ Backfill!WorkerReads(v) \/ Backfill!WorkerPuts(v) \/ Backfill!WorkerPatches(v)
        PROVE  FillInv'
    BY <1>3, StepAdvance, StepPersistInferredClassification, StepResolveEnded, StepWorkerObserves, StepWorkerReads,
       StepWorkerPuts, StepWorkerPatches
  <1>4. QED
    BY <1>1, <1>2, <1>3 DEF Backfill!Next

LEMMA FillSound == ASSUME FillInv PROVE Backfill!ClassificationIsSound
  <1>1. Backfill!TypeOK
    BY DEF FillInv, FillTypes, Backfill!TypeOK
  <1>2. Backfill!TheTwoAgree
    <2>1. \A v : ShortPending(v) => Backfill!BackfillInFlight
      BY DEF ShortPending, Backfill!BackfillInFlight
    <2>2. ASSUME NEW v \in FillVideos \ unsettled, ~Backfill!BackfillInFlight, worker[v].at = "idle", fillMaster[v] # "gone",
                 ~Backfill!IsClassificationIncomplete(fillMaster[v]), ~Backfill!IsClassificationIncomplete(fillManifest[v])
          PROVE  fillMaster[v] = fillManifest[v]
      <3>1. Known(fillMaster[v]) /\ Known(fillManifest[v])
        BY <2>2 DEF FillInv, FillTypes, Known, Backfill!Classes, Backfill!Classified, Backfill!Statuses
      <3>2. PairOK(v) /\ ~ShortPending(v)
        BY <2>1, <2>2 DEF FillInv, VideoOK
      <3>3. QED
        BY <3>1, <3>2 DEF PairOK
    <2>3. QED
      BY <2>2 DEF Backfill!TheTwoAgree
  <1>3. Backfill!CompleteMeansDone
    <2>1. \A r \in FillRuns : fillRun[r].planned \subseteq FillVideos
      BY DEF FillInv, FillRunOK
    <2>2. \A r \in FillRuns, v \in FillVideos : RunVideoOK(fillRun[r], v)
      BY DEF FillInv, FillRunOK
    <2>3. QED
      BY <2>1, <2>2 DEF RunVideoOK, Known, Backfill!CompleteMeansDone
  <1>4. Backfill!FiledByKind
    BY DEF FillInv, VideoOK, Fits, Backfill!FiledByKind
  <1>5. Backfill!ShortsStay
    BY DEF FillInv, ShortsOK, Backfill!ShortsStay
  <1>6. QED
    BY <1>1, <1>2, <1>3, <1>4, <1>5 DEF Backfill!ClassificationIsSound
-----------------------------------------------------------------------------
(* The leaderboards *)

BoardFields == {"at", "date", "roster", "existing", "todo", "found", "skipped", "pass", "failed", "build"}

Ahead(a, b) == a.value > b.value \/ (a.value = b.value /\ a.creator < b.creator)

\* A row of the section k of the result of d says what the snapshots say.
RowOK(x, d, k) ==
    /\ Org[x.creator] \in Leaderboard!ValidOrganizations
    /\ x.creator \in DOMAIN snapshots[d]
    /\ k = 0 => x.value = snapshots[d][x.creator]
    /\ k # 0 => /\ d - k \in Dates /\ x.creator \in DOMAIN snapshots[d - k]
                /\ x.value = snapshots[d][x.creator] - snapshots[d - k][x.creator]

\* The rows are in order, and nobody has two.
InOrder(rows) ==
    /\ \E n \in Nat : rows \in [1..n -> [creator : BoardCreators, value : Int]]
    /\ \A i, j \in DOMAIN rows : i < j => Ahead(rows[i], rows[j])
    /\ \A i, j \in DOMAIN rows : rows[i].creator = rows[j].creator => i = j

\* Nobody has both a row and a reason to have none.
SectionOK(section, d, k) ==
    /\ InOrder(section.rows)
    /\ \A i \in DOMAIN section.rows :
          RowOK(section.rows[i], d, k) /\ section.rows[i].creator \notin DOMAIN section.ineligible

ResultOK(result, d) ==
    DOMAIN result = Anchors \cup {0} /\ \A k \in Anchors \cup {0} : SectionOK(result[k], d, k)

\* Everybody of the roster there is a count of has a row.
Covers(result, d, roster) ==
    \A c \in roster \cap DOMAIN snapshots[d] :
        snapshots[d][c] # Hidden /\ Org[c] \in Leaderboard!ValidOrganizations =>
            \E i \in DOMAIN result[0].rows : result[0].rows[i].creator = c

BoardTypes ==
    /\ today \in Dates
    /\ snapshots = [d \in Dates |-> snapshots[d]] /\ results = [d \in Dates |-> results[d]]
    /\ answers = [d \in Dates |-> answers[d]]
    /\ \A d \in Dates : /\ DOMAIN snapshots[d] \subseteq BoardCreators
                        /\ \A c \in DOMAIN snapshots[d] : snapshots[d][c] \in Leaderboard!Values

\* Whom an execution found stored, has to ask, has an answer of and has skipped are
\* different creators.
Parted(s) ==
    /\ s.todo \cup s.skipped \cup DOMAIN s.found \subseteq BoardCreators \ DOMAIN s.existing
    /\ s.todo \cap s.skipped = {} /\ DOMAIN s.found \cap (s.todo \cup s.skipped) = {}

Collecting(s) ==
    /\ s.existing = snapshots[s.date] /\ Parted(s)
    /\ \A c \in DOMAIN s.found : s.found[c] \in Leaderboard!Values /\ <<c, s.found[c]>> \in answers[s.date]

BoardRunOK(s) ==
    /\ s = [f \in BoardFields |-> s[f]]
    /\ s.at \in {"idle", "ask", "write", "build", "put", "over"} /\ s.date \in Dates
    /\ s.roster \in SUBSET BoardCreators
    /\ s.at \in {"ask", "write"} => Collecting(s)
    /\ s.at = "put" => ResultOK(s.build, s.date) /\ Covers(s.build, s.date, s.roster)
    /\ s.at = "over" /\ ~s.failed => Covers(results[s.date], s.date, s.roster)

\* An answer is stored, lost, or in the hands of the execution that asked.
InHand(d, a) ==
    boardRun.at \in {"ask", "write"} /\ boardRun.date = d /\ \E c \in DOMAIN boardRun.found : a = <<c, boardRun.found[c]>>

AnswersOK == \A d \in Dates :
    /\ \A c \in DOMAIN snapshots[d] : <<c, snapshots[d][c]>> \in answers[d]
    /\ \A a \in answers[d] : a \in Leaderboard!Rows(d) \/ <<d, a>> \in lost \/ InHand(d, a)

BoardInv ==
    /\ BoardTypes /\ BoardRunOK(boardRun) /\ AnswersOK
    /\ \A d \in Dates : results[d] # <<>> => ResultOK(results[d], d)

-----------------------------------------------------------------------------
(* The order of a leaderboard *)

Sooner(value, a, b) == value[a] > value[b] \/ (value[a] = value[b] /\ a < b)

Sorts(s, value) == \A i, j \in DOMAIN s : i < j => Sooner(value, s[i], s[j])

\* A finite number of creators can be put in order, and an order leaves nobody out.
LEMMA OrderExists ==
    ASSUME NEW value, IsFiniteSet(DOMAIN value), DOMAIN value \subseteq Int, \A c \in DOMAIN value : value[c] \in Int
    PROVE  \E s \in [1..Cardinality(DOMAIN value) -> DOMAIN value] : Sorts(s, value)
  <1> DEFINE S == DOMAIN value
             n == Cardinality(S)
             Down(c) == {x \in S : Sooner(value, x, c)}
             place == [c \in S |-> Cardinality(Down(c)) + 1]
  <1>1. n \in Nat
    BY FS_CardinalityType
  <1>2. ASSUME NEW c \in S PROVE IsFiniteSet(Down(c)) /\ Cardinality(Down(c)) \in Nat /\ Cardinality(Down(c)) + 1 <= n
    <2>1. Down(c) \in SUBSET (S \ {c})
      BY DEF Sooner
    <2>2. IsFiniteSet(S \ {c}) /\ Cardinality(S \ {c}) = n - 1
      BY FS_RemoveElement
    <2> HIDE DEF Down, n, S
    <2>3. IsFiniteSet(Down(c)) /\ Cardinality(Down(c)) <= Cardinality(S \ {c})
      BY <2>1, <2>2, FS_Subset
    <2>4. Cardinality(Down(c)) \in Nat
      BY <2>3, FS_CardinalityType
    <2>5. QED
      BY <1>1, <2>2, <2>3, <2>4
  <1>3. ASSUME NEW a \in S, NEW b \in S, Sooner(value, a, b) PROVE place[a] < place[b]
    <2>1. Down(a) \in SUBSET (Down(b) \ {a}) /\ a \in Down(b)
      BY <1>3 DEF Sooner
    <2>2. IsFiniteSet(Down(b)) /\ Cardinality(Down(b)) \in Nat /\ Cardinality(Down(a)) \in Nat
      BY <1>2
    <2> HIDE DEF Down
    <2>3. IsFiniteSet(Down(b) \ {a}) /\ Cardinality(Down(b) \ {a}) = Cardinality(Down(b)) - 1
      BY <2>1, <2>2, FS_RemoveElement
    <2>4. Cardinality(Down(a)) <= Cardinality(Down(b)) - 1
      BY <2>1, <2>3, FS_Subset
    <2>5. QED
      BY <2>2, <2>4
  <1>4. \A a, b \in S : a = b \/ Sooner(value, a, b) \/ Sooner(value, b, a)
    BY DEF Sooner
  <1>5. \A c \in S : place[c] \in 1..n
    <2> HIDE DEF Down, n, S
    <2>1. QED
      BY <1>1, <1>2
  <1>6. place \in [S -> 1..n]
    <2> HIDE DEF n, S
    <2>1. QED
      BY <1>5
  <1>7. \A a, b \in S : place[a] = place[b] => a = b
    <2> HIDE DEF place, n, S
    <2>1. SUFFICES ASSUME NEW a \in S, NEW b \in S, place[a] = place[b], a # b PROVE FALSE
      OBVIOUS
    <2>2. place[a] < place[b] \/ place[b] < place[a]
      BY <1>3, <1>4, <2>1
    <2>3. place[a] \in Int /\ place[b] \in Int
      BY <1>1, <1>5
    <2>4. QED
      BY <2>1, <2>2, <2>3
  <1> HIDE DEF place
  <1>8. \A i \in 1..n : \E c \in S : place[c] = i
    <2> HIDE DEF n, S
    <2>1. place \in Injection(S, 1..n)
      BY <1>6, <1>7 DEF Injection, IsInjective
    <2>2. IsFiniteSet(1..n) /\ Cardinality(1..n) = n
      BY <1>1, FS_Interval
    <2>3. Cardinality(S) = Cardinality(1..n)
      BY <2>2 DEF n
    <2>4. place \in Surjection(S, 1..n)
      BY <2>1, <2>2, <2>3, FS_Injection
    <2>5. QED
      BY <2>4 DEF Surjection
  <1> DEFINE s == [i \in 1..n |-> CHOOSE c \in S : place[c] = i]
  <1> HIDE DEF n, S
  <1>9. \A i \in 1..n : s[i] \in S /\ place[s[i]] = i
    BY <1>8
  <1>10. s \in [1..n -> S] /\ DOMAIN s = 1..n
    BY <1>9
  <1> HIDE DEF s
  <1>11. \A i, j \in 1..n : i < j => Sooner(value, s[i], s[j])
    <2>1. SUFFICES ASSUME NEW i \in 1..n, NEW j \in 1..n, i < j PROVE Sooner(value, s[i], s[j])
      OBVIOUS
    <2>2. s[i] # s[j]
      BY <1>9, <2>1, <1>1
    <2>3. ~Sooner(value, s[j], s[i])
      <3>1. SUFFICES ASSUME Sooner(value, s[j], s[i]) PROVE FALSE
        OBVIOUS
      <3>2. place[s[j]] < place[s[i]]
        BY <1>3, <1>9, <3>1
      <3>3. QED
        BY <1>1, <1>9, <2>1, <3>2
    <2>4. QED
      BY <1>4, <1>9, <2>2, <2>3
  <1>12. QED
    BY <1>10, <1>11 DEF Sorts, n, S

LEMMA OrderIsTotal ==
    ASSUME NEW value, IsFiniteSet(DOMAIN value), DOMAIN value \subseteq Int, \A c \in DOMAIN value : value[c] \in Int,
           NEW s \in [1..Cardinality(DOMAIN value) -> DOMAIN value], Sorts(s, value)
    PROVE  \A c \in DOMAIN value : \E i \in DOMAIN s : s[i] = c
  <1> DEFINE n == Cardinality(DOMAIN value)
  <1>1. n \in Nat
    BY FS_CardinalityType
  <1>2. IsFiniteSet(1..n) /\ Cardinality(1..n) = n
    BY <1>1, FS_Interval
  <1>3. \A i, j \in 1..n : s[i] = s[j] => i = j
    BY <1>1 DEF Sorts, Sooner
  <1>4. s \in Injection(1..n, DOMAIN value)
    BY <1>3 DEF Injection, IsInjective
  <1>5. s \in Surjection(1..n, DOMAIN value)
    <2> HIDE DEF n
    <2>1. Cardinality(DOMAIN value) = n
      BY DEF n
    <2>2. QED
      BY <1>2, <1>4, <2>1, FS_Injection
  <1>6. QED
    BY <1>5 DEF Surjection

\* The instance counts as this module does.
LEMMA SameSize == \A S : Leaderboard!Cardinality(S) = Cardinality(S)
  BY DEF Leaderboard!Cardinality, Cardinality

LEMMA SameFinite == \A S : Leaderboard!IsFiniteSet(S) <=> IsFiniteSet(S)
  BY DEF Leaderboard!IsFiniteSet, IsFiniteSet

LEMMA BoardLimits ==
    /\ BoardCreators \subseteq Int /\ IsFiniteSet(BoardCreators) /\ Rosters \subseteq SUBSET BoardCreators
    /\ Counts \subseteq Int /\ Hidden \notin Counts
    /\ 1 \in Dates /\ Dates \subseteq Nat /\ Anchors \subseteq Nat \ {0}
  BY CollectionAssumption, SameFinite DEF Leaderboard!LeaderboardAssumption

LEMMA LeaderboardOK ==
    ASSUME NEW value, DOMAIN value \subseteq BoardCreators, \A c \in DOMAIN value : value[c] \in Int
    PROVE  LET rows == Leaderboard!Leaderboard(value)
           IN  /\ InOrder(rows)
               /\ \A i \in DOMAIN rows : rows[i].creator \in DOMAIN value /\ rows[i].value = value[rows[i].creator]
               /\ \A c \in DOMAIN value : \E i \in DOMAIN rows : rows[i].creator = c
  <1> DEFINE n == Leaderboard!Cardinality(DOMAIN value)
             order == CHOOSE s \in [1..n -> DOMAIN value] :
                          \A i, j \in DOMAIN s : i < j => value[s[i]] > value[s[j]] \/ (value[s[i]] = value[s[j]] /\ s[i] < s[j])
             rows == [i \in DOMAIN order |-> [creator |-> order[i], value |-> value[order[i]]]]
  <1>1. Leaderboard!Leaderboard(value) = rows
    BY DEF Leaderboard!Leaderboard
  <1>2. IsFiniteSet(DOMAIN value) /\ DOMAIN value \subseteq Int
    BY BoardLimits, FS_Subset
  <1>3. n = Cardinality(DOMAIN value) /\ n \in Nat
    BY <1>2, SameSize, FS_CardinalityType
  <1>4. order \in [1..n -> DOMAIN value] /\ Sorts(order, value)
    <2> DEFINE InPlace(s) == \A i, j \in DOMAIN s :
                  i < j => value[s[i]] > value[s[j]] \/ (value[s[i]] = value[s[j]] /\ s[i] < s[j])
    <2>1. order = CHOOSE s \in [1..n -> DOMAIN value] : InPlace(s)
      OBVIOUS
    <2>2. \A s : InPlace(s) <=> Sorts(s, value)
      BY DEF Sorts, Sooner
    <2>3. \A c \in DOMAIN value : value[c] \in Int
      OBVIOUS
    <2>4. \E s \in [1..n -> DOMAIN value] : Sorts(s, value)
      BY <1>2, <1>3, <2>3, OrderExists
    <2> HIDE DEF n, InPlace, order
    <2>5. QED
      BY <2>1, <2>2, <2>4
  <1> HIDE DEF order
  <1>5. DOMAIN order = 1..n /\ \A i \in 1..n : order[i] \in DOMAIN value
    BY <1>4
  <1>6. \A c \in DOMAIN value : \E i \in DOMAIN order : order[i] = c
    BY <1>2, <1>3, <1>4, OrderIsTotal
  <1> HIDE DEF n
  <1>7. rows \in [1..n -> [creator : BoardCreators, value : Int]]
    BY <1>5
  <1>8. \A i, j \in DOMAIN rows : i < j => Ahead(rows[i], rows[j])
    BY <1>4, <1>5 DEF Ahead, Sorts, Sooner
  <1>9. InOrder(rows)
    <2>1. ASSUME NEW i \in 1..n, NEW j \in 1..n, i < j PROVE order[i] # order[j]
      BY <1>2, <1>4, <1>5, <2>1 DEF Sorts, Sooner
    <2>2. \A i, j \in DOMAIN rows : rows[i].creator = rows[j].creator => i = j
      BY <1>3, <1>5, <2>1
    <2>3. QED
      BY <1>3, <1>7, <1>8, <2>2 DEF InOrder
  <1>10. \A i \in DOMAIN rows : rows[i].creator \in DOMAIN value /\ rows[i].value = value[rows[i].creator]
    BY <1>5
  <1>11. \A c \in DOMAIN value : \E i \in DOMAIN rows : rows[i].creator = c
    BY <1>6
  <1>12. QED
    BY <1>1, <1>9, <1>10, <1>11

LEMMA SectionBuilt ==
    ASSUME NEW d, NEW k, NEW reason, NEW value,
           DOMAIN value = Leaderboard!Eligible(reason), DOMAIN value \subseteq BoardCreators,
           \A c \in DOMAIN value : value[c] \in Int,
           \A c \in DOMAIN value : \A x : x.creator = c /\ x.value = value[c] => RowOK(x, d, k)
    PROVE  LET section == Leaderboard!Section(reason, value)
           IN  /\ SectionOK(section, d, k)
               /\ \A c \in DOMAIN value : \E i \in DOMAIN section.rows : section.rows[i].creator = c
  <1> DEFINE rows == Leaderboard!Leaderboard(value)
             section == Leaderboard!Section(reason, value)
  <1>1. section.rows = rows /\ DOMAIN section.ineligible = DOMAIN reason \ Leaderboard!Eligible(reason)
    BY DEF Leaderboard!Section
  <1>2. /\ InOrder(rows)
        /\ \A i \in DOMAIN rows : rows[i].creator \in DOMAIN value /\ rows[i].value = value[rows[i].creator]
        /\ \A c \in DOMAIN value : \E i \in DOMAIN rows : rows[i].creator = c
    BY LeaderboardOK
  <1> HIDE DEF rows, section
  <1>3. QED
    BY <1>1, <1>2 DEF SectionOK, section

LEMMA BuildOK ==
    ASSUME BoardTypes, NEW s, s.date \in Dates, s.roster \subseteq BoardCreators
    PROVE  LET built == Leaderboard!BuildSubscriberLeaderboards(s)
           IN  ResultOK(built, s.date) /\ Covers(built, s.date, s.roster)
  <1> DEFINE rows == snapshots[s.date]
             considered == s.roster \cup DOMAIN rows
             built == Leaderboard!BuildSubscriberLeaderboards(s)
             noTotal == [c \in considered |-> Leaderboard!Unranked(c, rows, s.roster)]
             total == [c \in Leaderboard!Eligible(noTotal) |-> rows[c]]
             noGrowth(k) == [c \in considered |-> Leaderboard!UnrankedGrowth(c, rows, Leaderboard!Snapshot(s.date - k), s.roster)]
             growth(k) == [c \in Leaderboard!Eligible(noGrowth(k)) |-> rows[c] - Leaderboard!Snapshot(s.date - k)[c]]
  <1>1. DOMAIN built = Anchors \cup {0} /\ built[0] = Leaderboard!Section(noTotal, total)
        /\ \A k \in Anchors : built[k] = Leaderboard!Section(noGrowth(k), growth(k))
    BY BoardLimits DEF Leaderboard!BuildSubscriberLeaderboards
  <1>2. ASSUME NEW c \in Leaderboard!Eligible(noTotal)
        PROVE  c \in DOMAIN rows /\ c \in s.roster /\ Org[c] \in Leaderboard!ValidOrganizations /\ rows[c] # Hidden
    BY <1>2 DEF Leaderboard!Eligible, Leaderboard!Unranked
  <1>3. \A c \in s.roster \cap DOMAIN rows :
            rows[c] # Hidden /\ Org[c] \in Leaderboard!ValidOrganizations => c \in Leaderboard!Eligible(noTotal)
    BY DEF Leaderboard!Eligible, Leaderboard!Unranked
  <1>4. DOMAIN total = Leaderboard!Eligible(noTotal) /\ DOMAIN total \subseteq BoardCreators
    BY <1>2 DEF BoardTypes
  <1>5. ASSUME NEW c \in DOMAIN total PROVE total[c] \in Int
    BY <1>2, BoardLimits DEF BoardTypes, Leaderboard!Values
  <1>6. ASSUME NEW c \in DOMAIN total, NEW x, x.creator = c, x.value = total[c] PROVE RowOK(x, s.date, 0)
    BY <1>2, <1>6 DEF RowOK
  <1> HIDE DEF noTotal, total
  <1>7. SectionOK(built[0], s.date, 0) /\ \A c \in DOMAIN total : \E i \in DOMAIN built[0].rows : built[0].rows[i].creator = c
    <2> DEFINE section == Leaderboard!Section(noTotal, total)
    <2>1. SectionOK(section, s.date, 0) /\ \A c \in DOMAIN total : \E i \in DOMAIN section.rows : section.rows[i].creator = c
      BY <1>4, <1>5, <1>6, SectionBuilt
    <2> HIDE DEF section, built
    <2>2. QED
      BY <1>1, <2>1 DEF section
  <1>8. ASSUME NEW k \in Anchors PROVE SectionOK(built[k], s.date, k)
    <2> DEFINE anchor == Leaderboard!Snapshot(s.date - k)
    <2>1. ASSUME NEW c \in Leaderboard!Eligible(noGrowth(k))
          PROVE  /\ c \in DOMAIN rows /\ c \in s.roster /\ Org[c] \in Leaderboard!ValidOrganizations /\ rows[c] # Hidden
                 /\ c \in DOMAIN anchor /\ anchor[c] # Hidden
      BY <2>1 DEF Leaderboard!Eligible, Leaderboard!Unranked, Leaderboard!UnrankedGrowth
    <2>2. ASSUME NEW c \in DOMAIN anchor PROVE s.date - k \in Dates /\ anchor = snapshots[s.date - k]
      BY <2>2 DEF Leaderboard!Snapshot
    <2>3. DOMAIN growth(k) = Leaderboard!Eligible(noGrowth(k)) /\ DOMAIN growth(k) \subseteq BoardCreators
      BY <2>1 DEF BoardTypes
    <2>4. ASSUME NEW c \in DOMAIN growth(k)
          PROVE  /\ growth(k)[c] = rows[c] - snapshots[s.date - k][c] /\ growth(k)[c] \in Int
                 /\ s.date - k \in Dates /\ c \in DOMAIN snapshots[s.date - k]
      <3>1. growth(k)[c] = rows[c] - anchor[c]
        BY <2>3
      <3>2. c \in DOMAIN rows /\ rows[c] # Hidden /\ c \in DOMAIN anchor /\ anchor[c] # Hidden
        BY <2>1, <2>3
      <3>3. s.date - k \in Dates /\ anchor = snapshots[s.date - k]
        BY <2>2, <3>2
      <3>4. rows[c] \in Int /\ anchor[c] \in Int
        BY <3>2, <3>3, BoardLimits DEF BoardTypes, Leaderboard!Values
      <3>5. QED
        BY <3>1, <3>2, <3>3, <3>4
    <2>5. ASSUME NEW c \in DOMAIN growth(k), NEW x, x.creator = c, x.value = growth(k)[c] PROVE RowOK(x, s.date, k)
      <3>1. k # 0
        BY BoardLimits
      <3>2. c \in DOMAIN rows /\ Org[c] \in Leaderboard!ValidOrganizations
        BY <2>1, <2>3
      <3>3. QED
        BY <2>4, <2>5, <3>1, <3>2 DEF RowOK
    <2> HIDE DEF noGrowth, growth
    <2>6. SectionOK(Leaderboard!Section(noGrowth(k), growth(k)), s.date, k)
      BY <2>3, <2>4, <2>5, SectionBuilt
    <2>7. QED
      BY <1>1, <2>6
  <1> HIDE DEF built
  <1>9. Covers(built, s.date, s.roster)
    BY <1>3, <1>4, <1>7 DEF Covers
  <1>10. QED
    BY <1>1, <1>7, <1>8, <1>9 DEF ResultOK, built

-----------------------------------------------------------------------------
(* The steps *)

\* Rows are added to a snapshot, and none is changed.
SnapshotsGrow == \A d \in Dates : \A c \in DOMAIN snapshots[d] : c \in DOMAIN snapshots'[d] /\ snapshots'[d][c] = snapshots[d][c]

LEMMA ResultStands ==
    ASSUME NEW result, NEW d \in Dates, ResultOK(result, d), SnapshotsGrow PROVE ResultOK(result, d)'
  <1>1. ASSUME NEW x, NEW k, RowOK(x, d, k) PROVE RowOK(x, d, k)'
    BY <1>1 DEF RowOK, SnapshotsGrow
  <1>2. ASSUME NEW section, NEW k, SectionOK(section, d, k) PROVE SectionOK(section, d, k)'
    BY <1>1, <1>2 DEF SectionOK
  <1>3. QED
    BY <1>2 DEF ResultOK

LEMMA InitBoard == Leaderboard!Init => BoardInv
  <1>1. SUFFICES ASSUME Leaderboard!Init PROVE BoardInv
    OBVIOUS
  <1>2. boardRun = [f \in BoardFields |-> boardRun[f]] /\ boardRun.at = "idle" /\ boardRun.date = 1 /\ boardRun.roster = {}
    BY <1>1 DEF Leaderboard!Init, Leaderboard!Idle, BoardFields
  <1>3. BoardRunOK(boardRun)
    BY <1>2, BoardLimits DEF BoardRunOK
  <1>4. BoardTypes /\ AnswersOK
    BY <1>1, BoardLimits DEF BoardTypes, AnswersOK, Leaderboard!Init
  <1>5. \A d \in Dates : results[d] = <<>>
    BY <1>1 DEF Leaderboard!Init
  <1>6. QED
    BY <1>3, <1>4, <1>5 DEF BoardInv

LEMMA StepLeaderboardStart == ASSUME BoardInv, NEW d \in Dates, Leaderboard!Start(d) PROVE BoardInv'
  <1>1. UNCHANGED <<today, snapshots, results, answers, lost>> /\ boardRun.at \in {"idle", "over"}
    BY DEF Leaderboard!Start
  <1>2. PICK roster \in Rosters :
            LET missing == roster \ DOMAIN snapshots[d] IN
            boardRun' = [Leaderboard!Idle EXCEPT !.at = IF missing = {} THEN "build" ELSE "ask", !.date = d, !.roster = roster,
                            !.existing = snapshots[d], !.todo = missing]
    BY DEF Leaderboard!Start
  <1>3. /\ boardRun' = [f \in BoardFields |-> boardRun'[f]]
        /\ boardRun'.at \in {"build", "ask"} /\ boardRun'.date = d /\ boardRun'.roster = roster
        /\ boardRun'.existing = snapshots[d] /\ boardRun'.todo = roster \ DOMAIN snapshots[d]
        /\ boardRun'.skipped = {} /\ DOMAIN boardRun'.found = {}
    <2> DEFINE t == boardRun'
    <2>1. /\ t = [f \in BoardFields |-> t[f]]
          /\ t.at \in {"build", "ask"} /\ t.date = d /\ t.roster = roster
          /\ t.existing = snapshots[d] /\ t.todo = roster \ DOMAIN snapshots[d]
          /\ t.skipped = {} /\ t.found = <<>>
      BY <1>2 DEF Leaderboard!Idle, BoardFields
    <2>2. DOMAIN <<>> = {}
      OBVIOUS
    <2>3. QED
      BY <2>1, <2>2
  <1>4. roster \subseteq BoardCreators
    BY BoardLimits
  <1>5. Collecting(boardRun)'
    BY <1>1, <1>3, <1>4 DEF Collecting, Parted
  <1>6. BoardRunOK(boardRun)'
    BY <1>3, <1>4, <1>5 DEF BoardRunOK
  <1>7. BoardTypes' /\ AnswersOK'
    BY <1>1 DEF BoardInv, BoardTypes, AnswersOK, InHand, Leaderboard!Rows
  <1>8. SnapshotsGrow
    BY <1>1 DEF SnapshotsGrow
  <1>9. \A e \in Dates : results'[e] # <<>> => ResultOK(results[e], e)'
    BY <1>1, <1>8, ResultStands DEF BoardInv
  <1>10. QED
    BY <1>6, <1>7, <1>9 DEF BoardInv

\* Deciding what comes after a batch moves no answer.
LEMMA BatchEnds ==
    ASSUME NEW s, s = [f \in BoardFields |-> s[f]], s.at = "ask", Parted(s)
    PROVE  LET t == Leaderboard!AfterBatch(s)
           IN  /\ t = [f \in BoardFields |-> t[f]] /\ Parted(t)
               /\ t.at \in {"ask", "write", "build"} /\ (t.at = "build" => DOMAIN t.found = {})
               /\ t.date = s.date /\ t.roster = s.roster /\ t.existing = s.existing /\ t.found = s.found
  BY DEF Leaderboard!AfterBatch, Leaderboard!Collected, Parted, BoardFields

LEMMA QuotaEnds ==
    ASSUME NEW s, s = [f \in BoardFields |-> s[f]], s.at = "ask", Parted(s)
    PROVE  LET t == Leaderboard!Quota(s)
           IN  /\ t = [f \in BoardFields |-> t[f]] /\ Parted(t)
               /\ t.at \in {"ask", "write", "build"} /\ (t.at = "build" => DOMAIN t.found = {})
               /\ t.date = s.date /\ t.roster = s.roster /\ t.existing = s.existing /\ t.found = s.found
  BY DEF Leaderboard!Quota, Leaderboard!Collected, Parted, BoardFields

LEMMA AnsweredOK ==
    ASSUME NEW s, s = [f \in BoardFields |-> s[f]], s.at = "ask", Parted(s),
           NEW value, DOMAIN value \subseteq Leaderboard!Batch(s)
    PROVE  LET t == Leaderboard!Answered(s, value)
           IN  /\ t = [f \in BoardFields |-> t[f]] /\ Parted(t) /\ t.at = "ask"
               /\ t.date = s.date /\ t.roster = s.roster /\ t.existing = s.existing
               /\ DOMAIN t.found = DOMAIN value \cup DOMAIN s.found
               /\ \A c \in DOMAIN value : t.found[c] = value[c]
               /\ \A c \in DOMAIN s.found : t.found[c] = s.found[c]
  <1> DEFINE t == Leaderboard!Answered(s, value)
  <1>1. Leaderboard!Batch(s) \subseteq s.todo
    BY DEF Leaderboard!Batch
  <1>2. /\ t = [f \in BoardFields |-> t[f]] /\ t.at = "ask"
        /\ t.date = s.date /\ t.roster = s.roster /\ t.existing = s.existing
        /\ t.todo = s.todo \ Leaderboard!Batch(s) /\ t.found = Leaderboard!Joined(value, s.found)
        /\ t.skipped = s.skipped \cup (Leaderboard!Batch(s) \ DOMAIN value)
    BY DEF Leaderboard!Answered, BoardFields
  <1>3. /\ DOMAIN t.found = DOMAIN value \cup DOMAIN s.found
        /\ \A c \in DOMAIN value : t.found[c] = value[c]
        /\ \A c \in DOMAIN s.found : c \notin DOMAIN value => t.found[c] = s.found[c]
    BY <1>2 DEF Leaderboard!Joined
  <1>4. DOMAIN value \cap DOMAIN s.found = {}
    BY <1>1 DEF Parted
  <1> HIDE DEF t
  <1>5. Parted(t)
    BY <1>1, <1>2, <1>3 DEF Parted
  <1>6. QED
    BY <1>2, <1>3, <1>4, <1>5 DEF t

Told(value) == {<<c, value[c]>> : c \in DOMAIN value}

\* An execution that goes on with the answers it has, and those it was told.
LEMMA AsksOn ==
    ASSUME BoardInv, boardRun.at = "ask", UNCHANGED <<today, snapshots, results, lost>>,
           NEW value, DOMAIN value \subseteq BoardCreators, \A c \in DOMAIN value : value[c] \in Leaderboard!Values,
           answers' = [d \in Dates |-> answers'[d]], answers'[boardRun.date] = answers[boardRun.date] \cup Told(value),
           \A d \in Dates : d # boardRun.date => answers'[d] = answers[d],
           boardRun' = [f \in BoardFields |-> boardRun'[f]], Parted(boardRun'),
           boardRun'.at \in {"ask", "write", "build"}, boardRun'.at = "build" => DOMAIN boardRun'.found = {},
           boardRun'.date = boardRun.date, boardRun'.roster = boardRun.roster, boardRun'.existing = boardRun.existing,
           DOMAIN boardRun'.found = DOMAIN value \cup DOMAIN boardRun.found,
           \A c \in DOMAIN value : boardRun'.found[c] = value[c],
           \A c \in DOMAIN boardRun.found : boardRun'.found[c] = boardRun.found[c]
    PROVE  BoardInv'
  <1> DEFINE now == boardRun.date
  <1>1. BoardTypes /\ BoardRunOK(boardRun) /\ AnswersOK /\ Collecting(boardRun) /\ now \in Dates
    BY DEF BoardInv, BoardRunOK
  <1>2. /\ answers'[now] = answers[now] \cup {<<c, value[c]>> : c \in DOMAIN value}
        /\ \A d \in Dates : d # now => answers'[d] = answers[d]
    BY DEF Told
  <1>3. Collecting(boardRun)'
    <2>1. \A c \in DOMAIN boardRun'.found : boardRun'.found[c] \in Leaderboard!Values /\ <<c, boardRun'.found[c]>> \in answers'[now]
      <3>1. ASSUME NEW c \in DOMAIN value PROVE boardRun'.found[c] \in Leaderboard!Values /\ <<c, boardRun'.found[c]>> \in answers'[now]
        BY <1>2
      <3>2. ASSUME NEW c \in DOMAIN boardRun.found
            PROVE  boardRun'.found[c] \in Leaderboard!Values /\ <<c, boardRun'.found[c]>> \in answers'[now]
        BY <1>1, <1>2 DEF Collecting
      <3>3. QED
        BY <3>1, <3>2
    <2>2. Parted(boardRun)'
      BY DEF Parted
    <2>3. boardRun'.existing = snapshots'[boardRun'.date]
      BY <1>1 DEF Collecting
    <2>4. QED
      BY <2>1, <2>2, <2>3 DEF Collecting
  <1>4. BoardRunOK(boardRun)'
    BY <1>1, <1>3 DEF BoardRunOK
  <1>5. BoardTypes'
    BY <1>1, <1>2 DEF BoardTypes
  <1>6. ASSUME NEW d \in Dates, NEW a \in answers'[d]
        PROVE  a \in Leaderboard!Rows(d)' \/ <<d, a>> \in lost' \/ InHand(d, a)'
    <2>1. Leaderboard!Rows(d)' = Leaderboard!Rows(d)
      BY DEF Leaderboard!Rows
    <2>2. ASSUME NEW c \in DOMAIN boardRun'.found, a = <<c, boardRun'.found[c]>>, d = now PROVE InHand(d, a)'
      BY <2>2 DEF InHand
    <2>3. CASE a \in answers[d]
      <3>1. CASE InHand(d, a)
        <4>1. PICK c \in DOMAIN boardRun.found : a = <<c, boardRun.found[c]>> /\ d = now
          BY <3>1 DEF InHand
        <4>2. QED
          BY <2>2, <4>1
      <3>2. QED
        BY <1>1, <2>1, <2>3, <3>1 DEF AnswersOK
    <2>4. CASE a \notin answers[d]
      <3>1. PICK c \in DOMAIN value : a = <<c, value[c]>> /\ d = now
        BY <1>2, <2>4
      <3>2. QED
        BY <2>2, <3>1
    <2>5. QED
      BY <2>3, <2>4
  <1>7. ASSUME NEW d \in Dates, NEW c \in DOMAIN snapshots'[d] PROVE <<c, snapshots'[d][c]>> \in answers'[d]
    BY <1>1, <1>2 DEF AnswersOK
  <1>8. AnswersOK'
    BY <1>6, <1>7 DEF AnswersOK
  <1>9. SnapshotsGrow
    BY DEF SnapshotsGrow
  <1>10. \A d \in Dates : results'[d] # <<>> => ResultOK(results[d], d)'
    BY <1>9, ResultStands DEF BoardInv
  <1>11. QED
    BY <1>4, <1>5, <1>8, <1>10 DEF BoardInv

LEMMA StepGetChannelStatistics == ASSUME BoardInv, Leaderboard!GetChannelStatistics PROVE BoardInv'
  <1>1. boardRun.at = "ask" /\ UNCHANGED <<today, snapshots, results, lost>>
    BY DEF Leaderboard!GetChannelStatistics
  <1>2. BoardTypes /\ boardRun = [f \in BoardFields |-> boardRun[f]] /\ Parted(boardRun) /\ boardRun.date \in Dates
    BY <1>1 DEF BoardInv, BoardRunOK, Collecting
  <1>3. Leaderboard!Batch(boardRun) \subseteq BoardCreators
    BY <1>2 DEF Leaderboard!Batch, Parted
  <1> DEFINE none == [c \in {} |-> Hidden]
  <1>4. DOMAIN none = {} /\ Told(none) = {} /\ DOMAIN <<>> = {}
    BY DEF Told
  <1>5. ASSUME UNCHANGED answers
        PROVE  /\ answers' = [d \in Dates |-> answers'[d]] /\ answers'[boardRun.date] = answers[boardRun.date] \cup Told(none)
               /\ \A d \in Dates : answers'[d] = answers[d]
    BY <1>2, <1>4, <1>5 DEF BoardTypes
  <1> HIDE DEF none
  <1>6. CASE \E told \in SUBSET Leaderboard!Batch(boardRun) : \E value \in [told -> Leaderboard!Values] :
                /\ boardRun' = Leaderboard!AfterBatch(Leaderboard!Answered(boardRun, value))
                /\ answers' = [answers EXCEPT ![boardRun.date] = @ \cup {<<c, value[c]>> : c \in told}]
    <2>1. PICK told \in SUBSET Leaderboard!Batch(boardRun) : \E value \in [told -> Leaderboard!Values] :
                /\ boardRun' = Leaderboard!AfterBatch(Leaderboard!Answered(boardRun, value))
                /\ answers' = [answers EXCEPT ![boardRun.date] = @ \cup {<<c, value[c]>> : c \in told}]
      BY <1>6
    <2>2. PICK value \in [told -> Leaderboard!Values] :
                /\ boardRun' = Leaderboard!AfterBatch(Leaderboard!Answered(boardRun, value))
                /\ answers' = [answers EXCEPT ![boardRun.date] = @ \cup {<<c, value[c]>> : c \in told}]
      BY <2>1
    <2> DEFINE s == Leaderboard!Answered(boardRun, value)
    <2>3. DOMAIN value = told /\ \A c \in told : value[c] \in Leaderboard!Values
      OBVIOUS
    <2>4. /\ answers' = [d \in Dates |-> answers'[d]] /\ answers'[boardRun.date] = answers[boardRun.date] \cup Told(value)
          /\ \A d \in Dates : d # boardRun.date => answers'[d] = answers[d]
      BY <1>2, <2>2, <2>3 DEF BoardTypes, Told
    <2>5. /\ s = [f \in BoardFields |-> s[f]] /\ Parted(s) /\ s.at = "ask"
          /\ s.date = boardRun.date /\ s.roster = boardRun.roster /\ s.existing = boardRun.existing
          /\ DOMAIN s.found = told \cup DOMAIN boardRun.found
          /\ \A c \in told : s.found[c] = value[c]
          /\ \A c \in DOMAIN boardRun.found : s.found[c] = boardRun.found[c]
      BY <1>1, <1>2, <2>3, AnsweredOK
    <2> HIDE DEF s
    <2>6. boardRun' = Leaderboard!AfterBatch(s)
      BY <2>2 DEF s
    <2>7. /\ boardRun' = [f \in BoardFields |-> boardRun'[f]] /\ Parted(boardRun')
          /\ boardRun'.at \in {"ask", "write", "build"} /\ (boardRun'.at = "build" => DOMAIN boardRun'.found = {})
          /\ boardRun'.date = s.date /\ boardRun'.roster = s.roster
          /\ boardRun'.existing = s.existing /\ boardRun'.found = s.found
      BY <2>5, <2>6, BatchEnds
    <2>8. told \in SUBSET BoardCreators
      BY <1>3
    <2>9. QED
      BY <1>1, <2>3, <2>5, <2>7, <2>8, <2>4, AsksOn
  <1>7. CASE UNCHANGED answers /\ boardRun' = Leaderboard!Quota(boardRun)
    <2>1. /\ boardRun' = [f \in BoardFields |-> boardRun'[f]] /\ Parted(boardRun')
          /\ boardRun'.at \in {"ask", "write", "build"} /\ (boardRun'.at = "build" => DOMAIN boardRun'.found = {})
          /\ boardRun'.date = boardRun.date /\ boardRun'.roster = boardRun.roster
          /\ boardRun'.existing = boardRun.existing /\ boardRun'.found = boardRun.found
      BY <1>1, <1>2, <1>7, QuotaEnds
    <2>2. QED
      BY <1>1, <1>4, <1>5, <1>7, <2>1, AsksOn
  <1>8. CASE UNCHANGED answers /\ boardRun' = Leaderboard!AfterBatch(Leaderboard!Answered(boardRun, <<>>))
    <2> DEFINE s == Leaderboard!Answered(boardRun, <<>>)
    <2>1. DOMAIN <<>> \subseteq Leaderboard!Batch(boardRun)
      BY <1>4
    <2>2. /\ s = [f \in BoardFields |-> s[f]] /\ Parted(s) /\ s.at = "ask"
          /\ s.date = boardRun.date /\ s.roster = boardRun.roster /\ s.existing = boardRun.existing
          /\ DOMAIN s.found = DOMAIN <<>> \cup DOMAIN boardRun.found
          /\ \A c \in DOMAIN boardRun.found : s.found[c] = boardRun.found[c]
      BY <1>1, <1>2, <2>1, AnsweredOK
    <2>3. DOMAIN s.found = DOMAIN none \cup DOMAIN boardRun.found
      BY <1>4, <2>2
    <2> HIDE DEF s
    <2>4. boardRun' = Leaderboard!AfterBatch(s)
      BY <1>8 DEF s
    <2>5. /\ boardRun' = [f \in BoardFields |-> boardRun'[f]] /\ Parted(boardRun')
          /\ boardRun'.at \in {"ask", "write", "build"} /\ (boardRun'.at = "build" => DOMAIN boardRun'.found = {})
          /\ boardRun'.date = s.date /\ boardRun'.roster = s.roster
          /\ boardRun'.existing = s.existing /\ boardRun'.found = s.found
      BY <2>2, <2>4, BatchEnds
    <2>6. QED
      BY <1>1, <1>4, <1>5, <1>8, <2>3, <2>5, <2>2, AsksOn
  <1>9. QED
    BY <1>6, <1>7, <1>8 DEF Leaderboard!GetChannelStatistics

\* What a result says of the snapshots changes only with them.
LEMMA SnapshotsStay ==
    ASSUME UNCHANGED snapshots
    PROVE  /\ \A x, d : ResultOK(x, d) <=> ResultOK(x, d)'
           /\ \A x, d, roster : Covers(x, d, roster) <=> Covers(x, d, roster)'
  <1>1. \A x, d, k : RowOK(x, d, k) <=> RowOK(x, d, k)'
    BY DEF RowOK
  <1>2. \A x, d, k : SectionOK(x, d, k) <=> SectionOK(x, d, k)'
    BY <1>1 DEF SectionOK
  <1>3. \A x, d : ResultOK(x, d) <=> ResultOK(x, d)'
    BY <1>2 DEF ResultOK
  <1>4. \A x, d, roster : Covers(x, d, roster) <=> Covers(x, d, roster)'
    BY DEF Covers
  <1>5. QED
    BY <1>3, <1>4

\* A step that writes no snapshot and hears no answer.
LEMMA BoardMoves ==
    ASSUME BoardInv, UNCHANGED <<snapshots, answers, lost>>, today' \in Dates,
           boardRun.at \notin {"ask", "write"}, BoardRunOK(boardRun)',
           results' = [d \in Dates |-> results'[d]], \A d \in Dates : results'[d] # <<>> => ResultOK(results'[d], d)
    PROVE  BoardInv'
  <1>1. BoardTypes' /\ AnswersOK'
    BY DEF BoardInv, BoardTypes, AnswersOK, InHand, Leaderboard!Rows
  <1>2. SnapshotsGrow
    BY DEF SnapshotsGrow
  <1>3. ASSUME NEW d \in Dates, results'[d] # <<>> PROVE ResultOK(results[d], d)'
    <2>1. ResultOK(results'[d], d)
      BY <1>3
    <2>2. QED
      BY <1>2, <2>1, ResultStands
  <1>4. QED
    BY <1>1, <1>3 DEF BoardInv

\* An execution that is over, as the lock is released.
LEMMA OverShape ==
    ASSUME NEW s
    PROVE  /\ LET t == Leaderboard!Over(s) IN
              t = [f \in BoardFields |-> t[f]] /\ t.at = "over" /\ t.date = s.date /\ t.roster = s.roster /\ t.failed = s.failed
           /\ s = [f \in BoardFields |-> s[f]] =>
              LET t == Leaderboard!Failed(s) IN
              t = [f \in BoardFields |-> t[f]] /\ t.at = "over" /\ t.date = s.date /\ t.roster = s.roster /\ t.failed = TRUE
  BY DEF Leaderboard!Over, Leaderboard!Failed, Leaderboard!Idle, BoardFields

LEMMA StepWriteDailySnapshot == ASSUME BoardInv, Leaderboard!WriteDailySnapshot PROVE BoardInv'
  <1> DEFINE now == boardRun.date
             whole == Leaderboard!Joined(boardRun.existing, boardRun.found)
             write == snapshots' = [snapshots EXCEPT ![now] = whole]
  <1>1. boardRun.at = "write" /\ UNCHANGED <<today, results, answers>>
    BY DEF Leaderboard!WriteDailySnapshot
  <1>2. /\ BoardTypes /\ AnswersOK /\ Collecting(boardRun) /\ now \in Dates
        /\ boardRun = [f \in BoardFields |-> boardRun[f]] /\ boardRun.roster \in SUBSET BoardCreators
    BY <1>1 DEF BoardInv, BoardRunOK
  <1>3. /\ DOMAIN whole = DOMAIN snapshots[now] \cup DOMAIN boardRun.found
        /\ \A c \in DOMAIN snapshots[now] : whole[c] = snapshots[now][c]
        /\ \A c \in DOMAIN boardRun.found : whole[c] = boardRun.found[c]
    BY <1>2 DEF Leaderboard!Joined, Collecting, Parted
  <1> HIDE DEF whole
  <1>4. ASSUME write
        PROVE  /\ snapshots' = [d \in Dates |-> snapshots'[d]] /\ snapshots'[now] = whole
               /\ \A d \in Dates : d # now => snapshots'[d] = snapshots[d]
    BY <1>2, <1>4 DEF BoardTypes
  <1>5. SnapshotsGrow
    <2>1. write \/ UNCHANGED snapshots
      BY DEF Leaderboard!WriteDailySnapshot, whole
    <2>2. CASE write
      BY <1>3, <1>4, <2>2 DEF SnapshotsGrow
    <2>3. CASE UNCHANGED snapshots
      BY <2>3 DEF SnapshotsGrow
    <2>4. QED
      BY <2>1, <2>2, <2>3
  <1>6. \A d \in Dates : results'[d] # <<>> => ResultOK(results[d], d)'
    BY <1>1, <1>5, ResultStands DEF BoardInv
  <1>7. ASSUME write PROVE BoardTypes' /\ \A d \in Dates : \A c \in DOMAIN snapshots'[d] : <<c, snapshots'[d][c]>> \in answers'[d]
    <2>1. ASSUME NEW c \in DOMAIN whole PROVE c \in BoardCreators /\ whole[c] \in Leaderboard!Values /\ <<c, whole[c]>> \in answers[now]
      BY <1>2, <1>3 DEF BoardTypes, AnswersOK, Collecting, Parted
    <2>2. QED
      BY <1>1, <1>2, <1>4, <1>7, <2>1 DEF BoardTypes, AnswersOK
  <1>8. ASSUME NEW d \in Dates, NEW a \in answers[d], a \notin Leaderboard!Rows(d), <<d, a>> \notin lost
        PROVE  d = now /\ \E c \in DOMAIN boardRun.found : a = <<c, boardRun.found[c]>>
    BY <1>2, <1>8 DEF AnswersOK, InHand
  <1>9. CASE write /\ boardRun' = [boardRun EXCEPT !.at = "build"] /\ UNCHANGED lost
    <2>1. ASSUME NEW d \in Dates, NEW a \in answers'[d] PROVE a \in Leaderboard!Rows(d)' \/ <<d, a>> \in lost'
      <3>1. a \in Leaderboard!Rows(d) => a \in Leaderboard!Rows(d)'
        BY <1>5 DEF SnapshotsGrow, Leaderboard!Rows
      <3>2. ASSUME d = now, NEW c \in DOMAIN boardRun.found, a = <<c, boardRun.found[c]>> PROVE a \in Leaderboard!Rows(d)'
        BY <1>3, <1>4, <1>9, <3>2 DEF Leaderboard!Rows
      <3>3. QED
        BY <1>1, <1>8, <1>9, <3>1, <3>2
    <2>2. AnswersOK'
      BY <1>7, <1>9, <2>1 DEF AnswersOK
    <2>3. BoardRunOK(boardRun)'
      BY <1>2, <1>9 DEF BoardRunOK, BoardFields
    <2>4. QED
      BY <1>6, <1>7, <1>9, <2>2, <2>3 DEF BoardInv
  <1>10. CASE /\ UNCHANGED snapshots \/ write
              /\ boardRun' = Leaderboard!Failed(boardRun)
              /\ lost' = lost \cup ({now} \X {<<c, boardRun.found[c]>> : c \in DOMAIN boardRun.found})
    <2>1. ASSUME NEW d \in Dates, NEW a \in answers'[d] PROVE a \in Leaderboard!Rows(d)' \/ <<d, a>> \in lost'
      <3>1. a \in Leaderboard!Rows(d) => a \in Leaderboard!Rows(d)'
        BY <1>5 DEF SnapshotsGrow, Leaderboard!Rows
      <3>2. ASSUME d = now, NEW c \in DOMAIN boardRun.found, a = <<c, boardRun.found[c]>> PROVE <<d, a>> \in lost'
        BY <1>10, <3>2
      <3>3. QED
        BY <1>1, <1>8, <1>10, <3>1, <3>2
    <2>2. \A d \in Dates : \A c \in DOMAIN snapshots'[d] : <<c, snapshots'[d][c]>> \in answers'[d]
      BY <1>1, <1>2, <1>7, <1>10 DEF AnswersOK
    <2>3. AnswersOK'
      BY <2>1, <2>2 DEF AnswersOK
    <2>4. BoardTypes'
      <3>1. CASE write
        BY <1>7, <3>1
      <3>2. CASE UNCHANGED snapshots
        BY <1>1, <1>2, <3>2 DEF BoardTypes
      <3>3. QED
        BY <1>10, <3>1, <3>2
    <2>5. /\ boardRun' = [f \in BoardFields |-> boardRun'[f]] /\ boardRun'.at = "over" /\ boardRun'.failed = TRUE
          /\ boardRun'.date = boardRun.date /\ boardRun'.roster = boardRun.roster
      BY <1>2, <1>10, OverShape
    <2>6. BoardRunOK(boardRun)'
      BY <1>2, <2>5 DEF BoardRunOK
    <2>7. QED
      BY <1>6, <2>3, <2>4, <2>6 DEF BoardInv
  <1>11. QED
    BY <1>9, <1>10 DEF Leaderboard!WriteDailySnapshot, whole

LEMMA StepBuild == ASSUME BoardInv, Leaderboard!Build PROVE BoardInv'
  <1> DEFINE built == Leaderboard!BuildSubscriberLeaderboards(boardRun)
  <1>1. boardRun.at = "build" /\ UNCHANGED <<today, snapshots, results, answers, lost>>
    BY DEF Leaderboard!Build
  <1>2. /\ BoardTypes /\ boardRun.date \in Dates
        /\ boardRun = [f \in BoardFields |-> boardRun[f]] /\ boardRun.roster \in SUBSET BoardCreators
    BY DEF BoardInv, BoardRunOK
  <1>3. ResultOK(built, boardRun.date) /\ Covers(built, boardRun.date, boardRun.roster)
    BY <1>2, BuildOK
  <1>4. BoardRunOK(boardRun') /\ boardRun'.at \in {"over", "put"}
    <2> HIDE DEF built
    <2>1. CASE boardRun' = Leaderboard!Failed(boardRun)
      <3>1. /\ boardRun' = [f \in BoardFields |-> boardRun'[f]] /\ boardRun'.at = "over" /\ boardRun'.failed = TRUE
            /\ boardRun'.date = boardRun.date /\ boardRun'.roster = boardRun.roster
        BY <1>2, <2>1, OverShape
      <3>2. QED
        BY <1>2, <3>1 DEF BoardRunOK
    <2>2. CASE built[0].rows = <<>> /\ boardRun' = Leaderboard!Over(boardRun)
      <3>1. /\ boardRun' = [f \in BoardFields |-> boardRun'[f]] /\ boardRun'.at = "over"
            /\ boardRun'.date = boardRun.date /\ boardRun'.roster = boardRun.roster
        BY <2>2, OverShape
      <3>2. DOMAIN built[0].rows = {}
        BY <2>2
      <3>3. \A x : Covers(x, boardRun.date, boardRun.roster)
        BY <1>3, <3>2 DEF Covers
      <3>4. QED
        BY <1>2, <3>1, <3>3 DEF BoardRunOK
    <2>3. CASE boardRun' = [boardRun EXCEPT !.at = "put", !.build = built]
      <3>1. /\ boardRun' = [f \in BoardFields |-> boardRun'[f]] /\ boardRun'.at = "put" /\ boardRun'.build = built
            /\ boardRun'.date = boardRun.date /\ boardRun'.roster = boardRun.roster
        BY <1>2, <2>3 DEF BoardFields
      <3>2. QED
        BY <1>2, <1>3, <3>1 DEF BoardRunOK
    <2>4. QED
      BY <2>1, <2>2, <2>3 DEF Leaderboard!Build, built
  <1>5. BoardRunOK(boardRun)'
    BY <1>1, <1>4, SnapshotsStay DEF BoardRunOK
  <1>6. QED
    BY <1>1, <1>2, <1>5, BoardMoves DEF BoardInv, BoardTypes

LEMMA StepWriteResult == ASSUME BoardInv, Leaderboard!WriteResult PROVE BoardInv'
  <1>1. boardRun.at = "put" /\ UNCHANGED <<today, snapshots, answers, lost>>
    BY DEF Leaderboard!WriteResult
  <1>2. /\ BoardTypes /\ boardRun.date \in Dates
        /\ boardRun = [f \in BoardFields |-> boardRun[f]] /\ boardRun.roster \in SUBSET BoardCreators
        /\ ResultOK(boardRun.build, boardRun.date) /\ Covers(boardRun.build, boardRun.date, boardRun.roster)
    BY <1>1 DEF BoardInv, BoardRunOK
  <1>3. CASE UNCHANGED results /\ boardRun' = Leaderboard!Failed(boardRun)
    <2>1. /\ boardRun' = [f \in BoardFields |-> boardRun'[f]] /\ boardRun'.at = "over" /\ boardRun'.failed = TRUE
          /\ boardRun'.date = boardRun.date /\ boardRun'.roster = boardRun.roster
      BY <1>2, <1>3, OverShape
    <2>2. BoardRunOK(boardRun)'
      BY <1>2, <2>1 DEF BoardRunOK
    <2>3. QED
      BY <1>1, <1>3, <2>2, BoardMoves DEF BoardInv, BoardTypes
  <1>4. CASE results' = [results EXCEPT ![boardRun.date] = boardRun.build] /\ boardRun' = Leaderboard!Over(boardRun)
    <2>1. /\ boardRun' = [f \in BoardFields |-> boardRun'[f]] /\ boardRun'.at = "over"
          /\ boardRun'.date = boardRun.date /\ boardRun'.roster = boardRun.roster
      BY <1>4, OverShape
    <2>2. /\ results' = [d \in Dates |-> results'[d]] /\ results'[boardRun.date] = boardRun.build
          /\ \A d \in Dates : d # boardRun.date => results'[d] = results[d]
      BY <1>2, <1>4 DEF BoardTypes
    <2>3. Covers(results[boardRun.date], boardRun.date, boardRun.roster)'
      <3>1. results'[boardRun'.date] = boardRun.build
        BY <2>1, <2>2
      <3>2. QED
        BY <1>1, <1>2, <2>1, <3>1, SnapshotsStay
    <2>4. BoardRunOK(boardRun)'
      BY <1>2, <2>1, <2>3 DEF BoardRunOK
    <2>5. \A d \in Dates : results'[d] # <<>> => ResultOK(results'[d], d)
      BY <1>2, <2>2 DEF BoardInv
    <2>6. QED
      BY <1>1, <1>2, <2>2, <2>4, <2>5, BoardMoves DEF BoardTypes
  <1>5. QED
    BY <1>3, <1>4 DEF Leaderboard!WriteResult

LEMMA StepTick == ASSUME BoardInv, Leaderboard!Tick PROVE BoardInv'
  <1>1. UNCHANGED <<snapshots, results, boardRun, answers, lost>> /\ today' \in Dates /\ boardRun.at \in {"idle", "over"}
    BY DEF Leaderboard!Tick
  <1>2. BoardRunOK(boardRun)'
    <2>1. BoardRunOK(boardRun)
      BY DEF BoardInv
    <2>2. Covers(results[boardRun.date], boardRun.date, boardRun.roster)
            => Covers(results[boardRun.date], boardRun.date, boardRun.roster)'
      BY <1>1 DEF Covers
    <2>3. QED
      BY <1>1, <2>1, <2>2 DEF BoardRunOK
  <1>3. QED
    BY <1>1, <1>2, BoardMoves DEF BoardInv, BoardTypes

LEMMA StepBoard == ASSUME BoardInv, Leaderboard!Next PROVE BoardInv'
  BY StepLeaderboardStart, StepGetChannelStatistics, StepWriteDailySnapshot, StepBuild, StepWriteResult, StepTick
  DEF Leaderboard!Next

-----------------------------------------------------------------------------
(* What the invariant says of the leaderboards *)

LEMMA GreatestExists ==
    ASSUME NEW S \in SUBSET Nat, S # {}, NEW bound \in Nat, \A d \in S : d <= bound
    PROVE  \E g \in S : \A d \in S : g >= d
  <1> DEFINE T == {bound - d : d \in S}
  <1>0. \A d \in S : d \in Nat /\ bound - d \in Nat
    OBVIOUS
  <1>1. T \in SUBSET Nat /\ T # {}
    BY <1>0
  <1>2. PICK n \in T : \A m \in T : <<m, n>> \notin OpToRel(<, Nat)
    <2> HIDE DEF T
    <2>1. QED
      BY <1>1, NatLessThanWellFounded, WFMin
  <1>3. \A m \in T : ~(m < n)
    BY <1>1, <1>2 DEF OpToRel
  <1>4. PICK g \in S : n = bound - g
    OBVIOUS
  <1>5. ASSUME NEW d \in S PROVE g >= d
    <2>1. bound - d \in T
      OBVIOUS
    <2>2. ~(bound - d < n)
      BY <1>3, <2>1
    <2>3. d \in Nat /\ g \in Nat /\ n = bound - g
      BY <1>4
    <2> HIDE DEF T
    <2>4. QED
      BY <2>2, <2>3
  <1>6. QED
    BY <1>5

LEMMA AheadIsBefore ==
    ASSUME NEW rows, InOrder(rows), NEW i \in DOMAIN rows, NEW j \in DOMAIN rows
    PROVE  /\ i \in Nat /\ j \in Nat
           /\ Ahead(rows[j], rows[i]) <=> j < i
           /\ rows[i].creator = rows[j].creator => i = j
  <1>1. PICK n \in Nat : rows \in [1..n -> [creator : BoardCreators, value : Int]]
    BY DEF InOrder
  <1>2. i \in 1..n /\ j \in 1..n
    BY <1>1
  <1>3. rows[i].creator \in Int /\ rows[i].value \in Int /\ rows[j].creator \in Int /\ rows[j].value \in Int
    BY <1>1, <1>2, BoardLimits
  <1>4. (i < j => Ahead(rows[i], rows[j])) /\ (j < i => Ahead(rows[j], rows[i]))
    BY DEF InOrder
  <1>5. ~(Ahead(rows[i], rows[j]) /\ Ahead(rows[j], rows[i])) /\ ~Ahead(rows[i], rows[i])
    BY <1>3 DEF Ahead
  <1>6. QED
    BY <1>2, <1>4, <1>5 DEF InOrder

\* The rank a reader sees is one more than the number of rows shown that are ahead.
LEMMA RankCountsAhead ==
    ASSUME NEW rows, InOrder(rows), NEW organization, NEW x \in Leaderboard!FilterByOrganization(rows, organization)
    PROVE  x.rank = Cardinality({y \in Leaderboard!FilterByOrganization(rows, organization) : Ahead(y.row, x.row)}) + 1
  <1> DEFINE kept == {i \in DOMAIN rows : organization = "all" \/ Org[rows[i].creator] = organization}
             UpTo(i) == {j \in kept : j <= i}
             Shown(i) == [rank |-> Cardinality(UpTo(i)), row |-> rows[i]]
             shown == {Shown(i) : i \in kept}
  <1>1. Leaderboard!FilterByOrganization(rows, organization) = shown
    BY SameSize DEF Leaderboard!FilterByOrganization
  <1>2. PICK i \in kept : x = Shown(i)
    BY <1>1
  <1> DEFINE sooner == {j \in kept : j < i}
             ahead == {y \in shown : Ahead(y.row, x.row)}
             f == [j \in sooner |-> Shown(j)]
  <1>3. kept \subseteq DOMAIN rows /\ kept \subseteq Nat /\ UpTo(i) \subseteq Nat
    BY AheadIsBefore
  <1>4. IsFiniteSet(UpTo(i))
    <2>1. i \in Nat /\ UpTo(i) \in SUBSET Nat /\ \A j \in UpTo(i) : j <= i
      BY <1>3
    <2> HIDE DEF UpTo
    <2>2. QED
      BY <2>1, FS_BoundedSetOfNaturals
  <1>5. sooner = UpTo(i) \ {i} /\ i \in UpTo(i)
    BY <1>3
  <1>6. IsFiniteSet(sooner) /\ Cardinality(sooner) = Cardinality(UpTo(i)) - 1
    <2> HIDE DEF UpTo, sooner
    <2>1. QED
      BY <1>4, <1>5, FS_RemoveElement
  <1>7. Cardinality(UpTo(i)) \in Nat
    BY <1>4, FS_CardinalityType
  <1>8. f \in Bijection(sooner, ahead)
    <2>1. \A j \in sooner : f[j] \in shown /\ f[j].row = rows[j]
      OBVIOUS
    <2>2. x.row = rows[i]
      BY <1>2
    <2>3. \A j \in kept : Ahead(rows[j], rows[i]) <=> j < i
      BY <1>3, AheadIsBefore
    <2>4. ASSUME NEW j \in sooner PROVE f[j] \in ahead
      BY <2>1, <2>2, <2>3
    <2>5. ASSUME NEW j \in sooner, NEW k \in sooner, f[j] = f[k] PROVE j = k
      <3>1. rows[j] = rows[k]
        BY <2>1, <2>5
      <3>2. QED
        BY <1>3, <3>1, AheadIsBefore
    <2>6. ASSUME NEW y \in ahead PROVE \E j \in sooner : f[j] = y
      <3>1. PICK j \in kept : y = Shown(j)
        OBVIOUS
      <3>2. Ahead(rows[j], rows[i])
        BY <2>2, <3>1
      <3>3. j \in sooner
        BY <2>3, <3>2
      <3>4. QED
        BY <3>1, <3>3
    <2>7. f = [j \in sooner |-> f[j]]
      OBVIOUS
    <2> HIDE DEF f, sooner, ahead
    <2>8. f \in [sooner -> ahead]
      BY <2>4, <2>7
    <2>9. QED
      BY <2>5, <2>6, <2>8 DEF Bijection, Injection, Surjection, IsInjective
  <1> HIDE DEF f, sooner
  <1>9. Cardinality(ahead) = Cardinality(sooner)
    <2>1. ExistsBijection(sooner, ahead)
      BY <1>8 DEF ExistsBijection
    <2> HIDE DEF ahead
    <2>2. QED
      BY <1>6, <2>1, FS_Bijection
  <1>10. x.rank = Cardinality(UpTo(i))
    BY <1>2
  <1> HIDE DEF UpTo
  <1>11. x.rank = Cardinality(ahead) + 1
    BY <1>6, <1>7, <1>9, <1>10
  <1>12. QED
    BY <1>1, <1>11

LEMMA ReadableNewest == ASSUME BoardInv, Leaderboard!Readable # {} PROVE Leaderboard!Max(Leaderboard!Readable) \in Leaderboard!Readable
  <1>1. Leaderboard!Readable \in SUBSET Nat /\ today \in Nat /\ \A d \in Leaderboard!Readable : d <= today
    BY BoardLimits DEF BoardInv, BoardTypes, Leaderboard!Readable
  <1>2. \E g \in Leaderboard!Readable : \A d \in Leaderboard!Readable : g >= d
    BY <1>1, GreatestExists
  <1>3. QED
    BY <1>2 DEF Leaderboard!Max

LEMMA RowsShown ==
    ASSUME NEW rows, NEW o
    PROVE  LET filtered == Leaderboard!FilterByOrganization(rows, o)
           IN  /\ \A y \in filtered : \E i \in DOMAIN rows : (o = "all" \/ Org[rows[i].creator] = o) /\ y.row = rows[i]
               /\ \A i \in DOMAIN rows : o = "all" \/ Org[rows[i].creator] = o => \E y \in filtered : y.row = rows[i]
  <1> DEFINE kept == {i \in DOMAIN rows : o = "all" \/ Org[rows[i].creator] = o}
             Shown(i) == [rank |-> Leaderboard!Cardinality({j \in kept : j <= i}), row |-> rows[i]]
  <1>1. Leaderboard!FilterByOrganization(rows, o) = {Shown(i) : i \in kept}
    BY DEF Leaderboard!FilterByOrganization
  <1>2. \A i : Shown(i).row = rows[i]
    OBVIOUS
  <1> HIDE DEF Shown
  <1>3. QED
    BY <1>1, <1>2

LEMMA RanksSound == ASSUME BoardInv PROVE Leaderboard!RanksAreRight
  <1>1. SUFFICES ASSUME Leaderboard!Readable # {}, NEW metric \in Anchors \cup {0},
                        NEW organization \in Leaderboard!ValidOrganizations \cup {"all"}
        PROVE  LET shown == Leaderboard!SubscriberLeaderboard(metric, organization) IN
               /\ \A x \in shown :
                     x.rank = Leaderboard!Cardinality({y \in shown :
                                 y.row.value > x.row.value \/ (y.row.value = x.row.value /\ y.row.creator < x.row.creator)}) + 1
               /\ organization = "all" =>
                     {x.row : x \in shown} = UNION {{x.row : x \in Leaderboard!SubscriberLeaderboard(metric, o)} :
                                                        o \in Leaderboard!ValidOrganizations}
    BY DEF Leaderboard!RanksAreRight
  <1> DEFINE newest == Leaderboard!Max(Leaderboard!Readable)
             rows == results[newest][metric].rows
             Filtered(o) == Leaderboard!FilterByOrganization(rows, o)
  <1>2. newest \in Dates /\ results[newest] # <<>>
    BY <1>1, ReadableNewest DEF Leaderboard!Readable
  <1>3. SectionOK(results[newest][metric], newest, metric)
    BY <1>1, <1>2 DEF BoardInv, ResultOK
  <1> HIDE DEF newest
  <1>4. InOrder(rows) /\ \A i \in DOMAIN rows : Org[rows[i].creator] \in Leaderboard!ValidOrganizations
    BY <1>3 DEF SectionOK, RowOK
  <1> HIDE DEF rows
  <1>5. ASSUME NEW x \in Filtered(organization)
        PROVE  x.rank = Leaderboard!Cardinality({y \in Filtered(organization) :
                            y.row.value > x.row.value \/ (y.row.value = x.row.value /\ y.row.creator < x.row.creator)}) + 1
    BY <1>4, RankCountsAhead, SameSize DEF Ahead
  <1>6. ASSUME organization = "all"
        PROVE  {x.row : x \in Filtered(organization)} = UNION {{x.row : x \in Filtered(o)} : o \in Leaderboard!ValidOrganizations}
    <2> DEFINE Of(o) == {x.row : x \in Filtered(o)}
    <2>1. \A o, x : x \in Of(o) <=> \E i \in DOMAIN rows : (o = "all" \/ Org[rows[i].creator] = o) /\ x = rows[i]
      <3>1. SUFFICES ASSUME NEW o, NEW x
            PROVE  x \in Of(o) <=> \E i \in DOMAIN rows : (o = "all" \/ Org[rows[i].creator] = o) /\ x = rows[i]
        OBVIOUS
      <3>2. x \in Of(o) <=> \E y \in Filtered(o) : x = y.row
        OBVIOUS
      <3>3. /\ \A y \in Filtered(o) : \E i \in DOMAIN rows : (o = "all" \/ Org[rows[i].creator] = o) /\ y.row = rows[i]
            /\ \A i \in DOMAIN rows : o = "all" \/ Org[rows[i].creator] = o => \E y \in Filtered(o) : y.row = rows[i]
        BY RowsShown
      <3> HIDE DEF Of, Filtered
      <3>4. QED
        BY <3>2, <3>3
    <2> HIDE DEF Of, Filtered
    <2>2. \A o \in Leaderboard!ValidOrganizations : o # "all"
      BY DEF Leaderboard!ValidOrganizations
    <2>3. \A x : x \in Of(organization) <=> \E o \in Leaderboard!ValidOrganizations : x \in Of(o)
      <3>1. ASSUME NEW x, NEW o \in Leaderboard!ValidOrganizations, x \in Of(o) PROVE x \in Of(organization)
        BY <1>6, <2>1, <3>1
      <3>2. ASSUME NEW x, x \in Of(organization) PROVE \E o \in Leaderboard!ValidOrganizations : x \in Of(o)
        <4>1. PICK i \in DOMAIN rows : x = rows[i]
          BY <2>1, <3>2
        <4>2. Org[rows[i].creator] \in Leaderboard!ValidOrganizations
          BY <1>4
        <4>3. x \in Of(Org[rows[i].creator])
          BY <2>1, <4>1
        <4>4. QED
          BY <4>2, <4>3
      <3>3. QED
        BY <3>1, <3>2
    <2>4. Of(organization) = UNION {Of(o) : o \in Leaderboard!ValidOrganizations}
      BY <2>3
    <2>5. QED
      BY <2>4 DEF Of
  <1>7. QED
    BY <1>5, <1>6 DEF Leaderboard!SubscriberLeaderboard, newest, rows

LEMMA BoardSound == ASSUME BoardInv PROVE Leaderboard!LeaderboardsAreSound
  <1>1. Leaderboard!TypeOK
    BY DEF BoardInv, BoardTypes, ResultOK, Leaderboard!TypeOK
  <1>2. Leaderboard!AnswersKept
    BY DEF BoardInv, AnswersOK, InHand, Leaderboard!AnswersKept, Leaderboard!Rows
  <1>3. Leaderboard!RepairsReachTheResult
    <2>1. SUFFICES ASSUME boardRun.at = "over", ~boardRun.failed,
                          NEW c \in boardRun.roster \cap DOMAIN snapshots[boardRun.date],
                          snapshots[boardRun.date][c] # Hidden, Org[c] \in Leaderboard!ValidOrganizations
          PROVE  \E x \in Leaderboard!Range(results[boardRun.date][0].rows) : x.creator = c
      BY DEF Leaderboard!RepairsReachTheResult
    <2>2. PICK i \in DOMAIN results[boardRun.date][0].rows : results[boardRun.date][0].rows[i].creator = c
      BY <2>1 DEF BoardInv, BoardRunOK, Covers
    <2>3. QED
      BY <2>2 DEF Leaderboard!Range
  <1>4. Leaderboard!NothingInvented
    <2>1. SUFFICES ASSUME NEW d \in Dates, results[d] # <<>>, NEW k \in Anchors \cup {0}
          PROVE  LET section == results[d][k] IN
                 /\ \A x \in Leaderboard!Range(section.rows) :
                       x.value = IF k = 0 THEN snapshots[d][x.creator] ELSE snapshots[d][x.creator] - snapshots[d - k][x.creator]
                 /\ \A i, j \in DOMAIN section.rows : section.rows[i].creator = section.rows[j].creator => i = j
                 /\ {x.creator : x \in Leaderboard!Range(section.rows)} \cap DOMAIN section.ineligible = {}
      BY DEF Leaderboard!NothingInvented
    <2> DEFINE section == results[d][k]
    <2>2. SectionOK(section, d, k)
      BY <2>1 DEF BoardInv, ResultOK
    <2> HIDE DEF section
    <2>3. \A x \in Leaderboard!Range(section.rows) : RowOK(x, d, k) /\ x.creator \notin DOMAIN section.ineligible
      BY <2>2 DEF SectionOK, Leaderboard!Range
    <2>4. \A i, j \in DOMAIN section.rows : section.rows[i].creator = section.rows[j].creator => i = j
      BY <2>2 DEF SectionOK, InOrder
    <2>5. QED
      BY <2>3, <2>4 DEF RowOK, section
  <1>5. QED
    BY <1>1, <1>2, <1>3, <1>4, RanksSound DEF Leaderboard!LeaderboardsAreSound

-----------------------------------------------------------------------------
(* The composition *)

collectionVars == <<part, cycleVars, dayVars, fillVars, boardVars>>

\* The part that moves keeps its own invariant; the others stand.
CollectionInv ==
    /\ part = "cycle" => CycleInv
    /\ part = "day" => DayInv
    /\ part = "backfill" => FillInv
    /\ part = "board" => BoardInv

FinalDay == row.status = "COMPLETE" => row' = row

LEMMA CollectionStarts == MCInit => CollectionInv
  BY InitCycle, InitDay, InitFill, InitBoard DEF MCInit, CollectionInv

LEMMA CollectionStep == CollectionInv /\ [MCNext]_collectionVars => CollectionInv' /\ [FinalDay]_row
  <1>1. ASSUME CollectionInv, part = "cycle", Cycle!Day, UNCHANGED <<part, dayVars, fillVars, boardVars>>
        PROVE  CollectionInv' /\ [FinalDay]_row
    <2>1. CycleInv'
      BY <1>1, StepCycle DEF CollectionInv
    <2>2. part' = "cycle" /\ row' = row
      BY <1>1 DEF dayVars
    <2>3. QED
      BY <2>1, <2>2 DEF CollectionInv
  <1>2. ASSUME CollectionInv, part = "day", Collection!Next, UNCHANGED <<part, cycleVars, fillVars, boardVars>>
        PROVE  CollectionInv' /\ [FinalDay]_row
    <2>1. DayInv' /\ FinalDay
      BY <1>2, StepDay DEF CollectionInv, FinalDay
    <2>2. part' = "day"
      BY <1>2
    <2>3. QED
      BY <2>1, <2>2 DEF CollectionInv
  <1>3. ASSUME CollectionInv, part = "backfill", Backfill!Next, UNCHANGED <<part, cycleVars, dayVars, boardVars>>
        PROVE  CollectionInv' /\ [FinalDay]_row
    <2>1. FillInv'
      BY <1>3, StepFill DEF CollectionInv
    <2>2. part' = "backfill" /\ row' = row
      BY <1>3 DEF dayVars
    <2>3. QED
      BY <2>1, <2>2 DEF CollectionInv
  <1>4. ASSUME CollectionInv, part = "board", Leaderboard!Next, UNCHANGED <<part, cycleVars, dayVars, fillVars>>
        PROVE  CollectionInv' /\ [FinalDay]_row
    <2>1. BoardInv'
      BY <1>4, StepBoard DEF CollectionInv
    <2>2. part' = "board" /\ row' = row
      BY <1>4 DEF dayVars
    <2>3. QED
      BY <2>1, <2>2 DEF CollectionInv
  <1>5. ASSUME CollectionInv, UNCHANGED collectionVars PROVE CollectionInv' /\ [FinalDay]_row
    <2>1. CycleInv => CycleInv'
      BY <1>5 DEF collectionVars, cycleVars, CycleInv, CycleTypes, NotDueSince
    <2>2. DayInv => DayInv'
      BY <1>5 DEF collectionVars, dayVars, DayInv, DayTypes, DayRowOK, SavesAlone, Stores,
                  Collection!EverySkipExplained, Collection!CompleteMeansStored
    <2>3. FillInv => FillInv'
      <3>1. UNCHANGED <<phase, fillMaster, fillManifest, fillRun, shorts, worker, unsettled>>
        BY <1>5 DEF collectionVars, fillVars
      <3>2. FillTypes => FillTypes'
        BY <3>1 DEF FillTypes
      <3>3. Apart => Apart'
        BY <3>1 DEF Apart, Backfill!BackfillInFlight, Backfill!WorkerInFlight
      <3>4. \A v \in FillVideos : VideoOK(v) => VideoOK(v)'
        BY <3>1 DEF VideoOK, WorkerOK, PairOK, ShortPending
      <3>5. \A r \in FillRuns : FillRunOK(fillRun[r]) => FillRunOK(fillRun[r])'
        BY <3>1 DEF FillRunOK, RunVideoOK, Since, ShortPending, Backfill!Fillable
      <3>6. \A s \in ShortsRuns : ShortsOK(shorts[s]) => ShortsOK(shorts[s])'
        BY <3>1 DEF ShortsOK
      <3>7. QED
        BY <3>2, <3>3, <3>4, <3>5, <3>6 DEF FillInv
    <2>4. BoardInv => BoardInv'
      <3>1. UNCHANGED <<today, snapshots, results, boardRun, answers, lost>>
        BY <1>5 DEF collectionVars, boardVars
      <3>2. BoardTypes => BoardTypes'
        BY <3>1 DEF BoardTypes
      <3>3. AnswersOK => AnswersOK'
        BY <3>1 DEF AnswersOK, InHand, Leaderboard!Rows
      <3>4. BoardRunOK(boardRun) => BoardRunOK(boardRun)'
        BY <3>1, SnapshotsStay DEF BoardRunOK, Collecting
      <3>5. QED
        BY <3>1, <3>2, <3>3, <3>4, SnapshotsStay DEF BoardInv
    <2>5. QED
      BY <1>5, <2>1, <2>2, <2>3, <2>4 DEF CollectionInv, collectionVars, dayVars
  <1>6. QED
    BY <1>1, <1>2, <1>3, <1>4, <1>5 DEF MCNext

LEMMA CollectionInvariant == MCSpec => []CollectionInv
  <1>1. QED
    BY CollectionStarts, CollectionStep, PTL DEF MCSpec, collectionVars

\* What is collected is accounted for, for any videos, creators, runs and failures: a
\* video is asked for on the days of its cycle and by its own pace (is_due_today), the
\* summary of a day explains every video and the quota (save_daily_collection), the two
\* copies of a classification agree after the backfills
\* (backfill_video_classification), and the leaderboards show what YouTube answered
\* (collect_subscriber_snapshot_if_missing, build_subscriber_leaderboards).
THEOREM WhatIsCollectedIsAccountedFor == MCSpec => []CollectionIsSound
  <1>1. CollectionInv => CollectionIsSound
    BY CycleIsSound, DaySound, FillSound, BoardSound DEF CollectionInv, CollectionIsSound
  <1>2. QED
    BY <1>1, CollectionInvariant, PTL

\* No later or slower run changes the summary of a COMPLETE day (_claim_run_summary).
THEOREM ACompleteDayStands == MCSpec => CompleteDayIsFinal
  <1>1. CollectionInv /\ [MCNext]_collectionVars => [FinalDay]_row
    BY CollectionStep
  <1>2. CompleteDayIsFinal <=> [][FinalDay]_row
    BY PTL DEF CompleteDayIsFinal, Collection!CompleteDayIsFinal, FinalDay
  <1>3. QED
    BY <1>1, <1>2, CollectionInvariant, PTL DEF MCSpec, collectionVars
=============================================================================
