----------------------- MODULE ReminderDelivery_proofs -----------------------
(***************************************************************************)
(* Proofs about ReminderDelivery for every number of clients, containers   *)
(* and scheduled starts: a task that pushes owns its claim until it lets   *)
(* go of it, so a client sees a reminder once per known outcome; a         *)
(* recovered reminder was wanted when it was due; and a moved stream is    *)
(* not announced twice while the schedule remembers its starts.            *)
(***************************************************************************)
EXTENDS ReminderDelivery, FiniteSetTheorems, SequenceTheorems, WellFoundedInduction, TLAPS

-----------------------------------------------------------------------------
(* The inductive invariant *)

\* A run starts no task after its deadline and is gone when it has passed.
RunsInTime ==
    \A k \in Containers : run[k] # Idle => run[k].now <= clock /\ clock <= Deadline(k)

\* There is an oldest minute to serve.
TodoBounded ==
    \A k \in Containers : run[k] # Idle => \E low \in Int : \A i \in run[k].todo : low <= i

\* A task belongs to a run that has not ended.
TasksRun == \A t \in tasks : run[t.container] # Idle

Senders == {t \in tasks : t.pc \in {"push", "confirm", "release"}}

\* The row, or the task that is about to write it, knows of a push.
IsKnown(key) ==
    \/ log[key].status = "delivered"
    \/ \E t \in tasks : t.pc = "confirm" /\ Key(t) = key

\* What a client saw of a reminder: the pushes whose outcome was lost, and one
\* more when it is known.
PushesCounted ==
    \A key \in Keys :
        shown[key] <= unconfirmed[key] + misreported[key] + (IF IsKnown(key) THEN 1 ELSE 0)

OnceInv ==
    /\ TypeOK
    /\ RunsInTime
    /\ TodoBounded
    /\ TasksRun
    /\ SenderOwnsClaim
    /\ PushesCounted

-----------------------------------------------------------------------------
(* Minutes *)

LEMMA LargestOfTwo ==
    ASSUME NEW a \in Int, NEW b \in Int
    PROVE  LargestOf({a, b}) \in {a, b} /\ a <= LargestOf({a, b}) /\ b <= LargestOf({a, b})
  <1>1. \E x \in {a, b} : \A y \in {a, b} : y <= x
    <2>1. CASE a <= b
      BY <2>1
    <2>2. CASE b <= a
      BY <2>2
    <2>3. QED
      BY <2>1, <2>2
  <1>2. LargestOf({a, b}) \in {a, b} /\ \A y \in {a, b} : y <= LargestOf({a, b})
    BY <1>1, Zenon DEF LargestOf
  <1>3. QED
    BY <1>2

LEMMA SmallestOfBounded ==
    ASSUME NEW S \in SUBSET Int, S # {}, NEW low \in Int, \A i \in S : low <= i
    PROVE  SmallestOf(S) \in S
  <1> DEFINE T == {i - low : i \in S}
  <1>1. T \subseteq Nat /\ T # {}
    OBVIOUS
  <1>2. PICK x \in T : \A y \in T : <<y, x>> \notin OpToRel(<, Nat)
    BY <1>1, NatLessThanWellFounded, WFMin
  <1>3. \A y \in T : ~(y < x)
    BY <1>1, <1>2 DEF OpToRel
  <1>4. x + low \in S /\ \A i \in S : x + low <= i
    BY <1>1, <1>3
  <1>5. QED
    BY <1>4, Zenon DEF SmallestOf

LEMMA InstantsType ==
    ASSUME ReminderAssumption, NEW k \in Containers, served[k] \in Int, NEW anchor \in Int
    PROVE  /\ Instants(k, anchor) \in SUBSET Int
           /\ \E low \in Int : \A i \in Instants(k, anchor) : low <= i
  <1> USE DEF ReminderAssumption
  <1> DEFINE known == IF served[k] = Never THEN anchor - 2 * Window ELSE served[k]
             last == LargestOf({known, anchor - Lookback})
             limit == anchor - Window
  <1>1. known \in Int /\ anchor - Lookback \in Int /\ limit \in Int
    OBVIOUS
  <1>2. last \in Int
    <2> HIDE DEF known
    <2>1. last \in {known, anchor - Lookback}
      BY <1>1, LargestOfTwo
    <2>2. QED
      BY <1>1, <2>1
  <1> HIDE DEF last
  <1>3. Instants(k, anchor) \subseteq {anchor, limit} \cup ((last + 1)..(limit - 1))
    BY DEF Instants, last
  <1>4. \E n \in Int : n <= anchor /\ n <= limit /\ n <= last + 1
    <2>1. CASE limit <= last + 1
      BY <1>1, <1>2, <2>1
    <2>2. CASE last + 1 <= limit
      BY <1>1, <1>2, <2>2
    <2>3. QED
      BY <1>1, <1>2, <2>1, <2>2
  <1>5. PICK n \in Int : n <= anchor /\ n <= limit /\ n <= last + 1
    BY <1>4
  <1>6. \A i \in Instants(k, anchor) : i \in Int /\ n <= i
    <2> HIDE DEF limit
    <2>1. \A i \in (last + 1)..(limit - 1) : i \in Int /\ last + 1 <= i
      BY <1>1, <1>2
    <2>2. \A i \in Instants(k, anchor) : i = anchor \/ i = limit \/ i \in (last + 1)..(limit - 1)
      BY <1>3
    <2>3. QED
      BY <1>1, <1>2, <1>5, <2>1, <2>2
  <1>7. QED
    BY <1>6

-----------------------------------------------------------------------------
(* The moves of a task *)

\* The steps of a task leave the runs as they are but for their outcomes.
RunsGoOn ==
    /\ run' \in [Containers -> Runs \cup {Idle}]
    /\ \A k \in Containers :
          \/ run'[k] = run[k]
          \/ /\ run[k] # Idle /\ run'[k] # Idle
             /\ run'[k].now = run[k].now /\ run'[k].anchor = run[k].anchor
             /\ run'[k].entry = run[k].entry /\ run'[k].catchUp = run[k].catchUp
             /\ run'[k].todo = run[k].todo

\* The stages a task may go on to once it is done with one.
Onward(t, cfg) ==
    {u \in Tasks :
        /\ u.container = t.container /\ u.client = t.client /\ u.instant = t.instant
        /\ u.config = cfg
        /\ u.stage \in DueStages(run[t.container], t.instant, cfg)
        /\ u.pc \in {"claim", "guard"}}

\* It goes on to one of them, or ends.
MovesOn(t, cfg) ==
    /\ RunsGoOn
    /\ tasks \ {t} \subseteq tasks'
    /\ tasks' \subseteq (tasks \ {t}) \cup Onward(t, cfg)

LEMMA TaskFacts ==
    ASSUME OnceInv, NEW t \in tasks
    PROVE  /\ t \in Tasks /\ t.container \in Containers /\ t.client \in Clients
           /\ run[t.container] \in Runs /\ run[t.container] # Idle
           /\ run[t.container].entry.start \in Starts
           /\ Kind(t) \in Kinds
           /\ Key(t) \in Keys
  <1>1. t \in Tasks /\ t.container \in Containers /\ t.client \in Clients
    BY DEF OnceInv, TypeOK, Tasks
  <1>2. run[t.container] \in Runs /\ run[t.container] # Idle
    BY <1>1 DEF OnceInv, TypeOK, TasksRun
  <1>3. run[t.container].entry.start \in Starts
    BY <1>2 DEF Runs, StreamEntries
  <1>4. Kind(t) \in Kinds
    BY DEF Kind, Kinds
  <1>5. QED
    BY <1>1, <1>2, <1>3, <1>4 DEF Key, Keys, ReminderIds

LEMMA FinishMoves ==
    ASSUME OnceInv, NEW t \in tasks, NEW outcome \in {"ok", "failed", "unserved"},
           Finish(t, outcome), NEW cfg
    PROVE  MovesOn(t, cfg)
  <1> DEFINE r == run[t.container]
             next == [r EXCEPT !.outcomes = r.outcomes \cup {outcome}]
  <1>1. r \in Runs /\ r # Idle /\ t.container \in Containers
    BY TaskFacts
  <1>2. /\ next \in Runs /\ next # Idle /\ next.now = r.now /\ next.anchor = r.anchor
        /\ next.entry = r.entry /\ next.catchUp = r.catchUp /\ next.todo = r.todo
    <2>1. next.busy = TRUE /\ Idle.busy = FALSE
      BY <1>1 DEF Runs, Idle
    <2>2. QED
      BY <1>1, <2>1 DEF Runs
  <1>3. run' = [run EXCEPT ![t.container] = next]
    BY <1>1 DEF Finish
  <1> HIDE DEF next
  <1>4. RunsGoOn
    BY <1>1, <1>2, <1>3 DEF RunsGoOn, OnceInv, TypeOK
  <1>5. QED
    BY <1>4 DEF Finish, MovesOn

LEMMA NextStageMoves ==
    ASSUME OnceInv, NEW t \in tasks, NEW cfg \in Configs, NextStage(t, cfg)
    PROVE  MovesOn(t, cfg)
  <1> DEFINE left == After(t.stage) \cap DueStages(run[t.container], t.instant, cfg)
             Entered(stage, pc) == [t EXCEPT !.config = cfg, !.stage = stage, !.pc = pc]
  <1>1. t \in Tasks
    BY TaskFacts
  <1>2. ASSUME NEW stage \in Stages, stage \in left, NEW pc \in {"claim", "guard"},
               tasks' = (tasks \ {t}) \cup {Entered(stage, pc)}, run' = run
        PROVE  MovesOn(t, cfg)
    <2> DEFINE u == Entered(stage, pc)
    <2>1. /\ u \in Tasks /\ u.container = t.container /\ u.client = t.client
          /\ u.instant = t.instant /\ u.config = cfg /\ u.stage = stage /\ u.pc = pc
      BY <1>1 DEF Tasks
    <2> HIDE DEF u
    <2>2. u \in Onward(t, cfg)
      BY <1>2, <2>1 DEF Onward
    <2>3. RunsGoOn
      BY <1>2 DEF RunsGoOn, OnceInv, TypeOK
    <2>4. QED
      BY <1>2, <2>2, <2>3 DEF MovesOn, u
  <1>3. CASE Finish(t, "ok")
    BY <1>3, FinishMoves
  <1>4. CASE ~Finish(t, "ok")
    <2>1. PICK stage \in Stages, pc \in {"claim", "guard"} :
             stage \in left /\ tasks' = (tasks \ {t}) \cup {Entered(stage, pc)} /\ run' = run
      BY <1>4, Zenon DEF NextStage, Stages
    <2>2. QED
      BY <1>2, <2>1
  <1>5. QED
    BY <1>3, <1>4

LEMMA RaisesMoves ==
    ASSUME OnceInv, NEW t \in tasks, Raises(t)
    PROVE  MovesOn(t, t.config)
  <1>1. t.config \in Configs
    BY TaskFacts DEF Tasks
  <1>2. QED
    BY <1>1, FinishMoves, NextStageMoves DEF Raises

\* The accesses that leave the log alone, but for a claim of a row that nobody
\* holds, or what the one who holds it does with it.
LogOnly(t) ==
    /\ log' \in [Keys -> Entries]
    /\ \A key \in Keys : \/ log'[key] = log[key]
                         \/ key = Key(t) /\ (t \in Senders \/ ~Handled(key))

LEMMA MovedTasks ==
    ASSUME OnceInv, NEW t \in tasks, NEW cfg, MovesOn(t, cfg), clock' = clock
    PROVE  /\ tasks' \subseteq Tasks
           /\ \A u \in tasks' : u.pc \in {"push", "confirm", "release"} => u \in tasks \ {t}
           /\ \A u \in tasks \ {t} : u \in tasks'
           /\ \A u \in tasks : /\ Key(u)' = Key(u)
                               /\ run'[u.container].now = run[u.container].now
           /\ RunsInTime' /\ TodoBounded' /\ TasksRun'
  <1> USE DEF OnceInv
  <1>1. tasks' \subseteq Tasks
    BY DEF MovesOn, TypeOK, Onward
  <1>2. \A u \in tasks' : u.pc \in {"push", "confirm", "release"} => u \in tasks \ {t}
    BY DEF MovesOn, Onward
  <1>3. \A u \in tasks : u.container \in Containers
    BY TaskFacts
  <1>4. \A u \in tasks : run'[u.container].now = run[u.container].now
                      /\ run'[u.container].entry = run[u.container].entry
    BY <1>3 DEF MovesOn, RunsGoOn
  <1>5. \A u \in tasks : Key(u)' = Key(u)
    BY <1>4 DEF Key, Kind
  <1>6. RunsInTime' /\ TodoBounded'
    BY DEF MovesOn, RunsGoOn, RunsInTime, TodoBounded, Deadline
  <1>7. TasksRun'
    <2>1. \A u \in tasks' : \E v \in tasks : u.container = v.container
      BY DEF MovesOn, Onward
    <2>2. QED
      BY <1>3, <2>1 DEF TasksRun, MovesOn, RunsGoOn
  <1>8. QED
    BY <1>1, <1>2, <1>4, <1>5, <1>6, <1>7 DEF MovesOn

LEMMA SenderFacts ==
    ASSUME OnceInv, NEW t \in Senders
    PROVE  /\ t \in tasks /\ t.pc \in {"push", "confirm", "release"}
           /\ log[Key(t)] = [status |-> "claimed", at |-> run[t.container].now]
           /\ log[Key(t)].status = "claimed"
           /\ ~Expired(Key(t)) /\ Handled(Key(t))
           /\ \A u \in Senders : Key(u) = Key(t) => u = t
  <1>1. t \in tasks /\ t.pc \in {"push", "confirm", "release"}
    BY DEF Senders
  <1>2. /\ log[Key(t)] = [status |-> "claimed", at |-> run[t.container].now]
        /\ ~Expired(Key(t))
    BY <1>1 DEF OnceInv, SenderOwnsClaim
  <1>3. \A u \in Senders : Key(u) = Key(t) => u = t
    BY <1>1 DEF OnceInv, SenderOwnsClaim, Senders
  <1>4. log[Key(t)].status = "claimed"
    BY <1>2
  <1>5. Handled(Key(t))
    BY <1>2, <1>4 DEF Handled
  <1>6. QED
    BY <1>1, <1>2, <1>3, <1>4, <1>5

\* A row that a task may claim is not one that another task sends for.
LEMMA SendersApart ==
    ASSUME OnceInv, NEW t \in tasks, t \in Senders \/ ~Handled(Key(t)),
           NEW u \in Senders \ {t}
    PROVE  Key(u) # Key(t)
  <1>1. Handled(Key(u)) /\ \A v \in Senders : Key(v) = Key(u) => v = u
    BY SenderFacts
  <1>2. QED
    BY <1>1

LEMMA MovesKeepClaims ==
    ASSUME OnceInv, NEW t \in tasks, NEW cfg, MovesOn(t, cfg), LogOnly(t), clock' = clock
    PROVE  SenderOwnsClaim'
  <1>1. SUFFICES ASSUME NEW u \in tasks', u.pc \in {"push", "confirm", "release"}
                 PROVE  /\ log'[Key(u)'] = [status |-> "claimed", at |-> run'[u.container].now]
                        /\ ~Expired(Key(u))'
                        /\ \A v \in tasks' : v.pc \in {"push", "confirm", "release"} /\ Key(v)' = Key(u)'
                              => v = u
    BY DEF SenderOwnsClaim
  <1>2. u \in Senders \ {t} /\ u \in tasks
    BY <1>1, MovedTasks DEF Senders
  <1>3. Key(u)' = Key(u) /\ run'[u.container].now = run[u.container].now /\ Key(u) \in Keys
    BY <1>2, MovedTasks, TaskFacts
  <1>4. log'[Key(u)] = log[Key(u)]
    BY <1>2, <1>3, SendersApart DEF LogOnly
  <1>5. /\ log[Key(u)] = [status |-> "claimed", at |-> run[u.container].now]
        /\ ~Expired(Key(u))
        /\ \A v \in Senders : Key(v) = Key(u) => v = u
    BY <1>2 DEF OnceInv, SenderOwnsClaim, Senders
  <1>6. ~Expired(Key(u))'
    BY <1>3, <1>4, <1>5 DEF Expired
  <1>7. \A v \in tasks' : v.pc \in {"push", "confirm", "release"} => v \in Senders /\ Key(v)' = Key(v)
    BY MovedTasks DEF Senders
  <1>8. QED
    BY <1>3, <1>4, <1>5, <1>6, <1>7

-----------------------------------------------------------------------------
(* The steps of a task *)

LEMMA FaultType == TypeOK /\ Fault => faults' \in 0..MaxFaults
  BY ReminderAssumption DEF TypeOK, Fault

LEMMA MinutesAreNat == Minutes \subseteq Nat
  BY ReminderAssumption DEF Minutes

\* A claim dates the row with the start of the run.
LEMMA ClaimLogs ==
    ASSUME OnceInv, NEW t \in tasks, Claim(Key(t), run[t.container].now)
    PROVE  /\ LogOnly(t) /\ ~Handled(Key(t))
           /\ log'[Key(t)] = [status |-> "claimed", at |-> run[t.container].now]
           /\ log[Key(t)].status # "delivered"
  <1>1. /\ Key(t) \in Keys /\ run[t.container].now \in Nat
        /\ log \in [Keys -> Entries]
    BY TaskFacts, MinutesAreNat DEF OnceInv, TypeOK, Runs
  <1>2. [status |-> "claimed", at |-> run[t.container].now] \in Entries
    BY <1>1 DEF Entries
  <1>3. QED
    BY <1>1, <1>2 DEF Claim, LogOnly, Handled, Expired

\* Nobody sees anything while a task moves on.
LEMMA QuietMoves ==
    ASSUME OnceInv, NEW t \in tasks, NEW cfg, MovesOn(t, cfg), LogOnly(t), clock' = clock,
           UNCHANGED <<shown, misreported>>,
           \A key \in Keys : log[key].status = "delivered" => log'[key].status = "delivered",
           \/ UNCHANGED unconfirmed /\ (t.pc = "confirm" => log'[Key(t)].status = "delivered")
           \/ unconfirmed' = [unconfirmed EXCEPT ![Key(t)] = @ + 1]
    PROVE  PushesCounted' /\ unconfirmed' \in [Keys -> Nat]
  <1>1. unconfirmed' \in [Keys -> Nat] /\ Key(t) \in Keys
    BY TaskFacts DEF OnceInv, TypeOK
  <1>2. \A u \in tasks \ {t} : u \in tasks' /\ Key(u)' = Key(u)
    BY MovedTasks
  <1>3. \A key \in Keys : shown[key] \in Nat /\ unconfirmed[key] \in Nat /\ misreported[key] \in Nat
    BY DEF OnceInv, TypeOK
  <1>4. ASSUME NEW key \in Keys
        PROVE  shown'[key] <= unconfirmed'[key] + misreported'[key] + (IF IsKnown(key)' THEN 1 ELSE 0)
    <2>1. shown[key] <= unconfirmed[key] + misreported[key] + (IF IsKnown(key) THEN 1 ELSE 0)
      BY DEF OnceInv, PushesCounted
    <2>2. CASE unconfirmed'[key] = unconfirmed[key] + 1
      BY <1>3, <2>1, <2>2
    <2>3. CASE /\ unconfirmed'[key] = unconfirmed[key]
               /\ t.pc = "confirm" /\ Key(t) = key => log'[key].status = "delivered"
      <3>1. IsKnown(key) => IsKnown(key)'
        BY <1>2, <2>3 DEF IsKnown
      <3>2. QED
        BY <1>3, <2>1, <2>3, <3>1
    <2>4. QED
      BY <1>1, <2>2, <2>3 DEF OnceInv, TypeOK
  <1>5. QED
    BY <1>1, <1>4 DEF PushesCounted

\* The steps that end a task or take it to another stage.
LEMMA OnwardSteps ==
    ASSUME OnceInv, NEW t \in tasks,
           \/ LeaveUnserved(t) \/ ReadClient(t) \/ GuardFails(t) \/ ClaimRefused(t)
           \/ ClaimReplyLost(t) \/ ConfirmReminder(t) \/ ConfirmFails(t)
           \/ ReleaseReminder(t) \/ TaskFails(t)
           \/ GuardCatchUp(t) /\ EarlierHandled(t)
    PROVE  /\ \E cfg \in Configs : MovesOn(t, cfg)
           /\ LogOnly(t) /\ clock' = clock /\ UNCHANGED <<shown, misreported>>
           /\ \A key \in Keys : log[key].status = "delivered" => log'[key].status = "delivered"
           /\ \/ UNCHANGED unconfirmed /\ (t.pc = "confirm" => log'[Key(t)].status = "delivered")
              \/ unconfirmed' = [unconfirmed EXCEPT ![Key(t)] = @ + 1]
           /\ UNCHANGED <<scheduleVars, served, wanted, runs, edits>>
           /\ tried' \subseteq Keys /\ faults' \in 0..MaxFaults
  <1>1. /\ t \in Tasks /\ t.config \in Configs /\ t.client \in Clients /\ Key(t) \in Keys
        /\ config[t.client] \in Configs /\ log \in [Keys -> Entries]
        /\ tried \subseteq Keys /\ faults \in 0..MaxFaults
    BY TaskFacts DEF Tasks, OnceInv, TypeOK
  <1>2. UNCHANGED log => LogOnly(t)
    BY <1>1 DEF LogOnly
  <1>3. Try(t) => tried' \subseteq Keys
    BY <1>1 DEF Try
  <1>4. Fault => faults' \in 0..MaxFaults
    BY FaultType DEF OnceInv
  <1>5. \A cfg \in Configs : NextStage(t, cfg) => MovesOn(t, cfg)
    BY NextStageMoves
  <1>6. CASE LeaveUnserved(t)
    <2>1. MovesOn(t, t.config)
      BY <1>6, FinishMoves DEF LeaveUnserved
    <2>2. QED
      BY <1>1, <1>2, <1>6, <2>1 DEF LeaveUnserved, ghostVars
  <1>7. CASE ReadClient(t)
    <2>1. [config[t.client] EXCEPT !.reminder = t.config.reminder] \in Configs
      BY <1>1 DEF Configs
    <2>2. QED
      BY <1>1, <1>2, <1>5, <1>7, <2>1 DEF ReadClient, ghostVars
  <1>8. CASE GuardFails(t) \/ (GuardCatchUp(t) /\ EarlierHandled(t))
    BY <1>1, <1>2, <1>4, <1>5, <1>8 DEF GuardFails, GuardCatchUp, ghostVars
  <1>9. CASE ClaimRefused(t)
    BY <1>1, <1>2, <1>3, <1>5, <1>9 DEF ClaimRefused, Try
  <1>10. CASE ClaimReplyLost(t)
    <2>1. LogOnly(t) /\ \A key \in Keys : log[key].status = "delivered" => log'[key].status = "delivered"
      BY <1>10, ClaimLogs DEF ClaimReplyLost, LogOnly
    <2>2. QED
      BY <1>1, <1>3, <1>4, <1>5, <1>10, <2>1 DEF ClaimReplyLost, Try
  <1>11. CASE ConfirmReminder(t)
    <2>1. run[t.container].now \in Nat
      BY TaskFacts, MinutesAreNat DEF Runs
    <2>2. /\ LogOnly(t) /\ log'[Key(t)].status = "delivered"
          /\ \A key \in Keys : log[key].status = "delivered" => log'[key].status = "delivered"
      BY <1>1, <1>11, <2>1 DEF ConfirmReminder, Confirm, LogOnly, Entries, Senders
    <2>3. QED
      BY <1>1, <1>5, <1>11, <2>2 DEF ConfirmReminder, ghostVars
  <1>12. CASE ConfirmFails(t)
    BY <1>1, <1>2, <1>4, <1>5, <1>12 DEF ConfirmFails
  <1>13. ASSUME t.pc = "release", Release(Key(t))
         PROVE  LogOnly(t) /\ \A key \in Keys : log[key].status = "delivered" => log'[key].status = "delivered"
    <2>1. t \in Senders /\ log[Key(t)].status = "claimed"
      <3>1. t \in Senders
        BY <1>13 DEF Senders
      <3>2. QED
        BY <3>1, SenderFacts
    <2>2. NoEntry \in Entries
      BY DEF NoEntry, Entries
    <2>3. QED
      BY <1>1, <1>13, <2>1, <2>2 DEF Release, LogOnly
  <1>14. CASE ReleaseReminder(t)
    BY <1>1, <1>5, <1>13, <1>14 DEF ReleaseReminder, ghostVars
  <1>15. CASE TaskFails(t)
    <2>1. MovesOn(t, t.config)
      BY <1>15, RaisesMoves DEF TaskFails
    <2>2. LogOnly(t) /\ \A key \in Keys : log[key].status = "delivered" => log'[key].status = "delivered"
      BY <1>2, <1>13, <1>15, ClaimLogs DEF TaskFails, LogOnly
    <2>3. tried' \subseteq Keys
      BY <1>1, <1>15, TaskFacts DEF TaskFails, Keys, ReminderIds
    <2>4. \/ UNCHANGED unconfirmed /\ t.pc # "confirm"
          \/ unconfirmed' = [unconfirmed EXCEPT ![Key(t)] = @ + 1]
      BY <1>15 DEF TaskFails
    <2>5. QED
      BY <1>1, <1>4, <1>15, <2>1, <2>2, <2>3, <2>4 DEF TaskFails
  <1>16. QED
    BY <1>6, <1>7, <1>8, <1>9, <1>10, <1>11, <1>12, <1>14, <1>15

LEMMA OnwardOnce ==
    ASSUME OnceInv, NEW t \in tasks,
           \/ LeaveUnserved(t) \/ ReadClient(t) \/ GuardFails(t) \/ ClaimRefused(t)
           \/ ClaimReplyLost(t) \/ ConfirmReminder(t) \/ ConfirmFails(t)
           \/ ReleaseReminder(t) \/ TaskFails(t)
           \/ GuardCatchUp(t) /\ EarlierHandled(t)
    PROVE  OnceInv'
  <1>1. PICK cfg \in Configs : MovesOn(t, cfg)
    BY OnwardSteps
  <1>2. LogOnly(t) /\ clock' = clock
    BY OnwardSteps
  <1>3. SenderOwnsClaim'
    BY <1>1, <1>2, MovesKeepClaims
  <1>4. tasks' \subseteq Tasks /\ RunsInTime' /\ TodoBounded' /\ TasksRun'
    BY <1>1, <1>2, MovedTasks
  <1>5. PushesCounted' /\ unconfirmed' \in [Keys -> Nat]
    BY <1>1, <1>2, OnwardSteps, QuietMoves
  <1>6. TypeOK'
    BY <1>1, <1>2, <1>4, <1>5, OnwardSteps DEF OnceInv, TypeOK, MovesOn, RunsGoOn, LogOnly, scheduleVars
  <1>7. QED
    BY <1>3, <1>4, <1>5, <1>6 DEF OnceInv

\* A task that goes on within its stage is for the same row.
LEMMA GotoMoves ==
    ASSUME OnceInv, NEW t \in tasks, NEW pc \in {"claim", "push", "confirm", "release"}, Goto(t, pc)
    PROVE  \E m \in Tasks :
              /\ m.container = t.container /\ m.client = t.client /\ m.instant = t.instant
              /\ m.config = t.config /\ m.stage = t.stage /\ m.pc = pc
              /\ tasks' = (tasks \ {t}) \cup {m}
              /\ Key(m) = Key(t)
              /\ run' = run
  <1> DEFINE m == [t EXCEPT !.pc = pc]
  <1>1. t \in Tasks
    BY TaskFacts
  <1>2. /\ m \in Tasks /\ m.container = t.container /\ m.client = t.client
        /\ m.instant = t.instant /\ m.config = t.config /\ m.stage = t.stage /\ m.pc = pc
    BY <1>1 DEF Tasks
  <1>3. tasks' = (tasks \ {t}) \cup {m} /\ run' = run
    BY DEF Goto
  <1> HIDE DEF m
  <1>4. Key(m) = Key(t)
    BY <1>2 DEF Key, Kind
  <1>5. QED
    BY <1>2, <1>3, <1>4

LEMMA SameRunsInTime ==
    ASSUME OnceInv, UNCHANGED <<clock, run>>, \A u \in tasks' : \E v \in tasks : u.container = v.container
    PROVE  RunsInTime' /\ TodoBounded' /\ TasksRun'
  BY DEF OnceInv, RunsInTime, TodoBounded, TasksRun, Deadline

LEMMA ClaimOnce ==
    ASSUME OnceInv, NEW t \in tasks, ClaimReminder(t)
    PROVE  OnceInv'
  <1>1. PICK m \in Tasks :
           /\ m.container = t.container /\ m.client = t.client /\ m.pc = "push"
           /\ tasks' = (tasks \ {t}) \cup {m} /\ Key(m) = Key(t) /\ run' = run
    BY GotoMoves DEF ClaimReminder
  <1>2. /\ clock' = clock /\ t.pc = "claim" /\ tried' = tried \cup {Key(t)}
        /\ UNCHANGED <<scheduleVars, served, shown, unconfirmed, misreported, wanted, runs, edits, faults>>
    BY DEF ClaimReminder, Try
  <1>3. /\ LogOnly(t) /\ ~Handled(Key(t)) /\ log[Key(t)].status # "delivered"
        /\ log'[Key(t)] = [status |-> "claimed", at |-> run[t.container].now]
    BY ClaimLogs DEF ClaimReminder
  <1>4. \A u : Key(u)' = Key(u)
    BY <1>1 DEF Key, Kind
  <1>5. \A u \in tasks \ {t} : u.pc \in {"push", "confirm", "release"} =>
           /\ Key(u) # Key(t) /\ u \in Senders
    BY <1>3, SendersApart DEF Senders
  <1>6. SenderOwnsClaim'
    <2>1. ASSUME NEW u \in tasks', u.pc \in {"push", "confirm", "release"}
          PROVE  /\ log'[Key(u)] = [status |-> "claimed", at |-> run[u.container].now]
                 /\ ~Expired(Key(u))'
                 /\ \A v \in tasks' : v.pc \in {"push", "confirm", "release"} /\ Key(v) = Key(u) => v = u
      <3>1. CASE u = m
        <4>1. log'[Key(u)] = [status |-> "claimed", at |-> run[u.container].now]
          BY <1>1, <1>3, <3>1
        <4>2. ~Expired(Key(u))'
          <5>1. clock <= run[t.container].now + LambdaLimit /\ run[t.container].now \in Nat /\ clock \in Nat
            BY TaskFacts, MinutesAreNat DEF OnceInv, RunsInTime, Deadline, TypeOK, Runs
          <5>2. Key(u)' = Key(u)
            BY <1>4
          <5>3. log'[Key(u)'].at = run[t.container].now
            BY <1>1, <3>1, <4>1, <5>2
          <5>4. QED
            BY <1>2, <5>1, <5>3, ExpiryAssumption, ReminderAssumption DEF Expired
        <4>3. \A v \in tasks \ {t} : v.pc \in {"push", "confirm", "release"} => Key(v) # Key(u)
          BY <1>1, <1>5, <3>1
        <4>4. QED
          BY <1>1, <3>1, <4>1, <4>2, <4>3
      <3>2. CASE u \in tasks \ {t}
        <4>1. u \in Senders /\ Key(u) # Key(t) /\ Key(u) \in Keys
          BY <1>5, <2>1, <3>2, TaskFacts
        <4>2. log'[Key(u)] = log[Key(u)]
          BY <1>3, <4>1 DEF LogOnly
        <4>3. log[Key(u)] = [status |-> "claimed", at |-> run[u.container].now] /\ ~Expired(Key(u))
          BY <4>1, SenderFacts
        <4>4. ~Expired(Key(u))'
          BY <1>2, <1>4, <4>2, <4>3 DEF Expired
        <4>5. \A v \in tasks' : v.pc \in {"push", "confirm", "release"} /\ Key(v) = Key(u) => v \in Senders
          BY <1>1, <1>5, <4>1
        <4>6. QED
          BY <4>1, <4>2, <4>3, <4>4, <4>5, SenderFacts
      <3>3. QED
        BY <1>1, <3>1, <3>2
    <2>2. QED
      BY <1>1, <1>4, <2>1 DEF SenderOwnsClaim
  <1>7. PushesCounted'
    <2>1. \A key \in Keys : IsKnown(key) => IsKnown(key)'
      <3>1. \A key \in Keys : log[key].status = "delivered" => log'[key].status = "delivered"
        BY <1>3 DEF LogOnly
      <3>2. \A u \in tasks : u.pc = "confirm" => u \in tasks'
        BY <1>1, <1>2
      <3>3. QED
        BY <1>4, <3>1, <3>2 DEF IsKnown
    <2>2. \A key \in Keys : shown[key] \in Nat /\ unconfirmed[key] \in Nat /\ misreported[key] \in Nat
      BY DEF OnceInv, TypeOK
    <2>3. ASSUME NEW key \in Keys
          PROVE  shown'[key] <= unconfirmed'[key] + misreported'[key] + (IF IsKnown(key)' THEN 1 ELSE 0)
      <3>1. shown[key] <= unconfirmed[key] + misreported[key] + (IF IsKnown(key) THEN 1 ELSE 0)
        BY DEF OnceInv, PushesCounted
      <3>2. QED
        BY <1>2, <2>1, <2>2, <3>1
    <2>4. QED
      BY <2>3 DEF PushesCounted
  <1>8. TypeOK'
    BY <1>1, <1>2, <1>3, TaskFacts DEF OnceInv, TypeOK, LogOnly, scheduleVars
  <1>9. RunsInTime' /\ TodoBounded' /\ TasksRun'
    BY <1>1, <1>2, SameRunsInTime
  <1>10. QED
    BY <1>6, <1>7, <1>8, <1>9 DEF OnceInv

\* What the push service accepted is either known to the task or misreported.
LEMMA PushOnce ==
    ASSUME OnceInv, NEW t \in tasks, Push(t)
    PROVE  OnceInv'
  <1>1. PICK accepted \in 0..2, sent \in BOOLEAN :
           /\ (IF sent THEN 1 ELSE 0) <= accepted
           /\ faults' \in {faults} \/ Fault
           /\ shown' = [shown EXCEPT ![Key(t)] = @ + accepted]
           /\ misreported' = [misreported EXCEPT ![Key(t)] = @ + accepted - (IF sent THEN 1 ELSE 0)]
           /\ Goto(t, IF sent THEN "confirm" ELSE "release")
    BY DEF Push
  <1>2. PICK m \in Tasks :
           /\ m.container = t.container /\ m.client = t.client
           /\ m.pc = IF sent THEN "confirm" ELSE "release"
           /\ tasks' = (tasks \ {t}) \cup {m} /\ Key(m) = Key(t) /\ run' = run
    <2>1. (IF sent THEN "confirm" ELSE "release") \in {"claim", "push", "confirm", "release"}
      OBVIOUS
    <2>2. QED
      BY <1>1, <2>1, GotoMoves
  <1>3. /\ t.pc = "push" /\ t \in Senders
        /\ UNCHANGED <<clock, log, scheduleVars, served, unconfirmed, tried, wanted, runs, edits>>
    BY DEF Push, Senders
  <1>4. \A u : Key(u)' = Key(u)
    BY <1>2 DEF Key, Kind
  <1>5. /\ log[Key(t)] = [status |-> "claimed", at |-> run[t.container].now]
        /\ log[Key(t)].status = "claimed" /\ ~Expired(Key(t))
        /\ \A u \in Senders : Key(u) = Key(t) => u = t
    BY <1>3, SenderFacts
  <1>6. SenderOwnsClaim'
    <2>1. ASSUME NEW u \in tasks', u.pc \in {"push", "confirm", "release"}
          PROVE  \E o \in Senders : /\ Key(o) = Key(u) /\ o.container = u.container
                                    /\ u = o \/ (o = t /\ u = m)
      BY <1>2, <1>3, <2>1 DEF Senders
    <2>2. \A u \in tasks' : u.pc \in {"push", "confirm", "release"} =>
             /\ log[Key(u)] = [status |-> "claimed", at |-> run[u.container].now]
             /\ ~Expired(Key(u))
      BY <2>1, SenderFacts
    <2>3. ASSUME NEW u \in tasks', u.pc \in {"push", "confirm", "release"},
                 NEW v \in tasks', v.pc \in {"push", "confirm", "release"}, Key(u) = Key(v)
          PROVE  u = v
      <3>1. \A o \in tasks' : o.pc \in {"push", "confirm", "release"} =>
               o = m \/ (o \in Senders /\ Key(o) # Key(m))
        BY <1>2, <1>5 DEF Senders
      <3>2. CASE u = m
        BY <2>3, <3>1, <3>2
      <3>3. CASE v = m
        BY <2>3, <3>1, <3>3
      <3>4. CASE u \in Senders /\ v \in Senders
        BY <2>3, <3>4, SenderFacts
      <3>5. QED
        BY <2>3, <3>1, <3>2, <3>3, <3>4
    <2>4. \A u : Expired(Key(u))' <=> Expired(Key(u))
      BY <1>3, <1>4 DEF Expired
    <2>5. QED
      BY <1>2, <1>3, <1>4, <2>2, <2>3, <2>4 DEF SenderOwnsClaim
  <1>7. shown' \in [Keys -> Nat] /\ misreported' \in [Keys -> Nat] /\ Key(t) \in Keys
    BY <1>1, TaskFacts DEF OnceInv, TypeOK
  <1>8. PushesCounted'
    <2>1. \A key \in Keys : shown[key] \in Nat /\ unconfirmed[key] \in Nat /\ misreported[key] \in Nat
      BY DEF OnceInv, TypeOK
    <2>2. ~IsKnown(Key(t))
      BY <1>3, <1>5 DEF IsKnown, Senders
    <2>3. ASSUME NEW key \in Keys
          PROVE  shown'[key] <= unconfirmed'[key] + misreported'[key] + (IF IsKnown(key)' THEN 1 ELSE 0)
      <3>1. shown[key] <= unconfirmed[key] + misreported[key] + (IF IsKnown(key) THEN 1 ELSE 0)
        BY DEF OnceInv, PushesCounted
      <3>2. CASE key = Key(t)
        <4>1. sent => IsKnown(key)'
          <5>1. sent => m \in tasks' /\ m.pc = "confirm" /\ Key(m)' = key
            BY <1>2, <1>4, <3>2
          <5>2. QED
            BY <5>1 DEF IsKnown
        <4>2. /\ shown'[key] = shown[key] + accepted
              /\ misreported'[key] = misreported[key] + accepted - (IF sent THEN 1 ELSE 0)
          BY <1>1, <1>7, <3>2 DEF OnceInv, TypeOK
        <4>3. shown[key] <= unconfirmed[key] + misreported[key]
          BY <2>1, <2>2, <3>1, <3>2
        <4>4. accepted \in Int
          OBVIOUS
        <4>5. CASE sent
          BY <1>3, <2>1, <4>1, <4>2, <4>3, <4>4, <4>5
        <4>6. CASE ~sent
          BY <1>3, <2>1, <4>2, <4>3, <4>4, <4>6
        <4>7. QED
          BY <4>5, <4>6
      <3>3. CASE key # Key(t)
        <4>1. IsKnown(key) => IsKnown(key)'
          <5>1. \A u \in tasks : u.pc = "confirm" => u \in tasks'
            BY <1>2, <1>3
          <5>2. QED
            BY <1>3, <1>4, <5>1 DEF IsKnown
        <4>2. shown'[key] = shown[key] /\ misreported'[key] = misreported[key]
          BY <1>1, <3>3 DEF OnceInv, TypeOK
        <4>3. QED
          BY <1>3, <2>1, <3>1, <4>1, <4>2
      <3>4. QED
        BY <3>2, <3>3
    <2>4. QED
      BY <2>3 DEF PushesCounted
  <1>9. TypeOK'
    <2>1. faults' \in 0..MaxFaults
      BY <1>1, FaultType DEF OnceInv, TypeOK
    <2>2. QED
      BY <1>2, <1>3, <1>7, <2>1 DEF OnceInv, TypeOK, scheduleVars
  <1>10. RunsInTime' /\ TodoBounded' /\ TasksRun'
    BY <1>2, <1>3, SameRunsInTime
  <1>11. QED
    BY <1>6, <1>8, <1>9, <1>10 DEF OnceInv

\* The guard lets the catch-up go on to its claim.
LEMMA GuardOnce ==
    ASSUME OnceInv, NEW t \in tasks, GuardCatchUp(t), ~EarlierHandled(t)
    PROVE  OnceInv'
  <1>1. PICK m \in Tasks :
           /\ m.container = t.container /\ m.pc = "claim"
           /\ tasks' = (tasks \ {t}) \cup {m} /\ run' = run
    BY GotoMoves DEF GuardCatchUp
  <1>2. /\ t.pc = "guard"
        /\ UNCHANGED <<clock, log, scheduleVars, served, shown, unconfirmed, misreported, tried,
                       wanted, runs, edits, faults>>
    BY DEF GuardCatchUp, ghostVars
  <1>3. \A u : Key(u)' = Key(u)
    BY <1>1 DEF Key, Kind
  <1>4. \A u : u.pc \in {"push", "confirm", "release"} => (u \in tasks' <=> u \in tasks)
    BY <1>1, <1>2
  <1>5. SenderOwnsClaim'
    BY <1>1, <1>2, <1>3, <1>4 DEF OnceInv, SenderOwnsClaim, Expired
  <1>6. PushesCounted'
    <2>1. \A key \in Keys : IsKnown(key)' <=> IsKnown(key)
      BY <1>2, <1>3, <1>4 DEF IsKnown
    <2>2. QED
      BY <1>2, <2>1 DEF OnceInv, PushesCounted
  <1>7. TypeOK'
    BY <1>1, <1>2 DEF OnceInv, TypeOK, scheduleVars
  <1>8. RunsInTime' /\ TodoBounded' /\ TasksRun'
    BY <1>1, <1>2, SameRunsInTime
  <1>9. QED
    BY <1>5, <1>6, <1>7, <1>8 DEF OnceInv

LEMMA ServeOnce ==
    ASSUME OnceInv, NEW t \in tasks, Serve(t)
    PROVE  OnceInv'
  BY OnwardOnce, ClaimOnce, PushOnce, GuardOnce DEF Serve

-----------------------------------------------------------------------------
(* The runs and what the clients and the schedule change *)

\* Claims and pushes are the same while no task past its start is touched.
LEMMA OthersKeepClaims ==
    ASSUME OnceInv, UNCHANGED <<clock, log, shown, unconfirmed, misreported>>,
           \A u \in tasks : run'[u.container] = run[u.container],
           \A u : u.pc # "read" => (u \in tasks' <=> u \in tasks)
    PROVE  SenderOwnsClaim' /\ PushesCounted'
  <1>1. \A u \in tasks : Key(u)' = Key(u) /\ (Expired(Key(u))' <=> Expired(Key(u)))
    BY DEF Key, Kind, Expired
  <1>2. SenderOwnsClaim'
    BY <1>1 DEF OnceInv, SenderOwnsClaim
  <1>3. \A key \in Keys : IsKnown(key)' <=> IsKnown(key)
    BY <1>1 DEF IsKnown
  <1>4. QED
    BY <1>2, <1>3 DEF OnceInv, PushesCounted

\* What the schedule and the clients change does not touch a run.
LEMMA EditOnce ==
    ASSUME OnceInv, Edit, stream' \in StreamEntries, config' \in [Clients -> Configs]
    PROVE  OnceInv'
  <1>1. /\ UNCHANGED <<clock, log, served, run, tasks, shown, unconfirmed, misreported, tried, wanted, runs, faults>>
        /\ edits' \in 0..MaxEdits
    BY ReminderAssumption DEF Edit, ghostVars, OnceInv, TypeOK
  <1>2. SenderOwnsClaim' /\ PushesCounted'
    BY <1>1, OthersKeepClaims
  <1>3. TypeOK'
    BY <1>1 DEF OnceInv, TypeOK
  <1>4. RunsInTime' /\ TodoBounded' /\ TasksRun'
    BY <1>1 DEF OnceInv, RunsInTime, TodoBounded, TasksRun, Deadline
  <1>5. QED
    BY <1>2, <1>3, <1>4 DEF OnceInv

\* A stream remembers no more than MaxPrior earlier starts.
LEMMA PriorSequence ==
    ASSUME OnceInv
    PROVE  stream.prior \in Seq(Starts) /\ stream.start \in Starts
  <1>1. /\ stream.start \in Starts
        /\ stream.prior \in {<<>>} \cup UNION {[1..n -> Starts] : n \in 1..MaxPrior}
    BY DEF OnceInv, TypeOK, StreamEntries
  <1>2. CASE stream.prior = <<>>
    BY <1>1, <1>2
  <1>3. CASE stream.prior \in UNION {[1..n -> Starts] : n \in 1..MaxPrior}
    <2>1. PICK n \in 1..MaxPrior : stream.prior \in [1..n -> Starts]
      BY <1>3
    <2>2. n \in Nat
      BY <2>1, ReminderAssumption DEF ReminderAssumption
    <2>3. QED
      BY <1>1, <2>1, <2>2 DEF Seq
  <1>4. QED
    BY <1>1, <1>2, <1>3

LEMMA RescheduledType ==
    ASSUME OnceInv
    PROVE  Rescheduled \in {<<>>} \cup UNION {[1..n -> Starts] : n \in 1..MaxPrior}
  <1> USE ReminderAssumption DEF ReminderAssumption
  <1> DEFINE all == Append(stream.prior, stream.start)
             from == LargestOf({1, Len(all) - MaxPrior + 1})
  <1>1. CASE stream.status = "none"
    BY <1>1 DEF Rescheduled
  <1>2. CASE stream.status # "none"
    <2>1. stream.prior \in Seq(Starts) /\ stream.start \in Starts
      BY PriorSequence
    <2>2. all \in Seq(Starts) /\ Len(all) \in Nat /\ Len(all) >= 1
      BY <2>1
    <2> HIDE DEF all
    <2>3. from \in Nat /\ 1 <= from /\ Len(all) - MaxPrior + 1 <= from /\ (from = 1 \/ from = Len(all) - MaxPrior + 1)
      <3>1. Len(all) - MaxPrior + 1 \in Int
        BY <2>2
      <3>2. from \in {1, Len(all) - MaxPrior + 1} /\ 1 <= from /\ Len(all) - MaxPrior + 1 <= from
        <4>1. 1 \in Int
          OBVIOUS
        <4>2. QED
          BY <3>1, <4>1, LargestOfTwo, Zenon
      <3> HIDE DEF from
      <3>3. QED
        BY <3>1, <3>2
    <2> HIDE DEF from
    <2>4. Rescheduled = SubSeq(all, from, Len(all))
      BY <1>2 DEF Rescheduled, all, from
    <2>5. CASE from > Len(all)
      <3>1. SubSeq(all, from, Len(all)) = <<>>
        BY <2>2, <2>3, <2>5
      <3>2. QED
        BY <2>4, <3>1
    <2>6. CASE from <= Len(all)
      <3> DEFINE n == Len(all) - from + 1
      <3>1. n \in 1..MaxPrior
        BY <2>2, <2>3, <2>6
      <3>2. SubSeq(all, from, Len(all)) \in [1..n -> Starts]
        <4>1. \A i \in from..Len(all) : all[i] \in Starts
          <5>1. \A i \in 1..Len(all) : all[i] \in Starts
            BY <2>2
          <5>2. from..Len(all) \subseteq 1..Len(all)
            BY <2>2, <2>3
          <5>3. QED
            BY <5>1, <5>2
        <4>2. SubSeq(all, from, Len(all)) \in Seq(Starts) /\ Len(SubSeq(all, from, Len(all))) = n
          BY <2>2, <2>3, <2>6, <4>1, SubSeqProperties
        <4>3. QED
          BY <4>2, LenProperties
      <3>3. QED
        BY <2>4, <3>1, <3>2
    <2>7. QED
      BY <2>2, <2>3, <2>5, <2>6
  <1>3. QED
    BY <1>1, <1>2

LEMMA MutesType ==
    ASSUME OnceInv
    PROVE  Mutes \subseteq SUBSET Minutes /\ clock \in Minutes
  <1>1. clock \in Minutes
    BY DEF OnceInv, TypeOK
  <1>2. clock \in Nat /\ MaxClock \in Nat /\ clock <= MaxClock
    BY <1>1, ReminderAssumption DEF ReminderAssumption, Minutes
  <1>3. 0..clock \subseteq Minutes
    BY <1>2 DEF Minutes
  <1>4. QED
    BY <1>1, <1>3 DEF Mutes

LEMMA ChangesOnce ==
    ASSUME OnceInv,
           \/ \E start \in Starts : MoveStream(start)
           \/ GoLive
           \/ \E c \in Clients : \/ SaveReminder(c) \/ SaveSubscription(c)
                                 \/ \E blocked \in Mutes : SavePreference(c, blocked)
    PROVE  OnceInv'
  <1>1. /\ stream \in StreamEntries /\ config \in [Clients -> Configs] /\ clock \in Minutes
    BY DEF OnceInv, TypeOK
  <1>2. ASSUME NEW start \in Starts, MoveStream(start)
        PROVE  OnceInv'
    <2>1. stream' \in StreamEntries
      <3> DEFINE entry(seenAt) == [status |-> "upcoming", start |-> start, seenAt |-> seenAt, prior |-> Rescheduled]
      <3>1. \A seenAt \in {clock, Never} : entry(seenAt) \in StreamEntries
        BY <1>1, RescheduledType DEF StreamEntries, Times
      <3>2. \E seenAt \in {clock, Never} : stream' = entry(seenAt)
        BY <1>2 DEF MoveStream
      <3>3. QED
        BY <3>1, <3>2
    <2>2. QED
      BY <1>1, <1>2, <2>1, EditOnce DEF MoveStream
  <1>3. CASE GoLive
    <2>1. stream' \in StreamEntries
      BY <1>1, <1>3 DEF GoLive, StreamEntries
    <2>2. QED
      BY <1>1, <1>3, <2>1, EditOnce DEF GoLive
  <1>4. ASSUME NEW c \in Clients, SaveReminder(c) \/ SaveSubscription(c)
        PROVE  OnceInv'
    <2>1. config' \in [Clients -> Configs]
      BY <1>1, <1>4 DEF SaveReminder, SaveSubscription, Configs, Times
    <2>2. QED
      BY <1>1, <1>4, <2>1, EditOnce DEF SaveReminder, SaveSubscription
  <1>5. ASSUME NEW c \in Clients, NEW blocked \in Mutes, SavePreference(c, blocked)
        PROVE  OnceInv'
    <2>1. blocked \in SUBSET Minutes
      BY MutesType
    <2>2. config' \in [Clients -> Configs]
      BY <1>1, <1>5, <2>1 DEF SavePreference, Configs
    <2>3. QED
      BY <1>1, <1>5, <2>2, EditOnce DEF SavePreference
  <1>6. QED
    BY <1>2, <1>3, <1>4, <1>5

LEMMA StartOnce ==
    ASSUME OnceInv, NEW k \in Containers, NEW lag \in 0..Lookback, StartRun(k, lag)
    PROVE  OnceInv'
  <1> USE ReminderAssumption DEF ReminderAssumption
  <1>1. /\ clock \in Minutes /\ clock \in Nat /\ clock - lag \in Int /\ served[k] \in Int
        /\ stream \in StreamEntries
    BY MinutesAreNat DEF OnceInv, TypeOK
  <1>2. /\ Instants(k, clock - lag) \in SUBSET Int
        /\ \E low \in Int : \A i \in Instants(k, clock - lag) : low <= i
    BY <1>1, InstantsType
  <1>3. PICK catchUp \in {FALSE, CatchUpSwitch} :
           run' = [run EXCEPT ![k] =
                    [busy |-> TRUE, now |-> clock, anchor |-> clock - lag, entry |-> stream,
                     todo |-> Instants(k, clock - lag), catchUp |-> catchUp, outcomes |-> {}]]
    BY DEF StartRun
  <1> DEFINE r == [busy |-> TRUE, now |-> clock, anchor |-> clock - lag, entry |-> stream,
                   todo |-> Instants(k, clock - lag), catchUp |-> catchUp, outcomes |-> {}]
  <1>4. r \in Runs /\ r.now = clock /\ r.todo = Instants(k, clock - lag) /\ r # Idle
    <2>1. r.busy = TRUE /\ Idle.busy = FALSE
      BY DEF Idle
    <2>2. r \in Runs /\ r.now = clock /\ r.todo = Instants(k, clock - lag)
      BY <1>1, <1>2, <1>3 DEF Runs
    <2>3. QED
      BY <2>1, <2>2
  <1>5. run' = [run EXCEPT ![k] = r]
    BY <1>3
  <1> HIDE DEF r
  <1>6. /\ run[k] = Idle
        /\ UNCHANGED <<clock, log, stream, config, served, tasks, shown, unconfirmed, misreported,
                       tried, wanted, edits, faults>>
        /\ runs' \in 0..MaxRuns
    BY DEF StartRun, scheduleVars, ghostVars, OnceInv, TypeOK
  <1>7. /\ run' \in [Containers -> Runs \cup {Idle}] /\ run'[k] = r
        /\ \A j \in Containers \ {k} : run'[j] = run[j]
    BY <1>4, <1>5 DEF OnceInv, TypeOK
  <1>8. \A u \in tasks : u.container \in Containers \ {k}
    BY <1>6, TaskFacts
  <1>9. SenderOwnsClaim' /\ PushesCounted'
    BY <1>6, <1>7, <1>8, OthersKeepClaims
  <1>10. TypeOK'
    BY <1>6, <1>7 DEF OnceInv, TypeOK
  <1>11. RunsInTime'
    BY <1>1, <1>4, <1>6, <1>7 DEF OnceInv, RunsInTime, Deadline
  <1>12. TodoBounded'
    <2>1. ASSUME NEW j \in Containers, run'[j] # Idle
          PROVE  \E low \in Int : \A i \in run'[j].todo : low <= i
      <3>1. CASE j = k
        BY <1>2, <1>4, <1>7, <3>1
      <3>2. CASE j # k
        BY <1>7, <2>1, <3>2 DEF OnceInv, TodoBounded
      <3>3. QED
        BY <3>1, <3>2
    <2>2. QED
      BY <2>1 DEF TodoBounded
  <1>13. TasksRun'
    BY <1>6, <1>7, <1>8 DEF OnceInv, TasksRun
  <1>14. QED
    BY <1>9, <1>10, <1>11, <1>12, <1>13 DEF OnceInv

\* A new task has claimed nothing.
LEMMA ScanOnce ==
    ASSUME OnceInv, NEW k \in Containers, Scan(k)
    PROVE  OnceInv'
  <1> DEFINE instant == SmallestOf(run[k].todo)
             due == IF run[k].entry.status = "none" THEN {} ELSE Candidates(run[k], instant)
             new(c) == [container |-> k, client |-> c, instant |-> instant,
                        config |-> config[c], stage |-> "begin", pc |-> "read"]
             r == [run[k] EXCEPT !.todo = run[k].todo \ {instant}]
  <1>1. /\ run[k] \in Runs /\ run[k] # Idle /\ run[k].todo # {} /\ run[k].todo \in SUBSET Int
        /\ \E low \in Int : \A i \in run[k].todo : low <= i
    BY DEF Scan, OnceInv, TypeOK, TodoBounded, Runs
  <1>2. instant \in Int
    BY <1>1, SmallestOfBounded
  <1>3. /\ tasks' = tasks \cup {new(c) : c \in due}
        /\ run' = [run EXCEPT ![k] = r]
        /\ \A u \in tasks : u.container # k
        /\ UNCHANGED <<clock, log, stream, config, served, shown, unconfirmed, misreported,
                       tried, wanted, runs, edits, faults>>
    BY DEF Scan, scheduleVars, ghostVars
  <1> HIDE DEF instant
  <1>4. \A c \in due : new(c) \in Tasks /\ new(c).pc = "read" /\ new(c).container = k
    <2>1. due \subseteq Clients
      BY DEF Candidates
    <2>2. QED
      BY <1>2, <2>1 DEF Tasks, OnceInv, TypeOK
  <1>5. r \in Runs /\ r # Idle /\ r.now = run[k].now /\ r.todo \subseteq run[k].todo
    <2>1. r.busy = TRUE /\ Idle.busy = FALSE
      BY <1>1 DEF Runs, Idle
    <2>2. QED
      BY <1>1, <2>1 DEF Runs
  <1> HIDE DEF due, new, r
  <1>6. /\ run' \in [Containers -> Runs \cup {Idle}] /\ run'[k] = r
        /\ \A j \in Containers \ {k} : run'[j] = run[j]
    BY <1>3, <1>5 DEF OnceInv, TypeOK
  <1>7. \A u \in tasks : u.container \in Containers \ {k}
    BY <1>3, TaskFacts
  <1>8. SenderOwnsClaim' /\ PushesCounted'
    <2>1. \A u : u.pc # "read" => (u \in tasks' <=> u \in tasks)
      BY <1>3, <1>4
    <2>2. QED
      BY <1>3, <1>6, <1>7, <2>1, OthersKeepClaims
  <1>9. TypeOK'
    <2>1. tasks' \subseteq Tasks
      BY <1>3, <1>4 DEF OnceInv, TypeOK
    <2>2. QED
      BY <1>3, <1>6, <2>1 DEF OnceInv, TypeOK
  <1>10. RunsInTime'
    BY <1>1, <1>3, <1>5, <1>6 DEF OnceInv, RunsInTime, Deadline
  <1>11. TodoBounded'
    BY <1>1, <1>5, <1>6 DEF OnceInv, TodoBounded
  <1>12. TasksRun'
    BY <1>3, <1>4, <1>5, <1>6, <1>7 DEF OnceInv, TasksRun
  <1>13. QED
    BY <1>8, <1>9, <1>10, <1>11, <1>12 DEF OnceInv

\* A run that ends or fails between two minutes has no task left.
LEMMA EndOnce ==
    ASSUME OnceInv, NEW k \in Containers, EndRun(k) \/ RunFails(k)
    PROVE  OnceInv'
  <1>1. /\ run' = [run EXCEPT ![k] = Idle] /\ run[k] \in Runs
        /\ \A u \in tasks : u.container # k
        /\ UNCHANGED <<clock, log, stream, config, tasks, shown, unconfirmed, misreported,
                       tried, wanted, runs, edits>>
        /\ faults' \in 0..MaxFaults
    BY FaultType DEF EndRun, RunFails, scheduleVars, ghostVars, OnceInv, TypeOK
  <1>2. served' \in [Containers -> Int]
    <2>1. run[k].anchor \in Int /\ served[k] \in Int /\ served \in [Containers -> Int]
      BY <1>1 DEF Runs, OnceInv, TypeOK
    <2>2. LargestOf({served[k], run[k].anchor}) \in Int
      BY <2>1, LargestOfTwo
    <2>3. QED
      BY <2>1, <2>2 DEF EndRun, RunFails, Ends
  <1>3. /\ run' \in [Containers -> Runs \cup {Idle}] /\ run'[k] = Idle
        /\ \A j \in Containers \ {k} : run'[j] = run[j]
    BY <1>1 DEF OnceInv, TypeOK
  <1>4. \A u \in tasks : u.container \in Containers \ {k}
    BY <1>1, TaskFacts
  <1>5. SenderOwnsClaim' /\ PushesCounted'
    BY <1>1, <1>3, <1>4, OthersKeepClaims
  <1>6. TypeOK'
    BY <1>1, <1>2, <1>3 DEF OnceInv, TypeOK
  <1>7. RunsInTime' /\ TodoBounded' /\ TasksRun'
    BY <1>1, <1>3, <1>4 DEF OnceInv, RunsInTime, TodoBounded, TasksRun, Deadline
  <1>8. QED
    BY <1>5, <1>6, <1>7 DEF OnceInv

\* A crash leaves the claims of its tasks behind, and the pushes that waited
\* for a confirm: one at most for each row.
LEMMA CrashOnce ==
    ASSUME OnceInv, NEW k \in Containers, Crash(k)
    PROVE  OnceInv'
  <1> DEFINE lost(key) == {t \in tasks : t.container = k /\ t.pc = "confirm" /\ Key(t) = key}
  <1>1. /\ run' = [run EXCEPT ![k] = Idle]
        /\ served' = [served EXCEPT ![k] = Never]
        /\ tasks' = {t \in tasks : t.container # k}
        /\ misreported' = [key \in Keys |-> misreported[key] + Cardinality(lost(key))]
        /\ UNCHANGED <<clock, log, stream, config, shown, unconfirmed, tried, wanted, runs, edits>>
        /\ faults' \in 0..MaxFaults
    BY FaultType DEF Crash, scheduleVars, OnceInv, TypeOK
  <1>2. ASSUME NEW key \in Keys
        PROVE  /\ Cardinality(lost(key)) \in Nat
               /\ lost(key) # {} => Cardinality(lost(key)) = 1
    <2>1. CASE lost(key) = {}
      BY <2>1, FS_EmptySet
    <2>2. CASE lost(key) # {}
      <3>1. PICK u : u \in lost(key)
        BY <2>2
      <3>2. \A v \in lost(key) : v \in Senders /\ Key(v) = key
        BY DEF Senders
      <3>3. \A v \in lost(key) : v = u
        BY <3>1, <3>2, SenderFacts
      <3>4. lost(key) = {u}
        BY <3>1, <3>3
      <3>5. Cardinality({u}) = 1
        BY FS_Singleton
      <3>6. Cardinality(lost(key)) = 1
        BY <3>4, <3>5
      <3>7. QED
        BY <3>6
    <2>3. QED
      BY <2>1, <2>2
  <1>3. /\ run' \in [Containers -> Runs \cup {Idle}] /\ run'[k] = Idle
        /\ \A j \in Containers \ {k} : run'[j] = run[j]
    BY <1>1 DEF OnceInv, TypeOK
  <1>4. \A u \in tasks' : /\ u \in tasks /\ u.container \in Containers \ {k}
                          /\ Key(u)' = Key(u) /\ (Expired(Key(u))' <=> Expired(Key(u)))
    <2>1. \A u \in tasks' : u \in tasks /\ u.container \in Containers \ {k}
      BY <1>1, TaskFacts
    <2>2. QED
      BY <1>1, <1>3, <2>1 DEF Key, Kind, Expired
  <1>5. SenderOwnsClaim'
    BY <1>1, <1>3, <1>4 DEF OnceInv, SenderOwnsClaim
  <1>6. PushesCounted'
    <2>1. ASSUME NEW key \in Keys
          PROVE  shown'[key] <= unconfirmed'[key] + misreported'[key] + (IF IsKnown(key)' THEN 1 ELSE 0)
      <3>1. /\ shown[key] <= unconfirmed[key] + misreported[key] + (IF IsKnown(key) THEN 1 ELSE 0)
            /\ shown[key] \in Nat /\ unconfirmed[key] \in Nat /\ misreported[key] \in Nat
        BY DEF OnceInv, PushesCounted, TypeOK
      <3>2. misreported'[key] = misreported[key] + Cardinality(lost(key))
        BY <1>1
      <3>3. CASE lost(key) # {}
        <4> HIDE DEF lost
        <4>1. QED
          BY <1>1, <1>2, <3>1, <3>2, <3>3
      <3>4. CASE lost(key) = {}
        <4>1. IsKnown(key) => IsKnown(key)'
          BY <1>1, <1>4, <3>4 DEF IsKnown
        <4> HIDE DEF lost
        <4>2. QED
          BY <1>1, <1>2, <3>1, <3>2, <4>1
      <3>5. QED
        BY <3>3, <3>4
    <2>2. QED
      BY <2>1 DEF PushesCounted
  <1>7. misreported' \in [Keys -> Nat]
    <2> HIDE DEF lost
    <2>1. \A key \in Keys : misreported[key] + Cardinality(lost(key)) \in Nat
      BY <1>2 DEF OnceInv, TypeOK
    <2>2. QED
      BY <1>1, <2>1
  <1>8. TypeOK'
    BY <1>1, <1>3, <1>7 DEF OnceInv, TypeOK, Never
  <1>9. RunsInTime' /\ TodoBounded' /\ TasksRun'
    BY <1>1, <1>3, <1>4 DEF OnceInv, RunsInTime, TodoBounded, TasksRun, Deadline
  <1>10. QED
    BY <1>5, <1>6, <1>8, <1>9 DEF OnceInv

LEMMA RecycleOnce ==
    ASSUME OnceInv, NEW k \in Containers, Recycle(k)
    PROVE  OnceInv'
  <1>1. /\ served' \in [Containers -> Int]
        /\ UNCHANGED <<clock, log, stream, config, run, tasks, shown, unconfirmed, misreported,
                       tried, wanted, runs, edits, faults>>
    BY DEF Recycle, scheduleVars, ghostVars, OnceInv, TypeOK, Never
  <1>2. SenderOwnsClaim' /\ PushesCounted'
    BY <1>1, OthersKeepClaims
  <1>3. TypeOK'
    BY <1>1 DEF OnceInv, TypeOK
  <1>4. RunsInTime' /\ TodoBounded' /\ TasksRun'
    BY <1>1 DEF OnceInv, RunsInTime, TodoBounded, TasksRun, Deadline
  <1>5. QED
    BY <1>2, <1>3, <1>4 DEF OnceInv

\* No claim of a run expires before the run's own deadline.
LEMMA TickOnce ==
    ASSUME OnceInv, Tick
    PROVE  OnceInv'
  <1>1. /\ clock \in Nat /\ clock' = clock + 1 /\ clock' \in Minutes
        /\ UNCHANGED <<log, stream, config, served, run, tasks, shown, unconfirmed, misreported,
                       tried, runs, edits, faults>>
        /\ wanted' \subseteq Clients \X Minutes
    BY ReminderAssumption DEF Tick, scheduleVars, OnceInv, TypeOK, Minutes
  <1>2. \A j \in Containers : run[j] # Idle => run[j].now <= clock /\ clock < Deadline(j) /\ run[j].now \in Nat
    BY MinutesAreNat DEF Tick, OnceInv, RunsInTime, TypeOK, Runs
  <1>3. RunsInTime' /\ TodoBounded' /\ TasksRun'
    <2>1. \A j \in Containers : Deadline(j)' = Deadline(j) /\ (run[j] # Idle => Deadline(j) \in Nat)
      BY <1>1, <1>2, ReminderAssumption DEF Deadline
    <2>2. QED
      BY <1>1, <1>2, <2>1 DEF OnceInv, RunsInTime, TodoBounded, TasksRun
  <1>4. \A u : Key(u)' = Key(u)
    BY <1>1 DEF Key, Kind
  <1>5. ASSUME NEW u \in Senders
        PROVE  ~Expired(Key(u))'
    <2>1. /\ log[Key(u)] = [status |-> "claimed", at |-> run[u.container].now]
          /\ u.container \in Containers /\ run[u.container] # Idle
      BY SenderFacts, TaskFacts
    <2>2. log[Key(u)].at = run[u.container].now
      BY <2>1
    <2>3. clock < run[u.container].now + LambdaLimit /\ run[u.container].now \in Nat
      BY <1>2, <2>1 DEF Deadline
    <2>4. QED
      BY <1>1, <1>4, <2>2, <2>3, ExpiryAssumption, ReminderAssumption DEF Expired
  <1>6. SenderOwnsClaim'
    BY <1>1, <1>4, <1>5 DEF OnceInv, SenderOwnsClaim, Senders
  <1>7. PushesCounted'
    <2>1. \A key \in Keys : IsKnown(key)' <=> IsKnown(key)
      BY <1>1, <1>4 DEF IsKnown
    <2>2. QED
      BY <1>1, <2>1 DEF OnceInv, PushesCounted
  <1>8. TypeOK'
    BY <1>1 DEF OnceInv, TypeOK
  <1>9. QED
    BY <1>3, <1>6, <1>7, <1>8 DEF OnceInv

-----------------------------------------------------------------------------
(* The theorems *)

LEMMA InitOnce == Init => OnceInv
  <1> USE ReminderAssumption DEF ReminderAssumption
  <1> SUFFICES ASSUME Init PROVE OnceInv
    OBVIOUS
  <1>1. /\ clock = 0 /\ log = [key \in Keys |-> NoEntry] /\ tasks = {} /\ tried = {} /\ wanted = {}
        /\ served = [k \in Containers |-> Never] /\ run = [k \in Containers |-> Idle]
        /\ shown = [key \in Keys |-> 0] /\ unconfirmed = [key \in Keys |-> 0]
        /\ misreported = [key \in Keys |-> 0] /\ runs = 0 /\ edits = 0 /\ faults = 0
    BY DEF Init
  <1>2. stream \in StreamEntries
    BY DEF Init, StreamEntries, Times
  <1>3. config \in [Clients -> Configs]
    <2>1. [reminder : {0, Never}, subscription : {0}, preference : {0}, blocked : {{}}] \subseteq Configs
      BY DEF Configs, Times, Minutes
    <2>2. QED
      BY <2>1 DEF Init
  <1>4. NoEntry \in Entries /\ 0 \in Minutes /\ Never \in Int
    BY DEF NoEntry, Entries, Minutes, Never
  <1>5. TypeOK
    BY <1>1, <1>2, <1>3, <1>4 DEF TypeOK
  <1>6. RunsInTime /\ TodoBounded /\ TasksRun /\ SenderOwnsClaim
    BY <1>1 DEF RunsInTime, TodoBounded, TasksRun, SenderOwnsClaim
  <1>7. PushesCounted
    BY <1>1 DEF PushesCounted
  <1>8. QED
    BY <1>5, <1>6, <1>7 DEF OnceInv

LEMMA StepOnce == OnceInv /\ [Next]_vars => OnceInv'
  <1> SUFFICES ASSUME OnceInv, [Next]_vars
               PROVE  OnceInv'
    OBVIOUS
  <1>1. CASE UNCHANGED vars
    <2>1. UNCHANGED <<clock, log, stream, config, served, run, tasks, shown, unconfirmed,
                      misreported, tried, wanted, runs, edits, faults>>
      BY <1>1 DEF vars
    <2>2. SenderOwnsClaim' /\ PushesCounted'
      BY <2>1, OthersKeepClaims
    <2>3. TypeOK'
      BY <2>1 DEF OnceInv, TypeOK
    <2>4. QED
      BY <2>1, <2>2, <2>3 DEF OnceInv, RunsInTime, TodoBounded, TasksRun, Deadline
  <1>2. CASE \/ \E start \in Starts : MoveStream(start)
             \/ GoLive
             \/ \E c \in Clients : \/ SaveReminder(c) \/ SaveSubscription(c)
                                   \/ \E blocked \in Mutes : SavePreference(c, blocked)
    BY <1>2, ChangesOnce
  <1>3. ASSUME NEW k \in Containers,
               \/ \E lag \in 0..Lookback : StartRun(k, lag)
               \/ Scan(k) \/ EndRun(k) \/ RunFails(k) \/ Crash(k) \/ Recycle(k)
        PROVE  OnceInv'
    BY <1>3, StartOnce, ScanOnce, EndOnce, CrashOnce, RecycleOnce
  <1>4. ASSUME NEW t \in tasks, Serve(t)
        PROVE  OnceInv'
    BY <1>4, ServeOnce
  <1>5. CASE Tick
    BY <1>5, TickOnce
  <1>6. QED
    BY <1>1, <1>2, <1>3, <1>4, <1>5 DEF Next

LEMMA OnceInvariant == Spec => []OnceInv
  BY InitOnce, StepOnce, PTL DEF Spec

\* The state of the reminder run has its types: among them that a stream never
\* remembers more than MaxPrior earlier starts, however often it moves.
THEOREM TypesHold == Spec => []TypeOK
  <1>1. OnceInv => TypeOK
    BY DEF OnceInv
  <1>2. QED
    BY <1>1, OnceInvariant, PTL

\* Whatever tasks of overlapping runs do, a task that pushes, confirms or
\* releases still owns the claim it wrote, because no run outlives its claims:
\* confirm_delivered and release_claim, which are unconditional, never touch
\* the claim of another run.
THEOREM ClaimsAreOwned == Spec => []SenderOwnsClaim
  <1>1. OnceInv => SenderOwnsClaim
    BY DEF OnceInv
  <1>2. QED
    BY <1>1, OnceInvariant, PTL

\* A client sees a reminder once, and once more for each push whose outcome
\* the log never learned: a confirm that failed, a push reported as failed or
\* cut off by a crash.
THEOREM RemindedOnce == Spec => []OnePushPerOutcome
  <1>1. OnceInv => OnePushPerOutcome
    <2> SUFFICES ASSUME OnceInv, NEW key \in Keys
                 PROVE  shown[key] <= 1 + unconfirmed[key] + misreported[key]
      BY DEF OnePushPerOutcome
    <2>1. /\ shown[key] <= unconfirmed[key] + misreported[key] + (IF IsKnown(key) THEN 1 ELSE 0)
          /\ shown[key] \in Nat /\ unconfirmed[key] \in Nat /\ misreported[key] \in Nat
      BY DEF OnceInv, PushesCounted, TypeOK
    <2>2. QED
      BY <2>1
  <1>2. QED
    BY <1>1, OnceInvariant, PTL

\* "A delivered row is permanent": no claim replaces one, and no release that
\* comes late removes one, because whoever releases owns a claim.
THEOREM DeliveredStays == Spec => DeliveredIsFinal
  <1>1. ASSUME OnceInv, [Next]_vars
        PROVE  [\A key \in Keys : log[key].status = "delivered" => log'[key].status = "delivered"]_log
    <2>1. CASE UNCHANGED log
      BY <2>1
    <2>2. ASSUME NEW t \in tasks, Serve(t)
          PROVE  \A key \in Keys : log[key].status = "delivered" => log'[key].status = "delivered"
      <3>1. CASE ClaimReminder(t)
        BY <1>1, <3>1, ClaimLogs DEF ClaimReminder, LogOnly
      <3>2. CASE Push(t)
        BY <3>2 DEF Push
      <3>3. CASE GuardCatchUp(t)
        BY <3>3 DEF GuardCatchUp
      <3>4. CASE ~ClaimReminder(t) /\ ~Push(t) /\ ~GuardCatchUp(t)
        BY <1>1, <2>2, <3>4, OnwardSteps DEF Serve
      <3>5. QED
        BY <3>1, <3>2, <3>3, <3>4
    <2>3. \/ \E t \in tasks : Serve(t)
          \/ UNCHANGED log
      BY <1>1 DEF Next, vars, MoveStream, GoLive, SaveReminder, SaveSubscription, SavePreference, Edit,
                  StartRun, Scan, EndRun, RunFails, Crash, Recycle, Tick
    <2>4. QED
      BY <2>1, <2>2, <2>3
  <1>2. QED
    BY <1>1, OnceInvariant, PTL DEF Spec, DeliveredIsFinal

-----------------------------------------------------------------------------
(* Recovered reminders *)

InPlace(cfg, m) ==
    \A saved \in {cfg.reminder, cfg.subscription, cfg.preference} : saved # Never /\ saved <= m

\* By its own dates, the record says that its client wanted a reminder at m.
Asked(cfg, m) == InPlace(cfg, m) /\ m \notin cfg.blocked

\* Dates do not lie: a record that is edited is dated later than every minute
\* that has passed.
RecordsWanted ==
    \A c \in Clients, m \in Minutes : m < clock /\ Asked(config[c], m) => <<c, m>> \in wanted

\* What a task decides by: until it reads the client, the reminder of the
\* lookup with the rest of the record as it is.
TaskRecord(t) ==
    IF t.stage = "begin" THEN [config[t.client] EXCEPT !.reminder = t.config.reminder] ELSE t.config

TasksWanted ==
    \A t \in tasks, m \in Minutes :
        m < run[t.container].now /\ Asked(TaskRecord(t), m) => <<t.client, m>> \in wanted

TasksDue ==
    \A t \in tasks : /\ t.stage = "begin" <=> t.pc = "read"
                     /\ t.stage # "begin" => t.stage \in DueStages(run[t.container], t.instant, t.config)

WantedInv == RecordsWanted /\ TasksWanted /\ TasksDue

\* What is due depends on the run's start, schedule and kill switch only.
LEMMA DueSame ==
    ASSUME NEW r, NEW s, s.now = r.now, s.entry = r.entry, s.catchUp = r.catchUp, NEW i, NEW cfg
    PROVE  /\ DueStages(s, i, cfg) = DueStages(r, i, cfg)
           /\ DueStages(r, i, cfg) \subseteq Stages
  <1>1. Recovered(s, i) = Recovered(r, i)
    BY DEF Recovered
  <1>2. \A kind : RecoveryAllows(kind, s, cfg) = RecoveryAllows(kind, r, cfg)
    BY DEF RecoveryAllows
  <1>3. CatchUpDue(s, cfg.reminder, cfg.subscription) = CatchUpDue(r, cfg.reminder, cfg.subscription)
    BY DEF CatchUpDue
  <1>4. DueStages(s, i, cfg) = DueStages(r, i, cfg)
    BY <1>1, <1>2, <1>3, Zenon DEF DueStages
  <1>5. DueStages(r, i, cfg) \subseteq Stages
    BY DEF DueStages, Kinds, Stages
  <1>6. QED
    BY <1>4, <1>5

\* A task whose record, run and stage stay as they are.
LEMMA TaskStaysWanted ==
    ASSUME OnceInv, WantedInv, UNCHANGED <<config, wanted>>, RunsGoOn, NEW t \in tasks, NEW u,
           u.container = t.container, u.client = t.client, u.instant = t.instant,
           u.config = t.config, u.stage = t.stage
    PROVE  /\ \A m \in Minutes : m < run'[u.container].now /\ Asked(TaskRecord(u)', m)
                                    => <<u.client, m>> \in wanted'
           /\ u.stage # "begin" => u.stage \in DueStages(run'[u.container], u.instant, u.config)
  <1>1. /\ run'[u.container].now = run[t.container].now
        /\ run'[u.container].entry = run[t.container].entry
        /\ run'[u.container].catchUp = run[t.container].catchUp
    BY TaskFacts DEF RunsGoOn
  <1>2. TaskRecord(u)' = TaskRecord(t)
    BY DEF TaskRecord
  <1>3. DueStages(run'[u.container], u.instant, u.config) = DueStages(run[t.container], t.instant, t.config)
    BY <1>1, DueSame
  <1>4. QED
    BY <1>1, <1>2, <1>3 DEF WantedInv, TasksWanted, TasksDue

\* A task goes on with the record that it decides by.
LEMMA OnwardRecord ==
    ASSUME OnceInv, WantedInv, NEW t \in tasks,
           \/ LeaveUnserved(t) \/ ReadClient(t) \/ GuardFails(t) \/ ClaimRefused(t)
           \/ ClaimReplyLost(t) \/ ConfirmReminder(t) \/ ConfirmFails(t)
           \/ ReleaseReminder(t) \/ TaskFails(t)
           \/ GuardCatchUp(t) /\ EarlierHandled(t)
    PROVE  MovesOn(t, TaskRecord(t))
  <1>1. /\ t.config \in Configs /\ config[t.client] \in Configs
        /\ t.stage = "begin" <=> t.pc = "read"
    BY TaskFacts DEF Tasks, OnceInv, TypeOK, WantedInv, TasksDue
  <1>2. TaskRecord(t) \in Configs
    BY <1>1 DEF TaskRecord, Configs
  <1>3. CASE NextStage(t, TaskRecord(t))
    BY <1>2, <1>3, NextStageMoves
  <1>4. CASE Finish(t, "unserved") \/ Finish(t, "failed")
    BY <1>4, FinishMoves
  <1>5. CASE LeaveUnserved(t)
    BY <1>4, <1>5 DEF LeaveUnserved
  <1>6. CASE ReadClient(t)
    BY <1>1, <1>3, <1>6 DEF ReadClient, TaskRecord
  <1>7. CASE TaskFails(t)
    <2>1. t.stage = "catchUp" => TaskRecord(t) = t.config
      BY DEF TaskRecord
    <2>2. QED
      BY <1>3, <1>4, <1>7, <2>1 DEF TaskFails, Raises
  <1>8. CASE /\ NextStage(t, t.config)
             /\ t.pc # "read"
    BY <1>1, <1>3, <1>8 DEF TaskRecord
  <1>9. QED
    BY <1>5, <1>6, <1>7, <1>8
       DEF GuardFails, GuardCatchUp, ClaimRefused, ClaimReplyLost, ConfirmReminder, ConfirmFails, ReleaseReminder

LEMMA ServeWanted ==
    ASSUME OnceInv, WantedInv, NEW t \in tasks, Serve(t)
    PROVE  WantedInv'
  <1>1. UNCHANGED <<clock, config, wanted>>
    BY DEF Serve, LeaveUnserved, ReadClient, GuardFails, ClaimRefused, ClaimReplyLost, ConfirmReminder,
           ConfirmFails, ReleaseReminder, TaskFails, GuardCatchUp, ClaimReminder, Push, Try, scheduleVars, ghostVars
  <1>2. RecordsWanted'
    BY <1>1 DEF WantedInv, RecordsWanted
  <1>3. CASE MovesOn(t, TaskRecord(t))
    <2>1. ASSUME NEW u \in tasks'
          PROVE  /\ \A m \in Minutes : m < run'[u.container].now /\ Asked(TaskRecord(u)', m)
                                    => <<u.client, m>> \in wanted'
                 /\ u.stage = "begin" <=> u.pc = "read"
                 /\ u.stage # "begin" => u.stage \in DueStages(run'[u.container], u.instant, u.config)
      <3>1. CASE u \in tasks
        BY <1>1, <1>3, <3>1, TaskStaysWanted DEF MovesOn, WantedInv, TasksDue
      <3>2. CASE u \in Onward(t, TaskRecord(t))
        <4>1. /\ u.container = t.container /\ u.client = t.client /\ u.instant = t.instant
              /\ u.config = TaskRecord(t) /\ u.pc # "read"
              /\ u.stage \in DueStages(run[t.container], t.instant, TaskRecord(t))
          BY <3>2 DEF Onward
        <4>2. /\ run'[u.container].now = run[t.container].now
              /\ run'[u.container].entry = run[t.container].entry
              /\ run'[u.container].catchUp = run[t.container].catchUp
          BY <1>3, <4>1, TaskFacts DEF MovesOn, RunsGoOn
        <4>3. /\ DueStages(run'[u.container], u.instant, u.config) = DueStages(run[t.container], t.instant, TaskRecord(t))
              /\ DueStages(run[t.container], t.instant, TaskRecord(t)) \subseteq Stages
          BY <4>1, <4>2, DueSame
        <4>4. u.stage # "begin"
          BY <4>1, <4>3 DEF Stages
        <4>5. TaskRecord(u)' = TaskRecord(t)
          BY <4>1, <4>4 DEF TaskRecord
        <4>6. QED
          BY <1>1, <4>1, <4>2, <4>3, <4>4, <4>5 DEF WantedInv, TasksWanted
      <3>3. QED
        BY <1>3, <3>1, <3>2 DEF MovesOn
    <2>2. QED
      BY <1>2, <2>1 DEF WantedInv, TasksWanted, TasksDue
  <1>4. ASSUME NEW pc \in {"claim", "push", "confirm", "release"}, Goto(t, pc), t.pc # "read"
        PROVE  WantedInv'
    <2>1. PICK w \in Tasks :
              /\ w.container = t.container /\ w.client = t.client /\ w.instant = t.instant
              /\ w.config = t.config /\ w.stage = t.stage /\ w.pc = pc
              /\ tasks' = (tasks \ {t}) \cup {w}
              /\ run' = run
      BY <1>4, GotoMoves
    <2>2. RunsGoOn
      BY <2>1 DEF RunsGoOn, OnceInv, TypeOK
    <2>3. ASSUME NEW u \in tasks'
          PROVE  /\ \A m \in Minutes : m < run'[u.container].now /\ Asked(TaskRecord(u)', m)
                                    => <<u.client, m>> \in wanted'
                 /\ u.stage = "begin" <=> u.pc = "read"
                 /\ u.stage # "begin" => u.stage \in DueStages(run'[u.container], u.instant, u.config)
      <3>1. CASE u \in tasks
        BY <1>1, <2>2, <3>1, TaskStaysWanted DEF WantedInv, TasksDue
      <3>2. CASE u = w
        BY <1>1, <1>4, <2>1, <2>2, <3>2, TaskStaysWanted DEF WantedInv, TasksDue
      <3>3. QED
        BY <2>1, <3>1, <3>2
    <2>4. QED
      BY <1>2, <2>3 DEF WantedInv, TasksWanted, TasksDue
  <1>5. CASE ClaimReminder(t)
    BY <1>4, <1>5 DEF ClaimReminder
  <1>6. CASE Push(t)
    <2>1. PICK pc \in {"confirm", "release"} : Goto(t, pc)
      BY <1>6 DEF Push
    <2>2. QED
      BY <1>4, <1>6, <2>1 DEF Push
  <1>7. CASE GuardCatchUp(t) /\ ~EarlierHandled(t)
    BY <1>4, <1>7 DEF GuardCatchUp
  <1>8. QED
    BY <1>3, <1>5, <1>6, <1>7, OnwardRecord DEF Serve

\* An edit dates the record it changes with the current minute.
LEMMA EditWanted ==
    ASSUME OnceInv, WantedInv, Edit, NEW c \in Clients,
           \A d \in Clients \ {c} : config'[d] = config[d],
           \A m \in Minutes : m < clock /\ Asked(config'[c], m) => Asked(config[c], m),
           \A reminder : \A m \in Minutes :
               m < clock /\ Asked([config'[c] EXCEPT !.reminder = reminder], m)
                   => Asked([config[c] EXCEPT !.reminder = reminder], m)
    PROVE  WantedInv'
  <1>1. UNCHANGED <<clock, run, tasks, wanted>>
    BY DEF Edit, ghostVars
  <1>2. RecordsWanted'
    <2>1. ASSUME NEW d \in Clients, NEW m \in Minutes, m < clock, Asked(config'[d], m)
          PROVE  <<d, m>> \in wanted
      <3>1. Asked(config[d], m)
        BY <2>1
      <3>2. QED
        BY <2>1, <3>1 DEF WantedInv, RecordsWanted
    <2>2. QED
      BY <1>1, <2>1 DEF RecordsWanted
  <1>3. TasksWanted'
    <2>1. ASSUME NEW t \in tasks, NEW m \in Minutes, m < run[t.container].now, Asked(TaskRecord(t)', m)
          PROVE  <<t.client, m>> \in wanted
      <3>1. m < clock
        <4>1. run[t.container].now <= clock /\ run[t.container].now \in Nat /\ clock \in Nat /\ m \in Nat
          BY TaskFacts, MinutesAreNat DEF OnceInv, RunsInTime, TypeOK, Runs
        <4>2. QED
          BY <2>1, <4>1
      <3>2. Asked(TaskRecord(t), m)
        <4>1. CASE t.stage = "begin" /\ t.client = c
          BY <2>1, <3>1, <4>1 DEF TaskRecord
        <4>2. CASE t.stage # "begin" \/ t.client # c
          <5>1. TaskRecord(t)' = TaskRecord(t)
            BY <4>2, TaskFacts DEF TaskRecord
          <5>2. QED
            BY <2>1, <5>1
        <4>3. QED
          BY <4>1, <4>2
      <3>3. QED
        BY <2>1, <3>2 DEF WantedInv, TasksWanted
    <2>2. QED
      BY <1>1, <2>1 DEF TasksWanted
  <1>4. TasksDue'
    BY <1>1 DEF WantedInv, TasksDue
  <1>5. QED
    BY <1>2, <1>3, <1>4 DEF WantedInv

LEMMA ClientsWanted ==
    ASSUME OnceInv, WantedInv, NEW c \in Clients,
           \/ SaveReminder(c) \/ SaveSubscription(c)
           \/ \E blocked \in Mutes : SavePreference(c, blocked)
    PROVE  WantedInv'
  <1>1. /\ config \in [Clients -> Configs] /\ config[c] \in Configs /\ clock \in Nat
        /\ \A m \in Minutes : m \in Nat
    BY MinutesAreNat DEF OnceInv, TypeOK
  <1>2. PICK new \in Configs :
           /\ config' = [config EXCEPT ![c] = new]
           /\ \/ /\ new.reminder \in {clock, Never} /\ new.subscription = config[c].subscription
                 /\ new.preference = config[c].preference
                 /\ new.blocked = config[c].blocked
              \/ new.subscription \in {clock, Never} \/ new.preference = clock
           /\ new.subscription \in {clock, Never} \/ new.preference = clock
              \/ /\ new.subscription = config[c].subscription /\ new.preference = config[c].preference
                 /\ new.blocked = config[c].blocked
    <2>1. CASE SaveReminder(c)
      <3> DEFINE new == [config[c] EXCEPT !.reminder = IF @ = Never THEN clock ELSE Never]
      <3>1. /\ new \in Configs /\ new.reminder \in {clock, Never}
            /\ new.subscription = config[c].subscription /\ new.preference = config[c].preference
            /\ new.blocked = config[c].blocked
        BY <1>1 DEF Configs, Times, OnceInv, TypeOK
      <3>2. config' = [config EXCEPT ![c] = new]
        BY <1>1, <2>1 DEF SaveReminder
      <3> HIDE DEF new
      <3>3. QED
        BY <3>1, <3>2
    <2>2. CASE SaveSubscription(c)
      <3> DEFINE new == [config[c] EXCEPT !.subscription = IF @ = Never THEN clock ELSE Never]
      <3>1. new \in Configs /\ new.subscription \in {clock, Never}
        BY <1>1 DEF Configs, Times, OnceInv, TypeOK
      <3>2. config' = [config EXCEPT ![c] = new]
        BY <1>1, <2>2 DEF SaveSubscription
      <3> HIDE DEF new
      <3>3. QED
        BY <3>1, <3>2
    <2>3. ASSUME NEW blocked \in Mutes, SavePreference(c, blocked)
          PROVE  \E new \in Configs : config' = [config EXCEPT ![c] = new] /\ new.preference = clock
      <3> DEFINE new == [config[c] EXCEPT !.preference = clock, !.blocked = blocked]
      <3>1. blocked \in SUBSET Minutes /\ clock \in Minutes
        BY MutesType
      <3>2. new \in Configs /\ new.preference = clock
        BY <1>1, <3>1 DEF Configs
      <3>3. config' = [config EXCEPT ![c] = new]
        BY <1>1, <2>3 DEF SavePreference
      <3> HIDE DEF new
      <3>4. QED
        BY <3>2, <3>3
    <2>4. QED
      BY <2>1, <2>2, <2>3
  <1>3. config'[c] = new /\ \A d \in Clients \ {c} : config'[d] = config[d]
    BY <1>1, <1>2
  <1>4. Edit
    BY DEF SaveReminder, SaveSubscription, SavePreference
  <1>5. \A m \in Minutes : m < clock /\ Asked(new, m) => Asked(config[c], m)
    BY <1>1, <1>2 DEF Asked, InPlace
  <1>6. ASSUME NEW m \in Minutes, NEW reminder, m < clock, Asked([new EXCEPT !.reminder = reminder], m)
        PROVE  Asked([config[c] EXCEPT !.reminder = reminder], m)
    <2> DEFINE new2 == [new EXCEPT !.reminder = reminder]
               old2 == [config[c] EXCEPT !.reminder = reminder]
    <2>1. /\ new2.reminder = reminder /\ new2.subscription = new.subscription
          /\ new2.preference = new.preference /\ new2.blocked = new.blocked
          /\ old2.reminder = reminder /\ old2.subscription = config[c].subscription
          /\ old2.preference = config[c].preference /\ old2.blocked = config[c].blocked
      BY <1>1 DEF Configs
    <2>2. Asked(new2, m)
      BY <1>6
    <2> HIDE DEF new2, old2
    <2>3. new.subscription # clock /\ new.subscription # Never /\ new.preference # clock
      BY <1>1, <1>6, <2>1, <2>2 DEF Asked, InPlace
    <2>4. Asked(old2, m)
      BY <1>2, <2>1, <2>2, <2>3 DEF Asked, InPlace
    <2>5. QED
      BY <2>4 DEF old2
  <1>7. QED
    BY <1>3, <1>4, <1>5, <1>6, EditWanted

\* The steps of the runs and of the schedule leave the tasks' records alone.
LEMMA RunsWanted ==
    ASSUME OnceInv, WantedInv,
           \/ \E start \in Starts : MoveStream(start)
           \/ GoLive
           \/ \E k \in Containers : \/ \E lag \in 0..Lookback : StartRun(k, lag)
                                    \/ EndRun(k) \/ RunFails(k) \/ Crash(k) \/ Recycle(k)
    PROVE  WantedInv'
  <1>1. UNCHANGED <<clock, config, wanted>> /\ tasks' \subseteq tasks
    BY DEF MoveStream, GoLive, Edit, StartRun, EndRun, RunFails, Crash, Recycle, scheduleVars, ghostVars
  <1>2. \A t \in tasks' : run'[t.container] = run[t.container]
    BY <1>1, TaskFacts DEF MoveStream, GoLive, Edit, StartRun, EndRun, RunFails, Crash, Recycle, OnceInv, TypeOK
  <1>3. \A t \in tasks' : TaskRecord(t)' = TaskRecord(t)
    BY <1>1 DEF TaskRecord
  <1>4. QED
    BY <1>1, <1>2, <1>3 DEF WantedInv, RecordsWanted, TasksWanted, TasksDue

LEMMA ScanWanted ==
    ASSUME OnceInv, WantedInv, NEW k \in Containers, Scan(k)
    PROVE  WantedInv'
  <1>1. /\ UNCHANGED <<clock, config, wanted>> /\ run[k] # Idle /\ run[k] \in Runs
        /\ \A t \in tasks : t.container # k
        /\ tasks \subseteq tasks'
    BY DEF Scan, scheduleVars, ghostVars, OnceInv, TypeOK
  <1>2. ASSUME NEW t \in tasks' \ tasks
        PROVE  /\ t.container = k /\ t.client \in Clients /\ t.config = config[t.client]
               /\ t.stage = "begin" /\ t.pc = "read"
    BY DEF Scan, Candidates
  <1>3. PICK instant : run' = [run EXCEPT ![k].todo = @ \ {instant}]
    BY DEF Scan
  <1>4. run'[k].now = run[k].now
    BY <1>1, <1>3 DEF Runs, OnceInv, TypeOK
  <1>5. \A t \in tasks : run'[t.container] = run[t.container] /\ TaskRecord(t)' = TaskRecord(t)
    BY <1>1, <1>3, TaskFacts DEF OnceInv, TypeOK, TaskRecord
  <1>6. ASSUME NEW t \in tasks' \ tasks, NEW m \in Minutes, m < run'[t.container].now, Asked(TaskRecord(t)', m)
        PROVE  <<t.client, m>> \in wanted
    <2>1. TaskRecord(t)' = config[t.client]
      BY <1>1, <1>2 DEF TaskRecord, OnceInv, TypeOK, Configs
    <2>2. m < clock
      <3>1. run[k].now <= clock /\ run[k].now \in Nat /\ clock \in Nat /\ m \in Nat
        BY <1>1, MinutesAreNat DEF OnceInv, RunsInTime, TypeOK, Runs
      <3>2. QED
        BY <1>2, <1>4, <1>6, <3>1
    <2>3. QED
      BY <1>2, <1>6, <2>1, <2>2 DEF WantedInv, RecordsWanted
  <1>7. RecordsWanted'
    BY <1>1 DEF WantedInv, RecordsWanted
  <1>8. TasksWanted'
    BY <1>1, <1>5, <1>6 DEF WantedInv, TasksWanted
  <1>9. TasksDue'
    BY <1>1, <1>2, <1>5 DEF WantedInv, TasksDue
  <1>10. QED
    BY <1>7, <1>8, <1>9 DEF WantedInv

LEMMA TickWanted ==
    ASSUME OnceInv, WantedInv, Tick
    PROVE  WantedInv'
  <1>1. /\ clock \in Nat /\ clock' = clock + 1 /\ wanted \subseteq wanted'
        /\ UNCHANGED <<config, run, tasks>>
        /\ \A c \in Clients : /\ config[c].reminder # Never /\ config[c].subscription # Never
                              /\ clock \notin config[c].blocked
                              => <<c, clock>> \in wanted'
    BY MinutesAreNat DEF Tick, scheduleVars, OnceInv, TypeOK
  <1>2. RecordsWanted'
    <2>1. ASSUME NEW c \in Clients, NEW m \in Minutes, m < clock', Asked(config[c], m)
          PROVE  <<c, m>> \in wanted'
      <3>1. m < clock \/ m = clock
        BY <1>1, <2>1, MinutesAreNat
      <3>2. CASE m < clock
        BY <1>1, <2>1, <3>2 DEF WantedInv, RecordsWanted
      <3>3. CASE m = clock
        BY <1>1, <2>1, <3>3 DEF Asked, InPlace
      <3>4. QED
        BY <3>1, <3>2, <3>3
    <2>2. QED
      BY <1>1, <2>1 DEF RecordsWanted
  <1>3. \A t \in tasks : TaskRecord(t)' = TaskRecord(t)
    BY <1>1 DEF TaskRecord
  <1>4. TasksWanted' /\ TasksDue'
    BY <1>1, <1>3 DEF WantedInv, TasksWanted, TasksDue
  <1>5. QED
    BY <1>2, <1>4 DEF WantedInv

LEMMA InitWanted == Init => WantedInv
  <1> SUFFICES ASSUME Init PROVE WantedInv
    OBVIOUS
  <1>1. tasks = {} /\ clock = 0
    BY DEF Init
  <1>2. QED
    BY <1>1, MinutesAreNat DEF WantedInv, RecordsWanted, TasksWanted, TasksDue

LEMMA StepWanted == OnceInv /\ WantedInv /\ [Next]_vars => WantedInv'
  <1> SUFFICES ASSUME OnceInv, WantedInv, [Next]_vars
               PROVE  WantedInv'
    OBVIOUS
  <1>1. CASE UNCHANGED vars
    <2>1. UNCHANGED <<clock, config, run, tasks, wanted>>
      BY <1>1 DEF vars
    <2>2. \A t : TaskRecord(t)' = TaskRecord(t)
      BY <2>1 DEF TaskRecord
    <2>3. QED
      BY <2>1, <2>2 DEF WantedInv, RecordsWanted, TasksWanted, TasksDue
  <1>2. CASE Next
    BY <1>2, ClientsWanted, RunsWanted, ScanWanted, ServeWanted, TickWanted DEF Next
  <1>3. QED
    BY <1>1, <1>2

\* "Enabling or editing anything afterwards never replays a reminder that
\* already came due": a reminder recovered after its minute goes to a client
\* whose reminder and subscription were on, with nothing blocking it, in the
\* minute it came due.  The dates of the records, read at different times by
\* the lookup and by the task, are enough to tell.
THEOREM RecoveredOnlyIfWanted == Spec => []RecoveredWasWanted
  <1>1. ASSUME OnceInv, WantedInv, NEW t \in tasks,
               t.pc = "push", t.stage # "catchUp", Recovered(run[t.container], t.instant)
        PROVE  <<t.client, FireAt(Kind(t), run[t.container].entry.start)>> \in wanted
    <2> DEFINE r == run[t.container]
               fire == FireAt(Kind(t), r.entry.start)
    <2>1. t.stage # "begin" /\ t.stage \in DueStages(r, t.instant, t.config)
      BY <1>1 DEF WantedInv, TasksDue
    <2>2. /\ r \in Runs /\ r.now \in Minutes /\ r.now \in Nat /\ t.instant \in Int /\ r.entry.start \in Starts
          /\ Kind(t) \in Kinds
      BY <1>1, TaskFacts, MinutesAreNat DEF Runs, Tasks
    <2>3. Kind(t) = t.stage
      <3>1. t.stage \in Stages
        BY <2>1, DueSame
      <3>2. QED
        BY <1>1, <3>1 DEF Stages, Kind
    <2>4. /\ InWindow(fire, t.instant) /\ fire \notin t.config.blocked
          /\ RecoveryAllows(Kind(t), r, t.config)
      BY <1>1, <2>1, <2>3 DEF DueStages
    <2>5. Asked(t.config, fire)
      BY <2>4 DEF RecoveryAllows, Asked, InPlace
    <2>6. fire \in Nat
      <3>1. \A kind \in Kinds, start \in Starts : FireAt(kind, start) \in Nat
        BY ReminderAssumption DEF FireAt
      <3>2. QED
        BY <2>2, <3>1
    <2>7. fire < r.now /\ fire \in Minutes
      <3>1. fire <= t.instant
        BY <2>4 DEF InWindow
      <3>2. t.instant < r.now
        BY <1>1, <2>2, ReminderAssumption DEF Recovered
      <3>3. QED
        BY <2>2, <2>6, <3>1, <3>2, ReminderAssumption DEF Minutes
    <2>8. TaskRecord(t) = t.config
      BY <2>1 DEF TaskRecord
    <2>9. QED
      BY <1>1, <2>5, <2>7, <2>8 DEF WantedInv, TasksWanted
  <1>2. OnceInv /\ WantedInv => RecoveredWasWanted
    BY <1>1 DEF RecoveredWasWanted
  <1>3. QED
    BY <1>2, OnceInvariant, InitWanted, StepWanted, PTL DEF Spec

-----------------------------------------------------------------------------
(* Moved streams *)

PriorStarts(e) == {e.prior[i] : i \in DOMAIN e.prior}

\* The starts an entry remembers, the current one among them.
KnownStarts(e) == IF e.status = "none" THEN {} ELSE {e.start} \cup PriorStarts(e)

Remembers == KnownStarts(stream) \subseteq KnownStarts(stream)'

\* The schedule forgets no start of the stream.
StartsRemembered == [][Remembers]_stream

AdvanceKey(c, s) == <<c, <<"advance", s>>>>

\* The reminder of another start was not sent, or by a run that overlaps the
\* run r.
Overlaps(r, c, s) ==
    log[AdvanceKey(c, s)].status = "delivered" => r.now <= log[AdvanceKey(c, s)].at + LambdaLimit

\* What a run does not know of the stream was sent while it was under way.
RunsKnow ==
    \A k \in Containers : run[k] # Idle =>
        /\ KnownStarts(run[k].entry) \subseteq KnownStarts(stream)
        /\ \A c \in Clients, s \in Starts \ KnownStarts(run[k].entry) : Overlaps(run[k], c, s)

RowsKnown ==
    \A c \in Clients, s \in Starts : log[AdvanceKey(c, s)].status # "none" => s \in KnownStarts(stream)

TasksKnow ==
    \A t \in tasks :
        /\ run[t.container].entry.status # "none"
        /\ t.stage = "catchUp" /\ t.pc \in {"claim", "push"} =>
              \A s \in Starts \ {run[t.container].entry.start} : Overlaps(run[t.container], t.client, s)

KnownInv == RunsKnow /\ RowsKnown /\ TasksKnow

LEMMA AdvanceKeys ==
    /\ \A c \in Clients, s \in Starts : AdvanceKey(c, s) \in Keys
    /\ \A t : Key(t) = <<t.client, <<Kind(t), run[t.container].entry.start>>>>
  BY DEF AdvanceKey, Keys, ReminderIds, Kinds, Key

\* What the task t makes of the rows: only its own is written, and a delivery
\* is dated with the start of its run.
RowsWritten(t) ==
    \A key \in Keys :
        \/ log'[key] = log[key]
        \/ log'[key].status = "none"
        \/ key = Key(t) /\ (log'[key].status = "delivered" => log'[key].at = run[t.container].now)

LEMMA ServeWrites ==
    ASSUME OnceInv, NEW t \in tasks, Serve(t)
    PROVE  RowsWritten(t)
  <1>1. Key(t) \in Keys /\ log \in [Keys -> Entries]
    BY TaskFacts DEF OnceInv, TypeOK
  <1>2. UNCHANGED log => RowsWritten(t)
    BY DEF RowsWritten
  <1>3. Claim(Key(t), run[t.container].now) => RowsWritten(t)
    BY <1>1 DEF Claim, RowsWritten
  <1>4. Confirm(Key(t), run[t.container].now) => RowsWritten(t)
    BY <1>1 DEF Confirm, RowsWritten
  <1>5. Release(Key(t)) => RowsWritten(t)
    BY <1>1 DEF Release, NoEntry, RowsWritten
  <1>6. QED
    BY <1>2, <1>3, <1>4, <1>5
       DEF Serve, LeaveUnserved, ReadClient, GuardFails, ClaimRefused, ClaimReplyLost, ConfirmReminder,
           ConfirmFails, ReleaseReminder, TaskFails, GuardCatchUp, ClaimReminder, Push

\* Whatever a task delivers, its run overlaps every run under way.
LEMMA OverlapsStay ==
    ASSUME OnceInv, NEW t \in tasks, RowsWritten(t), NEW k \in Containers, run[k] # Idle,
           run'[k].now = run[k].now, NEW c \in Clients, NEW s \in Starts, Overlaps(run[k], c, s)
    PROVE  Overlaps(run[k], c, s)'
  <1> DEFINE key == AdvanceKey(c, s)
  <1>1. /\ run[k].now \in Nat /\ run[t.container].now \in Nat /\ clock \in Nat
        /\ run[k].now <= clock /\ clock <= run[t.container].now + LambdaLimit
    BY TaskFacts, MinutesAreNat DEF OnceInv, TypeOK, RunsInTime, Deadline, Runs
  <1>2. LambdaLimit \in Nat
    BY ReminderAssumption DEF ReminderAssumption
  <1>3. run[k].now <= run[t.container].now + LambdaLimit
    BY <1>1, <1>2
  <1>4. key \in Keys
    BY AdvanceKeys
  <1>5. AdvanceKey(c, s)' = key
    BY DEF AdvanceKey
  <1> HIDE DEF key
  <1>6. CASE log'[key] = log[key]
    BY <1>5, <1>6 DEF Overlaps, key
  <1>7. CASE log'[key].status = "none"
    BY <1>5, <1>7 DEF Overlaps
  <1>8. CASE log'[key].status = "delivered" => log'[key].at = run[t.container].now
    BY <1>3, <1>5, <1>8 DEF Overlaps
  <1>9. QED
    BY <1>4, <1>6, <1>7, <1>8 DEF RowsWritten

\* A task that enters the catch-up has its guard to pass.
LEMMA EntersGuarded ==
    ASSUME OnceInv, NEW t \in tasks,
           \/ LeaveUnserved(t) \/ ReadClient(t) \/ GuardFails(t) \/ ClaimRefused(t)
           \/ ClaimReplyLost(t) \/ ConfirmReminder(t) \/ ConfirmFails(t)
           \/ ReleaseReminder(t) \/ TaskFails(t)
           \/ GuardCatchUp(t) /\ EarlierHandled(t)
    PROVE  \A u \in tasks' \ tasks : u.stage = "catchUp" => u.pc = "guard"
  <1>1. t \in Tasks
    BY TaskFacts
  <1>2. ASSUME NEW cfg, NextStage(t, cfg)
        PROVE  \A u \in tasks' \ tasks : u.stage = "catchUp" => u.pc = "guard"
    <2> DEFINE Entered(stage, pc) == [t EXCEPT !.config = cfg, !.stage = stage, !.pc = pc]
    <2>1. \/ tasks' = tasks \ {t}
          \/ \E stage \in {"advance", "start"} : tasks' = (tasks \ {t}) \cup {Entered(stage, "claim")}
          \/ tasks' = (tasks \ {t}) \cup {Entered("catchUp", "guard")}
      BY <1>2, Zenon DEF NextStage, Finish
    <2>2. \A stage, pc : Entered(stage, pc).stage = stage /\ Entered(stage, pc).pc = pc
      BY <1>1 DEF Tasks
    <2> HIDE DEF Entered
    <2>3. QED
      BY <2>1, <2>2
  <1>3. ASSUME NEW outcome, Finish(t, outcome)
        PROVE  tasks' \ tasks = {}
    BY <1>3 DEF Finish
  <1>4. QED
    BY <1>2, <1>3 DEF LeaveUnserved, ReadClient, GuardFails, ClaimRefused, ClaimReplyLost, ConfirmReminder,
                      ConfirmFails, ReleaseReminder, TaskFails, Raises, GuardCatchUp

\* A row is written for a start that the schedule knew when the run began.
LEMMA ServeRows ==
    ASSUME OnceInv, KnownInv, NEW t \in tasks, Serve(t), UNCHANGED stream
    PROVE  RowsKnown'
  <1>1. SUFFICES ASSUME NEW c \in Clients, NEW s \in Starts, log'[AdvanceKey(c, s)].status # "none"
                 PROVE  s \in KnownStarts(stream)
    BY DEF RowsKnown, KnownStarts, PriorStarts, AdvanceKey
  <1>2. RowsWritten(t) /\ AdvanceKey(c, s) \in Keys
    BY ServeWrites, AdvanceKeys
  <1>3. CASE log'[AdvanceKey(c, s)] = log[AdvanceKey(c, s)]
    BY <1>1, <1>3 DEF KnownInv, RowsKnown
  <1>4. CASE AdvanceKey(c, s) = Key(t)
    <2>1. s = run[t.container].entry.start
      BY <1>4 DEF AdvanceKey, Key
    <2>2. s \in KnownStarts(run[t.container].entry)
      BY <2>1 DEF KnownStarts, KnownInv, TasksKnow
    <2>3. QED
      BY <2>2, TaskFacts DEF KnownInv, RunsKnow
  <1>5. QED
    BY <1>1, <1>2, <1>3, <1>4 DEF RowsWritten

\* The guard of the catch-up: none of the starts the run knows of was
\* delivered, and the others only by runs that overlap it.
LEMMA GuardPassed ==
    ASSUME OnceInv, KnownInv, NEW t \in tasks, ~EarlierHandled(t),
           NEW s \in Starts \ {run[t.container].entry.start}
    PROVE  Overlaps(run[t.container], t.client, s)
  <1> DEFINE e == run[t.container].entry
  <1>1. CASE s \in KnownStarts(e)
    <2>1. PICK i \in DOMAIN e.prior : s = e.prior[i]
      BY <1>1 DEF KnownStarts, PriorStarts
    <2>2. ~Handled(AdvanceKey(t.client, s))
      BY <2>1 DEF EarlierHandled, AdvanceKey
    <2>3. QED
      BY <2>2 DEF Handled, Expired, Overlaps
  <1>2. CASE s \notin KnownStarts(e)
    BY <1>2, TaskFacts DEF KnownInv, RunsKnow
  <1>3. QED
    BY <1>1, <1>2

LEMMA ServeKnown ==
    ASSUME OnceInv, KnownInv, NEW t \in tasks, Serve(t)
    PROVE  KnownInv'
  <1>1. UNCHANGED stream /\ RowsWritten(t)
    <2>1. UNCHANGED stream
      BY DEF Serve, LeaveUnserved, ReadClient, GuardFails, ClaimRefused, ClaimReplyLost, ConfirmReminder,
             ConfirmFails, ReleaseReminder, TaskFails, GuardCatchUp, ClaimReminder, Push, scheduleVars
    <2>2. QED
      BY <2>1, ServeWrites
  <1> DEFINE onward == \/ LeaveUnserved(t) \/ ReadClient(t) \/ GuardFails(t) \/ ClaimRefused(t)
                       \/ ClaimReplyLost(t) \/ ConfirmReminder(t) \/ ConfirmFails(t)
                       \/ ReleaseReminder(t) \/ TaskFails(t)
                       \/ GuardCatchUp(t) /\ EarlierHandled(t)
             Passes == t.pc = "guard" /\ ~EarlierHandled(t)
             Moved(u) == u \notin tasks => /\ u.container = t.container /\ u.client = t.client
                                           /\ u.stage = "catchUp" /\ u.pc \in {"claim", "push"} =>
                                                 Passes \/ (t.stage = "catchUp" /\ t.pc \in {"claim", "push"})
  <1>2. RunsGoOn /\ \A u \in tasks' : Moved(u)
    <2>1. CASE onward
      <3>1. PICK cfg : MovesOn(t, cfg)
        BY <2>1, OnwardSteps
      <3>2. \A u \in tasks' \ tasks : u.stage = "catchUp" => u.pc = "guard"
        BY <2>1, EntersGuarded
      <3>3. \A u \in tasks' \ tasks : u.container = t.container /\ u.client = t.client
        BY <3>1 DEF MovesOn, Onward
      <3>4. QED
        BY <3>1, <3>2, <3>3 DEF MovesOn
    <2>2. ASSUME NEW pc \in {"claim", "push", "confirm", "release"}, Goto(t, pc),
                 pc \in {"claim", "push"} /\ t.stage = "catchUp" => Passes \/ t.pc \in {"claim", "push"}
          PROVE  RunsGoOn /\ \A u \in tasks' : Moved(u)
      <3>1. PICK m \in Tasks :
               /\ m.container = t.container /\ m.client = t.client /\ m.stage = t.stage /\ m.pc = pc
               /\ tasks' = (tasks \ {t}) \cup {m} /\ run' = run
        BY <2>2, GotoMoves
      <3>2. RunsGoOn
        BY <3>1 DEF RunsGoOn, OnceInv, TypeOK
      <3>3. \A u \in tasks' : Moved(u)
        BY <2>2, <3>1
      <3>4. QED
        BY <3>2, <3>3
    <2>3. CASE ClaimReminder(t)
      BY <2>2, <2>3 DEF ClaimReminder
    <2>4. CASE Push(t)
      <3>1. PICK pc \in {"confirm", "release"} : Goto(t, pc)
        BY <2>4 DEF Push
      <3>2. QED
        BY <2>2, <3>1
    <2>5. CASE GuardCatchUp(t) /\ ~EarlierHandled(t)
      BY <2>2, <2>5 DEF GuardCatchUp
    <2> HIDE DEF Moved, Passes
    <2>6. QED
      BY <2>1, <2>3, <2>4, <2>5 DEF Serve
  <1> HIDE DEF onward
  <1>3. ASSUME NEW k \in Containers, run'[k] # Idle
        PROVE  /\ run[k] # Idle /\ run'[k].now = run[k].now /\ run'[k].entry = run[k].entry
               /\ \A c \in Clients, s \in Starts : Overlaps(run[k], c, s) => Overlaps(run[k], c, s)'
    <2>1. run[k] # Idle /\ run'[k].now = run[k].now /\ run'[k].entry = run[k].entry
      BY <1>2, <1>3 DEF RunsGoOn
    <2>2. QED
      BY <1>1, <2>1, OverlapsStay
  <1>4. RunsKnow'
    <2>1. ASSUME NEW k \in Containers, run'[k] # Idle
          PROVE  /\ KnownStarts(run[k].entry)' = KnownStarts(run[k].entry)
                 /\ KnownStarts(stream)' = KnownStarts(stream)
      BY <1>1, <1>3, <2>1 DEF KnownStarts, PriorStarts
    <2>2. QED
      BY <1>3, <2>1, Zenon DEF KnownInv, RunsKnow
  <1>5. TasksKnow'
    <2>1. ASSUME NEW u \in tasks'
          PROVE  /\ u.container \in Containers /\ u.client \in Clients /\ run[u.container] # Idle
                 /\ run[u.container].entry.status # "none"
                 /\ u.stage = "catchUp" /\ u.pc \in {"claim", "push"} =>
                      \A s \in Starts \ {run[u.container].entry.start} : Overlaps(run[u.container], u.client, s)
      <3>1. CASE u \in tasks
        BY <3>1, TaskFacts DEF KnownInv, TasksKnow
      <3>2. CASE u \notin tasks
        <4>1. /\ u.container = t.container /\ u.client = t.client
              /\ u.stage = "catchUp" /\ u.pc \in {"claim", "push"} =>
                    ~EarlierHandled(t) \/ (t.stage = "catchUp" /\ t.pc \in {"claim", "push"})
          BY <1>2, <2>1, <3>2
        <4>2. QED
          BY <4>1, TaskFacts, GuardPassed DEF KnownInv, TasksKnow
      <3>3. QED
        BY <3>1, <3>2
    <2>2. ASSUME NEW u \in tasks'
          PROVE  run'[u.container] # Idle /\ run'[u.container].entry = run[u.container].entry
      BY <1>2, <2>1 DEF RunsGoOn
    <2>3. QED
      BY <1>3, <2>1, <2>2, Zenon DEF TasksKnow
  <1>6. QED
    BY <1>1, <1>4, <1>5, ServeRows DEF KnownInv

\* Everything else leaves the log alone, and starts no task of a stream that
\* the schedule does not know.
LEMMA RunsKnown ==
    ASSUME OnceInv, KnownInv, UNCHANGED log, UNCHANGED stream \/ Remembers,
           \A k \in Containers : run'[k] # Idle =>
               \/ run[k] # Idle /\ run'[k].now = run[k].now /\ run'[k].entry = run[k].entry
               \/ run'[k].entry = stream,
           \A u \in tasks' : /\ u.container \in Containers /\ run'[u.container] # Idle
                             /\ \/ u \in tasks /\ run'[u.container] = run[u.container]
                                \/ u.pc = "read" /\ run'[u.container].entry.status # "none"
    PROVE  KnownInv'
  <1>1. KnownStarts(stream) \subseteq KnownStarts(stream)'
    BY DEF Remembers, KnownStarts, PriorStarts
  <1>2. \A r, c, s : Overlaps(r, c, s) <=> \/ log'[AdvanceKey(c, s)].status # "delivered"
                                           \/ r.now <= log'[AdvanceKey(c, s)].at + LambdaLimit
    BY DEF Overlaps
  <1>3. RowsKnown'
    BY <1>1 DEF KnownInv, RowsKnown, AdvanceKey
  <1>4. RunsKnow'
    <2>1. SUFFICES ASSUME NEW k \in Containers, run'[k] # Idle
                   PROVE  /\ KnownStarts(run'[k].entry) \subseteq KnownStarts(stream)
                          /\ \A c \in Clients, s \in Starts \ KnownStarts(run'[k].entry) :
                                \/ log[AdvanceKey(c, s)].status # "delivered"
                                \/ run'[k].now <= log[AdvanceKey(c, s)].at + LambdaLimit
      <3>1. \A k : KnownStarts(run[k].entry)' = KnownStarts(run'[k].entry)
        BY DEF KnownStarts, PriorStarts
      <3>2. \A k, c, s : Overlaps(run[k], c, s)' <=>
                              \/ log'[AdvanceKey(c, s)].status # "delivered"
                              \/ run'[k].now <= log'[AdvanceKey(c, s)].at + LambdaLimit
        BY DEF Overlaps, AdvanceKey
      <3>3. QED
        BY <1>1, <2>1, <3>1, <3>2, Zenon DEF RunsKnow
    <2>2. CASE run[k] # Idle /\ run'[k].now = run[k].now /\ run'[k].entry = run[k].entry
      BY <1>2, <2>2 DEF KnownInv, RunsKnow
    <2>3. CASE run'[k].entry = stream
      BY <2>3 DEF KnownInv, RowsKnown
    <2>4. QED
      BY <2>1, <2>2, <2>3
  <1>5. TasksKnow'
    <2>1. ASSUME NEW u \in tasks', u \in tasks, run'[u.container] = run[u.container]
          PROVE  /\ run'[u.container].entry.status # "none"
                 /\ u.stage = "catchUp" /\ u.pc \in {"claim", "push"} =>
                       \A s \in Starts \ {run'[u.container].entry.start} :
                           Overlaps(run[u.container], u.client, s)'
      <3>1. \A s : Overlaps(run[u.container], u.client, s)' <=> Overlaps(run[u.container], u.client, s)
        BY <2>1 DEF Overlaps, AdvanceKey
      <3>2. QED
        BY <2>1, <3>1 DEF KnownInv, TasksKnow
    <2>2. QED
      BY <2>1, Zenon DEF TasksKnow
  <1>6. QED
    BY <1>3, <1>4, <1>5 DEF KnownInv

LEMMA StepKnown ==
    OnceInv /\ KnownInv /\ [Next]_vars /\ [Remembers]_stream => KnownInv'
  <1> SUFFICES ASSUME OnceInv, KnownInv, [Next]_vars, [Remembers]_stream
               PROVE  KnownInv'
    OBVIOUS
  <1>1. UNCHANGED stream \/ Remembers
    OBVIOUS
  <1>2. \A u \in tasks : u.container \in Containers /\ run[u.container] # Idle
    BY TaskFacts
  <1>3. CASE UNCHANGED <<log, run, tasks>>
    BY <1>1, <1>2, <1>3, RunsKnown
  <1>4. CASE UNCHANGED vars \/ (\E start \in Starts : MoveStream(start)) \/ GoLive \/ Tick
             \/ (\E c \in Clients : \/ SaveReminder(c) \/ SaveSubscription(c)
                                    \/ \E blocked \in Mutes : SavePreference(c, blocked))
             \/ (\E k \in Containers : Recycle(k))
    BY <1>3, <1>4 DEF vars, MoveStream, GoLive, Tick, SaveReminder, SaveSubscription, SavePreference, Edit, Recycle
  <1>5. ASSUME NEW k \in Containers, NEW lag \in 0..Lookback, StartRun(k, lag)
        PROVE  KnownInv'
    <2>1. /\ UNCHANGED <<log, stream, tasks>> /\ run[k] = Idle
          /\ \A j \in Containers \ {k} : run'[j] = run[j]
          /\ run'[k].entry = stream
      BY <1>5 DEF StartRun, scheduleVars, OnceInv, TypeOK
    <2>2. QED
      BY <1>1, <1>2, <2>1, RunsKnown
  <1>6. ASSUME NEW k \in Containers, Scan(k)
        PROVE  KnownInv'
    <2>1. /\ UNCHANGED <<log, stream>> /\ run[k] # Idle /\ run[k] \in Runs
          /\ \A u \in tasks : u.container # k
      BY <1>6 DEF Scan, scheduleVars, OnceInv, TypeOK
    <2>2. PICK instant : run' = [run EXCEPT ![k].todo = @ \ {instant}]
      BY <1>6 DEF Scan
    <2>3. /\ \A j \in Containers \ {k} : run'[j] = run[j]
          /\ run'[k].now = run[k].now /\ run'[k].entry = run[k].entry /\ run'[k] # Idle
      <3>1. run'[k].busy
        BY <2>1, <2>2 DEF Runs, OnceInv, TypeOK
      <3>2. QED
        BY <2>1, <2>2, <3>1 DEF Runs, Idle, OnceInv, TypeOK
    <2>4. \A u \in tasks' \ tasks : u.container = k /\ u.pc = "read" /\ run[k].entry.status # "none"
      BY <1>6 DEF Scan
    <2>5. QED
      BY <1>1, <1>2, <2>1, <2>3, <2>4, RunsKnown
  <1>7. ASSUME NEW k \in Containers, EndRun(k) \/ RunFails(k) \/ Crash(k)
        PROVE  KnownInv'
    <2>1. /\ UNCHANGED <<log, stream>> /\ tasks' \subseteq tasks
          /\ \A u \in tasks' : u.container # k
          /\ \A j \in Containers \ {k} : run'[j] = run[j]
          /\ run'[k] = Idle
      BY <1>7 DEF EndRun, RunFails, Crash, scheduleVars, OnceInv, TypeOK
    <2>2. QED
      BY <1>1, <1>2, <2>1, RunsKnown
  <1>8. QED
    BY <1>4, <1>5, <1>6, <1>7, ServeKnown DEF Next

LEMMA InitKnown == Init => KnownInv
  <1> SUFFICES ASSUME Init PROVE KnownInv
    OBVIOUS
  <1>1. tasks = {} /\ run = [k \in Containers |-> Idle] /\ log = [key \in Keys |-> NoEntry]
    BY DEF Init
  <1>2. \A c \in Clients, s \in Starts : log[AdvanceKey(c, s)].status = "none"
    BY <1>1, AdvanceKeys DEF NoEntry
  <1>3. QED
    BY <1>1, <1>2 DEF KnownInv, RunsKnow, RowsKnown, TasksKnow

\* No catch-up for a stream whose earlier start a client was already reminded
\* of, but by a run that overlapped, as long as the schedule remembers every
\* start: the guard reads the rows of the starts in its entry, and a start that
\* is not there was reminded of while the run was under way.
THEOREM AdvancedOnce == Spec /\ StartsRemembered => []NoSecondAdvance
  <1>1. KnownInv => NoSecondAdvance
    BY DEF KnownInv, TasksKnow, NoSecondAdvance, Overlaps, AdvanceKey
  <1>2. OnceInv /\ KnownInv /\ [Next]_vars /\ [Remembers]_stream => KnownInv'
    BY StepKnown
  <1>3. QED
    BY <1>1, <1>2, OnceInvariant, InitKnown, PTL DEF Spec, StartsRemembered

\* The list of earlier starts has room for one more whenever the stream moves.
RoomLeft == Len(stream.prior) <= edits

\* A stream that has moved no more often than the schedule remembers keeps
\* all its starts.
LEMMA MovesRemembered ==
    ASSUME MaxEdits <= MaxPrior, OnceInv, RoomLeft, NEW start \in Starts, MoveStream(start)
    PROVE  RoomLeft' /\ Remembers
  <1>1. /\ stream.prior \in Seq(Starts) /\ stream.start \in Starts
        /\ edits \in Nat /\ edits' = edits + 1 /\ edits < MaxEdits
        /\ MaxEdits \in Nat /\ MaxPrior \in Nat
    <2>1. MaxEdits \in Nat /\ MaxPrior \in Nat
      BY ReminderAssumption DEF ReminderAssumption
    <2>2. edits \in Nat /\ edits' = edits + 1 /\ edits < MaxEdits
      BY <2>1 DEF MoveStream, Edit, OnceInv, TypeOK
    <2>3. QED
      BY <2>1, <2>2, PriorSequence
  <1>2. stream'.status = "upcoming" /\ stream'.start = start /\ stream'.prior = Rescheduled
    BY DEF MoveStream
  <1>3. CASE stream.status = "none"
    <2>1. Rescheduled = <<>>
      BY <1>3 DEF Rescheduled
    <2>2. QED
      BY <1>1, <1>2, <1>3, <2>1 DEF RoomLeft, Remembers, KnownStarts
  <1>4. CASE stream.status # "none"
    <2> DEFINE all == Append(stream.prior, stream.start)
    <2>1. /\ all \in Seq(Starts) /\ Len(all) = Len(stream.prior) + 1 /\ Len(stream.prior) \in Nat
          /\ \A i \in DOMAIN stream.prior : i \in DOMAIN all /\ all[i] = stream.prior[i]
          /\ Len(all) \in DOMAIN all /\ all[Len(all)] = stream.start
      BY <1>1, AppendProperties
    <2> HIDE DEF all
    <2>2. LargestOf({1, Len(all) - MaxPrior + 1}) = 1
      <3>1. 1 \in Int /\ Len(all) - MaxPrior + 1 \in Int /\ Len(all) - MaxPrior + 1 <= 1
        BY <1>1, <2>1 DEF RoomLeft
      <3>2. /\ LargestOf({1, Len(all) - MaxPrior + 1}) \in {1, Len(all) - MaxPrior + 1}
            /\ 1 <= LargestOf({1, Len(all) - MaxPrior + 1})
        BY <3>1, LargestOfTwo, Zenon
      <3>3. QED
        BY <3>1, <3>2
    <2>3. Rescheduled = SubSeq(all, 1, Len(all))
      BY <1>4, <2>2 DEF Rescheduled, all
    <2>4. SubSeq(all, 1, Len(all)) = all
      BY <2>1
    <2>5. RoomLeft'
      BY <1>1, <1>2, <2>1, <2>3, <2>4 DEF RoomLeft
    <2>6. \A s \in KnownStarts(stream) : s \in PriorStarts(stream')
      <3>1. PriorStarts(stream') = {all[i] : i \in DOMAIN all}
        BY <1>2, <2>3, <2>4 DEF PriorStarts
      <3>2. KnownStarts(stream) = {stream.start} \cup {stream.prior[i] : i \in DOMAIN stream.prior}
        BY <1>4 DEF KnownStarts, PriorStarts
      <3>3. QED
        BY <2>1, <3>1, <3>2
    <2>7. Remembers
      <3>1. KnownStarts(stream)' = {stream'.start} \cup PriorStarts(stream')
        BY <1>2 DEF KnownStarts, PriorStarts
      <3>2. QED
        BY <2>6, <3>1 DEF Remembers
    <2>8. QED
      BY <2>5, <2>7
  <1>5. QED
    BY <1>3, <1>4

LEMMA StepRemembered ==
    ASSUME MaxEdits <= MaxPrior
    PROVE  OnceInv /\ RoomLeft /\ [Next]_vars => RoomLeft' /\ [Remembers]_stream
  <1> SUFFICES ASSUME OnceInv, RoomLeft, [Next]_vars
               PROVE  RoomLeft' /\ [Remembers]_stream
    OBVIOUS
  <1>1. edits \in Nat /\ Len(stream.prior) \in Nat /\ stream \in StreamEntries
    <2>1. edits \in 0..MaxEdits /\ stream \in StreamEntries
      BY DEF OnceInv, TypeOK
    <2>2. MaxEdits \in Nat
      BY ReminderAssumption DEF ReminderAssumption
    <2>3. Len(stream.prior) \in Nat
      BY PriorSequence
    <2>4. QED
      BY <2>1, <2>2, <2>3
  <1>2. CASE UNCHANGED stream /\ edits' \in {edits, edits + 1}
    BY <1>1, <1>2 DEF RoomLeft
  <1>3. CASE GoLive
    <2>1. /\ stream'.prior = stream.prior /\ stream'.start = stream.start
          /\ stream'.status = "live" /\ stream.status = "upcoming" /\ edits' = edits + 1
      BY <1>1, <1>3 DEF GoLive, Edit, StreamEntries
    <2>2. KnownStarts(stream)' = KnownStarts(stream)
      BY <2>1 DEF KnownStarts, PriorStarts
    <2>3. QED
      BY <1>1, <2>1, <2>2 DEF RoomLeft, Remembers
  <1>4. CASE \E start \in Starts : MoveStream(start)
    BY <1>4, MovesRemembered
  <1>5. ASSUME NEW t \in tasks, Serve(t)
        PROVE  UNCHANGED <<stream, edits>>
    BY <1>5 DEF Serve, LeaveUnserved, ReadClient, GuardFails, ClaimRefused, ClaimReplyLost, ConfirmReminder,
                ConfirmFails, ReleaseReminder, TaskFails, GuardCatchUp, ClaimReminder, Push, scheduleVars
  <1>6. QED
    BY <1>2, <1>3, <1>4, <1>5
       DEF Next, vars, SaveReminder, SaveSubscription, SavePreference, Edit,
           StartRun, Scan, EndRun, RunFails, Crash, Recycle, Tick, scheduleVars

\* A schedule that is derived anew no more often than it remembers starts
\* forgets none, and no client is reminded of a moved stream twice.
THEOREM AdvancedOnceWithRoom == ASSUME MaxEdits <= MaxPrior PROVE Spec => []NoSecondAdvance
  <1>1. Init => RoomLeft
    BY ReminderAssumption DEF Init, RoomLeft
  <1>2. OnceInv /\ RoomLeft /\ [Next]_vars => RoomLeft' /\ [Remembers]_stream
    BY StepRemembered
  <1>3. Spec => StartsRemembered
    BY <1>1, <1>2, OnceInvariant, PTL DEF Spec, StartsRemembered
  <1>4. QED
    BY <1>3, AdvancedOnce, PTL
=============================================================================
