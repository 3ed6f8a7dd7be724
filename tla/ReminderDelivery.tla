-------------------------- MODULE ReminderDelivery --------------------------
(***************************************************************************)
(* The one-minute reminder run of the notification dispatcher (src/        *)
(* notifications/notification_dispatcher.py) for one stream: overlapping   *)
(* Lambda invocations work out which minutes they have to serve, look up   *)
(* the clients whose reminder is due and send each one at most once        *)
(* through the delivery log.                                               *)
(*                                                                         *)
(* A container runs one invocation at a time and remembers, while it is    *)
(* warm, the last minute it served.  Each due client of a minute is a task *)
(* of the thread pool; the tasks of all containers interleave.             *)
(***************************************************************************)
EXTENDS Integers, Sequences, FiniteSets

CONSTANTS
    Clients,
    Containers,     \* Lambda containers
    Starts,         \* scheduled starts the stream may be given
    Advance,        \* the offset of the advance reminder
    Window,         \* _REMINDER_WINDOW, the cadence of the runs
    Jitter,         \* _RECOVERY_JITTER
    Tolerance,      \* _RECOVERY_TOLERANCE
    Lookback,       \* _MAX_RECOVERY_LOOKBACK
    StartGrace,     \* _START_RECOVERY_GRACE
    MinRemaining,   \* CATCH_UP_MIN_REMAINING_MS
    MaxPrior,       \* MAX_PRIOR_START_MINUTES
    CatchUpSwitch,  \* the stored kill switch of the late-discovery catch-up
    LambdaLimit,    \* the timeout of a run
    ClaimExpiry,
    MaxClock,       \* bound: time stops here
    MaxRuns,        \* bound: runs in a behavior
    MaxEdits,       \* bound: changes of the schedule and of the clients
    MaxFaults       \* bound: errors and crashes

Kinds == {"advance", "start"}

ReminderIds == Kinds \X Starts

ASSUME ReminderAssumption ==
    /\ Starts \subseteq Nat
    /\ {Advance, Window, LambdaLimit, ClaimExpiry} \subseteq Nat \ {0}
    /\ {Jitter, Tolerance, Lookback, StartGrace, MinRemaining, MaxPrior} \subseteq Nat
    /\ \A s \in Starts : Advance <= s
    /\ CatchUpSwitch \in BOOLEAN
    /\ {MaxClock, MaxRuns, MaxEdits, MaxFaults} \subseteq Nat

\* "Comfortably longer than a single Lambda invocation's own maximum
\* execution time": 20 minutes against a timeout of 300 s.
ASSUME ExpiryAssumption == LambdaLimit < ClaimExpiry

VARIABLES
    clock,
    log,
    stream,         \* the entry of the stream in the "streamSchedule" record
    config,         \* the stored reminder, subscription and preference
    served,         \* _last_served_ms of each container, or Never
    run,            \* the run of each container, or Idle
    tasks,          \* the recipients being served
    shown,          \* pushes the push service accepted, per row of the log
    unconfirmed,    \* accepted pushes whose confirm failed
    misreported,    \* accepted pushes reported as failed, or cut off
    tried,          \* rows a task dealt with, or failed on
    wanted,         \* <<client, minute>>: a reminder of that minute was wanted
    runs, edits, faults     \* counted against the bounds

INSTANCE DeliveryLog WITH Ids <- ReminderIds

scheduleVars == <<stream, config>>
ghostVars == <<shown, unconfirmed, misreported, tried, wanted>>
vars == <<clock, log, stream, config, served, run, tasks, shown, unconfirmed, misreported, tried, wanted, runs, edits, faults>>

Never == -1                 \* no time is known
Minutes == 0..MaxClock
Times == Minutes \cup {Never}

SmallestOf(S) == CHOOSE x \in S : \A y \in S : x <= y
LargestOf(S) == CHOOSE x \in S : \A y \in S : y <= x

\* status "none" is a stream the schedule does not know.  `seenAt` is when
\* its current start was first seen, `prior` its earlier starts.
StreamEntries == [status : {"none", "upcoming", "live"},
                  start  : Starts,
                  seenAt : Times,
                  prior  : {<<>>} \cup UNION {[1..n -> Starts] : n \in 1..MaxPrior}]

\* When the reminder, the subscription and the preference were saved, and
\* the minutes in which the preference blocks a notification: a switch that
\* is off, a mute or quiet hours.
Configs == [reminder : Times, subscription : Times, preference : Minutes, blocked : SUBSET Minutes]

Idle == [busy |-> FALSE]

Runs == [busy     : {TRUE},
         now      : Minutes,        \* read once, when the run starts
         anchor   : Int,            \* the minute the run was scheduled for
         todo     : SUBSET Int,     \* minutes still to be served
         entry    : StreamEntries,  \* the schedule as loaded by the run
         catchUp  : BOOLEAN,        \* the kill switch as the run read it
         outcomes : SUBSET {"ok", "failed", "unserved"}]

Stages == {"advance", "catchUp", "start"}

Tasks == [container : Containers,
          client    : Clients,
          instant   : Int,
          config    : Configs,      \* read by the lookup, then by the task
          stage     : Stages \cup {"begin"},
          pc        : {"read", "guard", "claim", "push", "confirm", "release"}]

-----------------------------------------------------------------------------
(* What is due *)

FireAt(kind, start) == IF kind = "advance" THEN start - Advance ELSE start

InWindow(fire, instant) == fire <= instant /\ instant < fire + Window

Recovered(r, instant) == r.now - instant > Tolerance

\* Mutant: a recovered minute asks nothing of the saved times.
RecoveryAllowsAnyone(kind, r, cfg) ==
    IF kind = "advance" THEN r.now <= r.entry.start - MinRemaining
                        ELSE r.now < r.entry.start + StartGrace

\* _recovery_allows: still true, and in place when it came due.
RecoveryAllows(kind, r, cfg) ==
    /\ IF kind = "advance" THEN r.now <= r.entry.start - MinRemaining
                           ELSE r.now < r.entry.start + StartGrace
    /\ \A saved \in {cfg.reminder, cfg.subscription, cfg.preference} :
          saved # Never /\ saved <= FireAt(kind, r.entry.start)

\* is_advance_catch_up_due.  The preference is not among the saved times.
CatchUpDue(r, reminder, subscription) ==
    LET fire == FireAt("advance", r.entry.start)
    IN  /\ r.entry.status = "upcoming"
        /\ fire + Window <= r.now
        /\ r.now <= r.entry.start - MinRemaining
        /\ r.entry.seenAt # Never /\ fire < r.entry.seenAt
        /\ \A saved \in {reminder, subscription} : saved # Never /\ saved <= fire

\* What _deliver_reminders_if_due sends for the minute `instant`, as far as
\* the schedule and the client's own records decide it.
DueStages(r, instant, cfg) ==
    LET recovered == Recovered(r, instant)
        OnTime(kind) ==
            /\ InWindow(FireAt(kind, r.entry.start), instant)
            /\ FireAt(kind, r.entry.start) \notin cfg.blocked
            /\ recovered => RecoveryAllows(kind, r, cfg)
    IN  IF cfg.subscription = Never \/ r.now \in cfg.blocked THEN {}
        ELSE {kind \in Kinds : OnTime(kind)} \cup
             {s \in {"catchUp"} :
                 /\ ~recovered /\ r.catchUp
                 /\ CatchUpDue(r, cfg.reminder, cfg.subscription)
                 /\ FireAt("advance", r.entry.start) \notin cfg.blocked}

\* find_candidates: the clients whose stored reminder may be due.
Candidates(r, instant) ==
    {c \in Clients :
        /\ config[c].reminder # Never
        /\ \/ \E kind \in Kinds : InWindow(FireAt(kind, r.entry.start), instant)
           \/ /\ ~Recovered(r, instant) /\ r.catchUp
              /\ CatchUpDue(r, config[c].reminder, 0)}

\* _evaluation_instants: the minutes since the last one the container served.
Instants(k, anchor) ==
    LET known == IF served[k] = Never THEN anchor - 2 * Window ELSE served[k]
        last  == LargestOf({known, anchor - Lookback})
        limit == anchor - Window
    IN  IF Lookback = 0 \/ anchor - last <= Window + Jitter
          THEN {anchor}
          ELSE {anchor, limit} \cup {i \in (last + 1)..(limit - 1) : (i - last) % Window = 0}

-----------------------------------------------------------------------------

Init ==
    /\ clock = 0
    /\ log = [key \in Keys |-> NoEntry]
    /\ stream \in [status : {"none", "upcoming"}, start : Starts, seenAt : {Never}, prior : {<<>>}]
    /\ config \in [Clients -> [reminder : {0, Never}, subscription : {0}, preference : {0}, blocked : {{}}]]
    /\ served = [k \in Containers |-> Never]
    /\ run = [k \in Containers |-> Idle]
    /\ tasks = {}
    /\ shown = [key \in Keys |-> 0]
    /\ unconfirmed = [key \in Keys |-> 0]
    /\ misreported = [key \in Keys |-> 0]
    /\ tried = {}
    /\ wanted = {}
    /\ runs = 0
    /\ edits = 0
    /\ faults = 0

Fault ==
    /\ faults < MaxFaults
    /\ faults' = faults + 1

Edit ==
    /\ edits < MaxEdits
    /\ edits' = edits + 1
    /\ UNCHANGED <<clock, log, served, run, tasks, ghostVars, runs, faults>>

\* Mutant: no limit on the earlier starts.
RescheduledKeepsAll ==
    IF stream.status = "none" THEN <<>> ELSE Append(stream.prior, stream.start)

\* The earlier starts remembered when the stream moves.
Rescheduled ==
    LET all == Append(stream.prior, stream.start)
    IN  IF stream.status = "none" THEN <<>>
        ELSE SubSeq(all, LargestOf({1, Len(all) - MaxPrior + 1}), Len(all))

\* The schedule is derived anew (derive_first_seen): a stream appears, moves
\* to another start, or goes live.  Tracking that is not trusted stamps Never.
MoveStream(start) ==
    /\ Edit
    /\ stream.status = "none" \/ (stream.status = "upcoming" /\ start # stream.start)
    /\ \E seenAt \in {clock, Never} :
          stream' = [status |-> "upcoming", start |-> start, seenAt |-> seenAt, prior |-> Rescheduled]
    /\ UNCHANGED config

GoLive ==
    /\ Edit
    /\ stream.status = "upcoming"
    /\ stream' = [stream EXCEPT !.status = "live"]
    /\ UNCHANGED config

\* The client's own writes.
SaveReminder(c) ==
    /\ Edit
    /\ config' = [config EXCEPT ![c].reminder = IF @ = Never THEN clock ELSE Never]
    /\ UNCHANGED stream

SaveSubscription(c) ==
    /\ Edit
    /\ config' = [config EXCEPT ![c].subscription = IF @ = Never THEN clock ELSE Never]
    /\ UNCHANGED stream

SavePreference(c, blocked) ==
    /\ Edit
    /\ config' = [config EXCEPT ![c].preference = clock, ![c].blocked = blocked]
    /\ blocked # config[c].blocked
    /\ UNCHANGED stream

-----------------------------------------------------------------------------
(* A run *)

\* The Scheduler invokes every minute and retries what failed; a scheduled
\* time older than the lookback is ignored.
StartRun(k, lag) ==
    /\ run[k] = Idle
    /\ runs < MaxRuns
    /\ runs' = runs + 1
    /\ \E catchUp \in {FALSE, CatchUpSwitch} :
          run' = [run EXCEPT ![k] =
                    [busy |-> TRUE, now |-> clock, anchor |-> clock - lag, entry |-> stream,
                     todo |-> Instants(k, clock - lag), catchUp |-> catchUp, outcomes |-> {}]]
    /\ UNCHANGED <<clock, log, scheduleVars, served, tasks, ghostVars, edits, faults>>

\* The next minute, oldest first, once the tasks of the one before are done.
Scan(k) ==
    /\ run[k] # Idle
    /\ run[k].todo # {}
    /\ ~ \E t \in tasks : t.container = k
    /\ LET instant == SmallestOf(run[k].todo)
           due == IF run[k].entry.status = "none" THEN {} ELSE Candidates(run[k], instant)
       IN  /\ tasks' = tasks \cup
                 {[container |-> k, client |-> c, instant |-> instant,
                   config |-> config[c], stage |-> "begin", pc |-> "read"] : c \in due}
           /\ run' = [run EXCEPT ![k].todo = @ \ {instant}]
    /\ UNCHANGED <<clock, log, scheduleVars, served, ghostVars, runs, edits, faults>>

\* Mutant: a run that left recipients unserved moves the marker as well.
EndsWhenCutShort(k) ==
    served' = [served EXCEPT ![k] = LargestOf({@, run[k].anchor})]

\* A run in which everyone failed raises; one that left somebody unserved
\* returns; neither moves the marker.
Ends(k) ==
    IF run[k].outcomes \subseteq {"ok", "failed"} /\ run[k].outcomes # {"failed"}
      THEN served' = [served EXCEPT ![k] = LargestOf({@, run[k].anchor})]
      ELSE UNCHANGED served

EndRun(k) ==
    /\ run[k] # Idle
    /\ run[k].todo = {}
    /\ ~ \E t \in tasks : t.container = k
    /\ Ends(k)
    /\ run' = [run EXCEPT ![k] = Idle]
    /\ UNCHANGED <<clock, log, scheduleVars, tasks, ghostVars, runs, edits, faults>>

\* The lookup of the candidates fails, and with it the run.
RunFails(k) ==
    /\ run[k] # Idle
    /\ run[k].todo # {}
    /\ ~ \E t \in tasks : t.container = k
    /\ Fault
    /\ run' = [run EXCEPT ![k] = Idle]
    /\ UNCHANGED <<clock, log, scheduleVars, served, tasks, ghostVars, runs, edits>>

-----------------------------------------------------------------------------
(* One recipient *)

Kind(t) == IF t.stage = "start" THEN "start" ELSE "advance"

\* Advance and catch-up share the dedupe id of the start they are for.
Key(t) == <<t.client, <<Kind(t), run[t.container].entry.start>>>>

Deadline(k) == run[k].now + LambdaLimit

Finish(t, outcome) ==
    /\ tasks' = tasks \ {t}
    /\ run' = [run EXCEPT ![t.container].outcomes = @ \cup {outcome}]

Goto(t, pc) ==
    /\ tasks' = (tasks \ {t}) \cup {[t EXCEPT !.pc = pc]}
    /\ UNCHANGED run

\* The stages come in a fixed order: advance, catch-up, start.
After(stage) ==
    CASE stage = "begin"   -> Stages
      [] stage = "advance" -> {"catchUp", "start"}
      [] stage = "catchUp" -> {"start"}
      [] stage = "start"   -> {}

\* On to the next stage that is due, if there is one.
NextStage(t, cfg) ==
    LET left == After(t.stage) \cap DueStages(run[t.container], t.instant, cfg)
        Enter(stage, pc) ==
            /\ tasks' = (tasks \ {t}) \cup
                   {[t EXCEPT !.config = cfg, !.stage = stage, !.pc = pc]}
            /\ UNCHANGED run
    IN  \/ left = {} /\ Finish(t, "ok")
        \/ "advance" \in left /\ Enter("advance", "claim")
        \/ "advance" \notin left /\ "catchUp" \in left /\ Enter("catchUp", "guard")
        \/ left = {"start"} /\ Enter("start", "claim")

\* An exception ends the client's task, but not in the catch-up, whose errors
\* are swallowed.
Raises(t) ==
    IF t.stage = "catchUp" THEN NextStage(t, t.config) ELSE Finish(t, "failed")

\* _near_deadline: the recipient is not started, and its reminder is left to
\* the recovery of a later run.
LeaveUnserved(t) ==
    /\ t.pc = "read"
    /\ clock = Deadline(t.container)
    /\ Finish(t, "unserved")
    /\ UNCHANGED <<clock, log, scheduleVars, served, ghostVars, runs, edits, faults>>

\* _serve_client reads the preference and the subscription; the reminder is
\* the one the lookup found.
ReadClient(t) ==
    /\ t.pc = "read"
    /\ NextStage(t, [config[t.client] EXCEPT !.reminder = t.config.reminder])
    /\ UNCHANGED <<clock, log, scheduleVars, served, ghostVars, runs, edits, faults>>

\* Mutant: only the legacy row without a start is looked up.
NoneHandled(t) == FALSE

\* _earlier_advance_reminder_handled
EarlierHandled(t) ==
    \E i \in DOMAIN run[t.container].entry.prior :
        Handled(<<t.client, <<"advance", run[t.container].entry.prior[i]>>>>)

GuardCatchUp(t) ==
    /\ t.pc = "guard"
    /\ IF EarlierHandled(t) THEN NextStage(t, t.config) ELSE Goto(t, "claim")
    /\ UNCHANGED <<clock, log, scheduleVars, served, ghostVars, runs, edits, faults>>

\* The guard cannot be read: no catch-up.
GuardFails(t) ==
    /\ t.pc = "guard"
    /\ Fault
    /\ NextStage(t, t.config)
    /\ UNCHANGED <<clock, log, scheduleVars, served, ghostVars, runs, edits>>

Try(t) ==
    /\ tried' = tried \cup {Key(t)}
    /\ UNCHANGED <<shown, unconfirmed, misreported, wanted>>

\* already_delivered, then mark_delivered: the claim is dated with the time
\* the run started, and is the first access that can refuse.
ClaimReminder(t) ==
    /\ t.pc = "claim"
    /\ Claim(Key(t), run[t.container].now)
    /\ Goto(t, "push")
    /\ Try(t)
    /\ UNCHANGED <<clock, scheduleVars, served, runs, edits, faults>>

ClaimRefused(t) ==
    /\ t.pc = "claim"
    /\ Handled(Key(t))
    /\ NextStage(t, t.config)
    /\ Try(t)
    /\ UNCHANGED <<clock, log, scheduleVars, served, runs, edits, faults>>

\* The reply to the PutItem is lost, and the retry of the SDK is refused by
\* the row the first try wrote.
ClaimReplyLost(t) ==
    /\ t.pc = "claim"
    /\ Claim(Key(t), run[t.container].now)
    /\ Fault
    /\ NextStage(t, t.config)
    /\ Try(t)
    /\ UNCHANGED <<clock, scheduleVars, served, runs, edits>>

\* send_with_bounded_retry: at most two requests.  The push service may have
\* accepted one that was reported as failed.
Push(t) ==
    /\ t.pc = "push"
    /\ \E accepted \in 0..2, sent \in BOOLEAN :
          LET known == IF sent THEN 1 ELSE 0
          IN  /\ known <= accepted
              /\ IF known = accepted THEN UNCHANGED faults ELSE Fault
              /\ shown' = [shown EXCEPT ![Key(t)] = @ + accepted]
              /\ misreported' = [misreported EXCEPT ![Key(t)] = @ + accepted - known]
              /\ Goto(t, IF sent THEN "confirm" ELSE "release")
    /\ UNCHANGED <<clock, log, scheduleVars, served, unconfirmed, tried, wanted, runs, edits>>

ConfirmReminder(t) ==
    /\ t.pc = "confirm"
    /\ Confirm(Key(t), run[t.container].now)
    /\ NextStage(t, t.config)
    /\ UNCHANGED <<clock, scheduleVars, served, ghostVars, runs, edits, faults>>

\* The confirm fails: a warning, and the claim stays.
ConfirmFails(t) ==
    /\ t.pc = "confirm"
    /\ Fault
    /\ unconfirmed' = [unconfirmed EXCEPT ![Key(t)] = @ + 1]
    /\ NextStage(t, t.config)
    /\ UNCHANGED <<clock, log, scheduleVars, served, shown, misreported, tried, wanted, runs, edits>>

ReleaseReminder(t) ==
    /\ t.pc = "release"
    /\ Release(Key(t))
    /\ NextStage(t, t.config)
    /\ UNCHANGED <<clock, scheduleVars, served, ghostVars, runs, edits, faults>>

\* Any other store error, whether or not the access took effect.
TaskFails(t) ==
    /\ t.pc \in {"read", "claim", "confirm", "release"}
    /\ Fault
    /\ \/ UNCHANGED log
       \/ t.pc = "claim" /\ Claim(Key(t), run[t.container].now)
       \/ t.pc = "release" /\ Release(Key(t))
    /\ Raises(t)
    /\ tried' = tried \cup ({t.client} \X (Kinds \X {run[t.container].entry.start}))
    /\ unconfirmed' = IF t.pc = "confirm" THEN [unconfirmed EXCEPT ![Key(t)] = @ + 1] ELSE unconfirmed
    /\ UNCHANGED <<clock, scheduleVars, served, shown, misreported, wanted, runs, edits>>

Serve(t) ==
    \/ LeaveUnserved(t) \/ ReadClient(t) \/ GuardCatchUp(t) \/ GuardFails(t)
    \/ ClaimReminder(t) \/ ClaimRefused(t) \/ ClaimReplyLost(t) \/ Push(t)
    \/ ConfirmReminder(t) \/ ConfirmFails(t) \/ ReleaseReminder(t) \/ TaskFails(t)

-----------------------------------------------------------------------------
(* Crashes and time *)

\* The invocation dies, at the latest at its timeout, with its container.
Crash(k) ==
    /\ run[k] # Idle
    /\ IF clock = Deadline(k) THEN UNCHANGED faults ELSE Fault
    /\ misreported' = [key \in Keys |-> misreported[key] +
           Cardinality({t \in tasks : t.container = k /\ t.pc = "confirm" /\ Key(t) = key})]
    /\ tasks' = {t \in tasks : t.container # k}
    /\ run' = [run EXCEPT ![k] = Idle]
    /\ served' = [served EXCEPT ![k] = Never]
    /\ UNCHANGED <<clock, log, scheduleVars, shown, unconfirmed, tried, wanted, runs, edits>>

\* An idle container is recycled.
Recycle(k) ==
    /\ run[k] = Idle
    /\ served[k] # Never
    /\ served' = [served EXCEPT ![k] = Never]
    /\ UNCHANGED <<clock, log, scheduleVars, run, tasks, ghostVars, runs, edits, faults>>

Tick ==
    /\ clock < MaxClock
    /\ \A k \in Containers : run[k] # Idle => clock < Deadline(k)
    /\ clock' = clock + 1
    /\ wanted' = wanted \cup
          {<<c, clock>> : c \in {d \in Clients : /\ config[d].reminder # Never
                                                 /\ config[d].subscription # Never
                                                 /\ clock \notin config[d].blocked}}
    /\ UNCHANGED <<log, scheduleVars, served, run, tasks, shown, unconfirmed, misreported, tried, runs, edits, faults>>

Mutes == {{}, Minutes, 0..clock}

Next ==
    \/ \E start \in Starts : MoveStream(start)
    \/ GoLive
    \/ \E c \in Clients :
          SaveReminder(c) \/ SaveSubscription(c) \/ \E blocked \in Mutes : SavePreference(c, blocked)
    \/ \E k \in Containers :
          \/ \E lag \in 0..Lookback : StartRun(k, lag)
          \/ Scan(k) \/ EndRun(k) \/ RunFails(k) \/ Crash(k) \/ Recycle(k)
    \/ \E t \in tasks : Serve(t)
    \/ Tick

Spec == Init /\ [][Next]_vars

-----------------------------------------------------------------------------
(* Properties *)

TypeOK ==
    /\ clock \in Minutes
    /\ log \in [Keys -> Entries]
    /\ stream \in StreamEntries
    /\ config \in [Clients -> Configs]
    /\ served \in [Containers -> Int]
    /\ run \in [Containers -> Runs \cup {Idle}]
    /\ tasks \subseteq Tasks
    /\ shown \in [Keys -> Nat] /\ unconfirmed \in [Keys -> Nat] /\ misreported \in [Keys -> Nat]
    /\ tried \subseteq Keys
    /\ wanted \subseteq Clients \X Minutes
    /\ runs \in 0..MaxRuns /\ edits \in 0..MaxEdits /\ faults \in 0..MaxFaults

\* A client sees a reminder at most once, however runs overlap, retry and
\* crash, plus once for each push whose outcome the log never learned.
OnePushPerOutcome ==
    \A key \in Keys : shown[key] <= 1 + unconfirmed[key] + misreported[key]

\* A task that pushes, confirms or releases owns a live claim: it can neither
\* confirm nor delete the claim of another run.
SenderOwnsClaim ==
    \A t \in tasks : t.pc \in {"push", "confirm", "release"} =>
        /\ log[Key(t)] = [status |-> "claimed", at |-> run[t.container].now]
        /\ ~Expired(Key(t))
        /\ \A u \in tasks : u.pc \in {"push", "confirm", "release"} /\ Key(u) = Key(t) => u = t

\* "A delivered row is permanent": late releases and claims included.
DeliveredIsFinal ==
    [][\A key \in Keys : log[key].status = "delivered" => log'[key].status = "delivered"]_log

\* "Enabling or editing anything afterwards never replays a reminder that
\* already came due": whoever gets a recovered reminder wanted it when it was due.
RecoveredWasWanted ==
    \A t \in tasks :
        t.pc = "push" /\ t.stage # "catchUp" /\ Recovered(run[t.container], t.instant)
            => <<t.client, FireAt(Kind(t), run[t.container].entry.start)>> \in wanted

\* A run moves its container's marker past a minute only when everyone whose
\* reminder came due in it, and may still get it, was dealt with.
MarkerPassesServed ==
    [][\A k \in Containers : served'[k] \notin {served[k], Never} =>
         LET r == run[k]
             since == LargestOf({r.anchor - Lookback,
                                 IF served[k] = Never THEN r.anchor - 2 * Window ELSE served[k]})
         IN  \A c \in Clients, kind \in Kinds :
               LET fire == FireAt(kind, r.entry.start) IN
               /\ r.entry.status # "none"
               /\ since < fire /\ fire <= r.anchor
               /\ IF kind = "advance" THEN r.now <= r.entry.start - MinRemaining
                                      ELSE r.now < r.entry.start + StartGrace
               /\ \A saved \in {config[c].reminder, config[c].subscription, config[c].preference} :
                     saved # Never /\ saved < fire
               /\ {fire, r.now} \cap config[c].blocked = {}
               => <<c, <<kind, r.entry.start>>>> \in tried]_vars

\* No catch-up for a stream whose earlier start a client was already reminded
\* of, unless the two runs overlapped.
NoSecondAdvance ==
    \A t \in tasks : t.pc = "push" /\ t.stage = "catchUp" =>
        \A s \in Starts \ {run[t.container].entry.start} :
            LET earlier == log[<<t.client, <<"advance", s>>>>]
            IN  earlier.status = "delivered" => run[t.container].now <= earlier.at + LambdaLimit

=============================================================================
