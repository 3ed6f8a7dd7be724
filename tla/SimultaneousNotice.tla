------------------------- MODULE SimultaneousNotice -------------------------
(***************************************************************************)
(* The delivery of the notice of one collision, two or more streams of     *)
(* different creators that start at the same instant (src/notifications/   *)
(* simultaneous_dispatcher.py and simultaneous_live.py).                   *)
(*                                                                         *)
(* Dispatcher runs overlap.  A run makes a pass over the collision: it     *)
(* reads the progress ledger, takes its lease with a compare-and-set,      *)
(* finds the recipients, serves them in chunks of a thread pool and writes *)
(* the progress back with a second compare-and-set.  The lease is shorter  *)
(* than the Lambda, so a pass may be overtaken by another one while it is  *)
(* still sending; the delivery log keeps the two apart.                    *)
(***************************************************************************)
EXTENDS Integers, Sequences, FiniteSets

CONSTANTS
    Clients,        \* numbers: recipients are served in this order
    Containers,     \* Lambda containers
    Streams,        \* the member streams, each of another creator
    Start,          \* the scheduled start of the collision
    ChunkSize,      \* _ATTEMPT_WORKERS
    Lease,          \* LEASE_MS
    MaxAttempts,    \* MAX_ATTEMPTS
    RetryDelay,     \* RETRY_DELAYS_MS, a sequence
    DeferMin,       \* DEFER_MIN_MS
    MaxWork,        \* MAX_WORK_ITEMS
    LambdaLimit,    \* the timeout of a run
    Margin,         \* _DEADLINE_MARGIN_MS
    ClaimExpiry,
    FirstConfig,    \* what each client has stored to begin with
    Edits,          \* bound: the edits that may happen, <<client, config>>
    MaxClock, MaxPasses,    \* bounds
    MaxFaults       \* bound: errors, crashes, edits and removals

\* notice_key: the streams of the collision that concern the client.
NoticeIds == {S \in SUBSET Streams : Cardinality(S) >= 2}

\* What the attempt reads of a client: the opt-in, the preference and the
\* push subscription together, the streams it has a reminder for, those
\* whose creator its preference allows, and the end of its mute or quiet
\* hours.
Configs == [on : BOOLEAN, reminders : SUBSET Streams, allowed : SUBSET Streams, blockedUntil : Nat]

ASSUME NoticeAssumption ==
    /\ Clients \subseteq Nat \ {0}
    /\ IsFiniteSet(Clients) /\ IsFiniteSet(Streams) /\ IsFiniteSet(Containers)
    /\ {Start, ChunkSize, Lease, MaxAttempts, LambdaLimit, ClaimExpiry} \subseteq Nat \ {0}
    /\ RetryDelay \in Seq(Nat \ {0}) /\ RetryDelay # <<>>
    /\ {DeferMin, MaxWork, Margin, MaxClock, MaxPasses, MaxFaults} \subseteq Nat
    /\ FirstConfig \in [Clients -> Configs] /\ Edits \subseteq Clients \X Configs

\* A claim is dated by the start of its run and still outlives the run.
ASSUME ClaimAssumption == LambdaLimit < ClaimExpiry

VARIABLES
    clock,
    log,
    ledger,     \* the record "simulNotice#<collision>"
    notice,     \* in the schedule record: "pending", "unlisted" or "gone"
    config,     \* what each client has stored
    memory,     \* _settled and _next_check_ms of each container
    pass,       \* the pass of each container, or Idle
    task,       \* the attempts of each pass, per client
    shown, unconfirmed, misreported,    \* ghosts: the fates of pushes
    tried,      \* ghost: attempts to push, per client
    dealt,      \* ghost: clients some pass was through with
    steady,     \* ghost: clients who want the notice since it is listed
    lost,       \* ghost: passes whose progress was not recorded
    passes, faults   \* counted against the bounds

INSTANCE DeliveryLog WITH Ids <- NoticeIds

pushVars == <<shown, unconfirmed, misreported, tried>>
boundVars == <<passes, faults>>
vars == <<clock, log, ledger, notice, config, memory, pass, task, shown, unconfirmed,
          misreported, tried, dealt, steady, lost, passes, faults>>

NoItem == [open |-> FALSE]

\* `retry` is whether the item was stored by an earlier attempt, whatever
\* its reason: only REASON_PENDING makes a difference.
Items == [open : {TRUE}, attempts : Nat, next : Nat, key : NoticeIds, retry : BOOLEAN]

\* Version 0 stands for no ledger at all: put_remote_config_versioned with
\* expected_version None creates it.
NoLedger == [version |-> 0, settled |-> FALSE, lease |-> 0, resolved |-> FALSE,
             cursor |-> 0, work |-> [c \in Clients |-> NoItem]]

Ledgers == [version : Nat, settled : BOOLEAN, lease : Nat, resolved : BOOLEAN,
            cursor : Clients \cup {0}, work : [Clients -> Items \cup {NoItem}]]

Idle == [busy |-> FALSE]

Passes == [busy : {TRUE}, pc : {"read", "lease", "resolve", "chunk", "serve"},
           now      : Nat,          \* read once, when the run starts
           ledger   : Ledgers,      \* as read, then as leased
           queue    : [Clients -> Items \cup {NoItem}],     \* not yet attempted
           fresh    : SUBSET Clients,                       \* found by this pass
           batch    : SUBSET Clients]                       \* being attempted

NoTask == [pc |-> "none"]

Tasks == [pc : {"look", "claim", "push", "confirm", "release", "done"},
          item : Items, kind : {"", "again", "dropped", "delivered", "gaveUp"}]

Open(work) == {c \in Clients : work[c] # NoItem}

Never == -1

\* Who wants the notice: opted in, with reminders for two of the members.
Recipient(cfg) == cfg.on /\ Cardinality(cfg.reminders) >= 2

Wants(cfg) == cfg.on /\ cfg.blockedUntil < Start /\ Cardinality(cfg.reminders \cap cfg.allowed) >= 2

Init ==
    /\ clock = 0 /\ log = [key \in Keys |-> NoEntry]
    /\ \/ ledger = [NoLedger EXCEPT !.version = 1] /\ faults = 0    \* register_new_collisions
       \/ ledger = NoLedger /\ faults = 1 /\ faults <= MaxFaults   \* its write failed
    /\ notice = "pending"
    /\ config = FirstConfig
    /\ memory = [k \in Containers |-> [settled |-> FALSE, next |-> 0]]
    /\ pass = [k \in Containers |-> Idle]
    /\ task = [k \in Containers |-> [c \in Clients |-> NoTask]]
    /\ shown = [key \in Keys |-> 0] /\ unconfirmed = shown /\ misreported = shown
    /\ tried = [c \in Clients |-> 0]
    /\ dealt = {} /\ steady = {c \in Clients : Wants(config[c])} /\ lost = 0
    /\ passes = 0

Fault == faults < MaxFaults /\ faults' = faults + 1

At(k, pc) == pass[k] # Idle /\ pass[k].pc = pc

Deadline(k) == pass[k].now + LambdaLimit

NearDeadline(k) == Deadline(k) - clock < Margin

End(k) == pass' = [pass EXCEPT ![k] = Idle]

-----------------------------------------------------------------------------
(* A pass *)

\* run(): only a listed collision whose start lies ahead, and what this
\* container remembers may spare it the read.
StartPass(k) ==
    /\ pass[k] = Idle /\ notice = "pending" /\ clock < Start /\ passes < MaxPasses
    /\ ~memory[k].settled /\ clock >= memory[k].next
    /\ pass' = [pass EXCEPT ![k] = [busy |-> TRUE, pc |-> "read", now |-> clock, ledger |-> NoLedger,
                                    queue |-> NoLedger.work, fresh |-> {}, batch |-> {}]]
    /\ passes' = passes + 1
    /\ UNCHANGED <<clock, log, ledger, notice, config, memory, task, pushVars, dealt, steady, lost, faults>>

Earliest(work) == CHOOSE t \in {work[c].next : c \in Open(work)} : \A c \in Open(work) : t <= work[c].next

\* The lease of another pass, or only retries that are not due.
Waiting(l, now) == l.lease > now \/ (l.resolved /\ Open(l.work) # {} /\ Earliest(l.work) > now)

ReadLedger(k) ==
    /\ At(k, "read")
    /\ IF ledger.settled \/ Waiting(ledger, pass[k].now)
       THEN /\ memory' = IF ledger.settled THEN [memory EXCEPT ![k].settled = TRUE]
                         ELSE IF ledger.lease > pass[k].now THEN memory
                         ELSE [memory EXCEPT ![k].next = Earliest(ledger.work)]
            /\ End(k)
       ELSE /\ pass' = [pass EXCEPT ![k].pc = "lease", ![k].ledger = ledger]
            /\ UNCHANGED memory
    /\ UNCHANGED <<clock, log, ledger, notice, config, task, pushVars, dealt, steady, lost, boundVars>>

\* Mutant: a put without its condition.
SwapsAlways(expected) == expected \in Nat

\* put_remote_config_versioned: the stored version is still the one read.
Swaps(expected) == ledger.version = expected

Leased(p) == [p.ledger EXCEPT !.version = @ + 1, !.lease = p.now + Lease]

TakeLease(k) ==
    /\ At(k, "lease")
    /\ IF Swaps(pass[k].ledger.version)
       THEN /\ ledger' = Leased(pass[k])
            /\ pass' = [pass EXCEPT ![k].pc = "resolve", ![k].ledger = Leased(pass[k])]
       ELSE UNCHANGED ledger /\ End(k)
    /\ UNCHANGED <<clock, log, notice, config, memory, task, pushVars, dealt, steady, lost, boundVars>>

\* An error ends the pass, whether or not the write arrived; a repeated
\* write is refused by the version the first one stored.
LeaseFails(k) ==
    /\ At(k, "lease") /\ Fault
    /\ ledger' \in {ledger} \cup {l \in {Leased(pass[k])} : Swaps(pass[k].ledger.version)}
    /\ End(k)
    /\ UNCHANGED <<clock, log, notice, config, memory, task, pushVars, dealt, steady, lost, passes>>

\* _resolve_recipients, less those an earlier pass was through with.
Found(l) == {c \in Clients : ~l.resolved /\ Recipient(config[c]) /\ c > l.cursor /\ l.work[c] = NoItem}

FirstItem(c, now) == [open |-> TRUE, attempts |-> 0, next |-> now, key |-> config[c].reminders, retry |-> FALSE]

Resolve(k) ==
    /\ At(k, "resolve")
    /\ LET p == pass[k]
           found == Found(p.ledger)
           due == {c \in Open(p.ledger.work) : p.ledger.work[c].next <= p.now}
       IN  pass' = [pass EXCEPT ![k].pc = "chunk", ![k].fresh = found,
                        ![k].queue = [c \in Clients |-> IF c \in found THEN FirstItem(c, p.now)
                                                        ELSE IF c \in due THEN p.ledger.work[c] ELSE NoItem]]
    /\ UNCHANGED <<clock, log, ledger, notice, config, memory, task, pushVars, dealt, steady, lost, boundVars>>

ResolveFails(k) ==
    /\ At(k, "resolve") /\ Fault /\ End(k)
    /\ UNCHANGED <<clock, log, ledger, notice, config, memory, task, pushVars, dealt, steady, lost, passes>>

FirstOf(S, n) == {c \in S : Cardinality({d \in S : d < c}) < n}

\* A round of the thread pool, unless the deadline is near.
StartChunk(k) ==
    /\ At(k, "chunk") /\ Open(pass[k].queue) # {} /\ ~NearDeadline(k)
    /\ LET batch == FirstOf(Open(pass[k].queue), ChunkSize)
       IN  /\ pass' = [pass EXCEPT ![k].pc = "serve", ![k].batch = batch]
           /\ task' = [task EXCEPT ![k] = [c \in Clients |->
                  IF c \in batch THEN [pc |-> "look", item |-> pass[k].queue[c], kind |-> ""] ELSE NoTask]]
    /\ UNCHANGED <<clock, log, ledger, notice, config, memory, pushVars, dealt, steady, lost, boundVars>>

\* More open retries than the ledger may hold: this one is given up.
Full(work, c) == Cardinality(Open(work)) >= MaxWork /\ work[c] = NoItem

\* One outcome entered into the work and the cursor of the pass.
Entered(l, k, c) ==
    LET t == task[k][c]
        kept == t.kind = "again" /\ ~Full(l.work, c)
    IN  [l EXCEPT !.work[c] = IF kept THEN t.item ELSE NoItem,
                  !.cursor = IF c \in pass[k].fresh THEN c ELSE @]

LastClient == CHOOSE n \in Clients \cup {0} : \A c \in Clients : c <= n

\* The outcomes of a chunk are entered in the order of its clients; entered[n]
\* is the ledger with those of the clients up to n.
Collected(k) ==
    LET entered[n \in 0..LastClient] ==
            IF n = 0 THEN pass[k].ledger
            ELSE IF n \in pass[k].batch THEN Entered(entered[n - 1], k, n)
            ELSE entered[n - 1]
    IN  entered[LastClient]

\* The chunk is through: its outcomes are entered.
CollectChunk(k) ==
    /\ At(k, "serve")
    /\ \A c \in pass[k].batch : task[k][c].pc = "done"
    /\ LET collected == Collected(k)
       IN  /\ pass' = [pass EXCEPT ![k].pc = "chunk", ![k].batch = {}, ![k].ledger = collected,
                           ![k].queue = [c \in Clients |-> IF c \in pass[k].batch THEN NoItem ELSE @[c]]]
           /\ dealt' = dealt \cup {c \in pass[k].batch : collected.work[c] = NoItem}
    /\ task' = [task EXCEPT ![k] = [c \in Clients |-> NoTask]]
    /\ UNCHANGED <<clock, log, ledger, notice, config, memory, pushVars, steady, lost, boundVars>>

\* Mutant: a pass that stopped early counts as complete.
ResolvedByAny(p) == p.now >= 0

\* Everybody was attempted once, by this pass or by an earlier one.
Resolved(p) == p.ledger.resolved \/ Open(p.queue) = {}

FinalLedger(p) == [p.ledger EXCEPT !.version = @ + 1, !.lease = 0, !.resolved = Resolved(p),
                       !.settled = Resolved(p) /\ Open(p.ledger.work) = {},
                       !.cursor = IF Resolved(p) THEN 0 ELSE @]

\* The queue is empty, or the deadline near.
Through(k) == At(k, "chunk") /\ (Open(pass[k].queue) = {} \/ NearDeadline(k))

WriteProgress(k) ==
    /\ Through(k)
    /\ LET final == FinalLedger(pass[k])
       IN  IF Swaps(pass[k].ledger.version)
           THEN /\ ledger' = final
                /\ memory' = IF final.settled THEN [memory EXCEPT ![k] = [settled |-> TRUE, next |-> 0]]
                             ELSE IF final.resolved THEN [memory EXCEPT ![k].next = Earliest(final.work)]
                             ELSE memory
                /\ UNCHANGED lost
           ELSE lost' = lost + 1 /\ UNCHANGED <<ledger, memory>>
    /\ End(k)
    /\ UNCHANGED <<clock, log, notice, config, task, pushVars, dealt, steady, boundVars>>

ProgressFails(k) ==
    /\ Through(k) /\ Fault
    /\ \/ UNCHANGED ledger /\ lost' = lost + 1
       \/ Swaps(pass[k].ledger.version) /\ ledger' = FinalLedger(pass[k]) /\ UNCHANGED lost
    /\ End(k)
    /\ UNCHANGED <<clock, log, notice, config, memory, task, pushVars, dealt, steady, passes>>

-----------------------------------------------------------------------------
(* An attempt to notify one client *)

Attempts(k, c, pc) == task[k][c].pc = pc

Goto(k, c, pc) == task' = [task EXCEPT ![k][c].pc = pc]

Done(k, c, kind, item) == task' = [task EXCEPT ![k][c] = [pc |-> "done", item |-> item, kind |-> kind]]

LargerOf(a, b) == IF a >= b THEN a ELSE b

Delay(attempts) == RetryDelay[IF attempts <= Len(RetryDelay) THEN attempts ELSE Len(RetryDelay)]

\* Mutant: a failed attempt is not counted.
RetryUncounted(k, c, count) ==
    LET item == task[k][c].item
    IN  Done(k, c, "again", [item EXCEPT !.next = pass[k].now + Delay(1), !.retry = TRUE])

\* _retry_or_give_up: only a failure counts, a claim held by another worker
\* is looked at again.
Retry(k, c, count) ==
    LET item == task[k][c].item
        attempts == item.attempts + (IF count THEN 1 ELSE 0)
    IN  IF attempts >= MaxAttempts THEN Done(k, c, "gaveUp", item)
        ELSE Done(k, c, "again", [item EXCEPT !.attempts = attempts, !.retry = TRUE,
                                      !.next = pass[k].now + Delay(LargerOf(attempts, 1))])

\* The streams the notice would name to the client now.  A first attempt
\* takes what the resolution found, a retry judges again.
Relevant(k, c) ==
    LET item == task[k][c].item
    IN  (IF item.retry THEN config[c].reminders ELSE item.key) \cap config[c].allowed

Settled(status) == status \in {"delivered", "suppressed"}

\* The decisions of _attempt before the claim: already delivered, nothing
\* to say, muted until then, held by somebody else.
Look(k, c) ==
    /\ Attempts(k, c, "look")
    /\ LET item == task[k][c].item
           now == pass[k].now
           key == Relevant(k, c)
           recheck == LargerOf(config[c].blockedUntil, now + DeferMin)
       IN  IF \/ Settled(StatusAt(<<c, item.key>>, now))
              \/ ~config[c].on \/ Cardinality(key) < 2
           THEN Done(k, c, "dropped", item)
           ELSE IF now < config[c].blockedUntil
           THEN IF recheck >= Start THEN Done(k, c, "dropped", item)
                ELSE Done(k, c, "again", [item EXCEPT !.next = recheck, !.key = key, !.retry = TRUE])
           ELSE IF Settled(StatusAt(<<c, key>>, now)) THEN Done(k, c, "dropped", item)
           ELSE IF StatusAt(<<c, key>>, now) = "claimed" THEN
                Done(k, c, "again", [item EXCEPT !.key = key, !.retry = TRUE,
                                         !.next = now + Delay(LargerOf(item.attempts, 1))])
           ELSE task' = [task EXCEPT ![k][c] = [@ EXCEPT !.pc = "claim", !.item = [item EXCEPT !.key = key]]]
    /\ UNCHANGED <<clock, log, ledger, notice, config, memory, pass, pushVars, dealt, steady, lost, boundVars>>

\* _attempt_safely: any error counts as a failed attempt.
LookFails(k, c) ==
    /\ Attempts(k, c, "look") /\ Fault
    /\ Retry(k, c, TRUE)
    /\ UNCHANGED <<clock, log, ledger, notice, config, memory, pass, pushVars, dealt, steady, lost, passes>>

KeyOf(k, c) == <<c, task[k][c].item.key>>

ClaimNotice(k, c) ==
    /\ Attempts(k, c, "claim")
    /\ \/ Claim(KeyOf(k, c), pass[k].now) /\ Goto(k, c, "push")
       \/ Handled(KeyOf(k, c)) /\ Retry(k, c, FALSE) /\ UNCHANGED log
    /\ UNCHANGED <<clock, ledger, notice, config, memory, pass, pushVars, dealt, steady, lost, boundVars>>

\* The claim fails; or it is written, its reply is lost and the repeated
\* call is refused by the row of the first.
ClaimFails(k, c) ==
    /\ Attempts(k, c, "claim") /\ Fault
    /\ \/ UNCHANGED log /\ Retry(k, c, TRUE)
       \/ Claim(KeyOf(k, c), pass[k].now) /\ \E count \in BOOLEAN : Retry(k, c, count)
    /\ UNCHANGED <<clock, ledger, notice, config, memory, pass, pushVars, dealt, steady, lost, passes>>

\* At most two requests; each may be accepted and reported as failed, which
\* counts as a fault.  An expired subscription ends the matter.
PushNotice(k, c) ==
    /\ Attempts(k, c, "push")
    /\ \E accepted \in 0..2, sent \in BOOLEAN :
          LET known == IF sent THEN 1 ELSE 0
          IN  /\ known <= accepted /\ accepted <= known + 1
              /\ IF accepted = known THEN UNCHANGED faults ELSE Fault
              /\ shown' = [shown EXCEPT ![KeyOf(k, c)] = @ + accepted]
              /\ misreported' = [misreported EXCEPT ![KeyOf(k, c)] = @ + accepted - known]
              /\ \/ sent /\ task' = [task EXCEPT ![k][c].pc = "confirm"]
                 \/ ~sent /\ task' = [task EXCEPT ![k][c] = [@ EXCEPT !.pc = "release", !.kind = "again"]]
                 \/ ~sent /\ accepted = 0 /\ task' = [task EXCEPT ![k][c] = [@ EXCEPT !.pc = "release", !.kind = "dropped"]]
    /\ tried' = [tried EXCEPT ![c] = @ + 1]
    /\ UNCHANGED <<clock, log, ledger, notice, config, memory, pass, unconfirmed, dealt, steady, lost, passes>>

ConfirmNotice(k, c) ==
    /\ Attempts(k, c, "confirm")
    /\ Confirm(KeyOf(k, c), pass[k].now)
    /\ Done(k, c, "delivered", task[k][c].item)
    /\ UNCHANGED <<clock, ledger, notice, config, memory, pass, pushVars, dealt, steady, lost, boundVars>>

\* A failed confirm is swallowed, and the claim stays until it expires.
ConfirmFails(k, c) ==
    /\ Attempts(k, c, "confirm") /\ Fault
    /\ UNCHANGED log \/ Confirm(KeyOf(k, c), pass[k].now)
    /\ unconfirmed' = [unconfirmed EXCEPT ![KeyOf(k, c)] = @ + 1]
    /\ Done(k, c, "delivered", task[k][c].item)
    /\ UNCHANGED <<clock, ledger, notice, config, memory, pass, shown, misreported, tried, dealt, steady, lost, passes>>

AfterRelease(k, c) == IF task[k][c].kind = "dropped" THEN Done(k, c, "dropped", task[k][c].item) ELSE Retry(k, c, TRUE)

ReleaseNotice(k, c) ==
    /\ Attempts(k, c, "release")
    /\ Release(KeyOf(k, c))
    /\ AfterRelease(k, c)
    /\ UNCHANGED <<clock, ledger, notice, config, memory, pass, pushVars, dealt, steady, lost, boundVars>>

ReleaseFails(k, c) ==
    /\ Attempts(k, c, "release") /\ Fault
    /\ UNCHANGED log \/ Release(KeyOf(k, c))
    /\ AfterRelease(k, c)
    /\ UNCHANGED <<clock, ledger, notice, config, memory, pass, pushVars, dealt, steady, lost, passes>>

-----------------------------------------------------------------------------
(* The environment *)

\* The Lambda dies, at its timeout or before; a warm container's memory goes
\* with it.
Crash(k) ==
    /\ pass[k] # Idle
    /\ IF clock = Deadline(k) THEN UNCHANGED faults ELSE Fault
    /\ misreported' = [key \in Keys |-> misreported[key] +
           Cardinality({c \in Clients : Attempts(k, c, "confirm") /\ KeyOf(k, c) = key})]
    /\ End(k)
    /\ task' = [task EXCEPT ![k] = [c \in Clients |-> NoTask]]
    /\ memory' = [memory EXCEPT ![k] = [settled |-> FALSE, next |-> 0]]
    /\ lost' = lost + 1
    /\ UNCHANGED <<clock, log, ledger, notice, config, shown, unconfirmed, tried, dealt, steady, passes>>

EditConfig(c) ==
    /\ Fault
    /\ \E edit \in Edits : edit[1] = c /\ config' = [config EXCEPT ![c] = edit[2]]
    /\ steady' = steady \ {c}
    /\ UNCHANGED <<clock, log, ledger, notice, memory, pass, task, pushVars, dealt, lost, passes>>

\* next_pending: a derivation of the schedule drops a notice whose ledger is
\* settled, or is not there.
Delist ==
    /\ notice = "pending" /\ (ledger.settled \/ ledger = NoLedger)
    /\ notice' = "unlisted"
    /\ UNCHANGED <<clock, log, ledger, config, memory, pass, task, pushVars, dealt, steady, lost, boundVars>>

\* The collision is gone; invalidate_removed deletes its ledger if it can.
Vanish ==
    /\ Fault
    /\ notice # "gone" /\ notice' = "gone"
    /\ ledger' \in {ledger, NoLedger}
    /\ UNCHANGED <<clock, log, config, memory, pass, task, pushVars, dealt, steady, lost, passes>>

Tick ==
    /\ clock < MaxClock
    /\ \A k \in Containers : pass[k] # Idle => clock < Deadline(k)
    /\ clock' = clock + 1
    /\ UNCHANGED <<log, ledger, notice, config, memory, pass, task, pushVars, dealt, steady, lost, boundVars>>

PassStep(k) ==
    \/ StartPass(k) \/ ReadLedger(k) \/ TakeLease(k) \/ LeaseFails(k) \/ Resolve(k) \/ ResolveFails(k)
    \/ StartChunk(k) \/ CollectChunk(k) \/ WriteProgress(k) \/ ProgressFails(k) \/ Crash(k)

AttemptStep(k, c) ==
    \/ Look(k, c) \/ LookFails(k, c) \/ ClaimNotice(k, c) \/ ClaimFails(k, c) \/ PushNotice(k, c)
    \/ ConfirmNotice(k, c) \/ ConfirmFails(k, c) \/ ReleaseNotice(k, c) \/ ReleaseFails(k, c)

Next ==
    \/ \E k \in Containers : PassStep(k)
    \/ \E k \in Containers, c \in Clients : AttemptStep(k, c)
    \/ \E c \in Clients : EditConfig(c)
    \/ Delist \/ Vanish \/ Tick

Spec == Init /\ [][Next]_vars

-----------------------------------------------------------------------------
(* Properties *)

\* Every variable keeps its type; the open retries never exceed
\* MAX_WORK_ITEMS, which keeps the ledger below DynamoDB's item limit.
TypeOK ==
    /\ clock \in Nat /\ log \in [Keys -> Entries] /\ notice \in {"pending", "unlisted", "gone"}
    /\ ledger \in Ledgers /\ Cardinality(Open(ledger.work)) <= MaxWork
    /\ config \in [Clients -> Configs]
    /\ memory \in [Containers -> [settled : BOOLEAN, next : Nat]]
    /\ pass \in [Containers -> Passes \cup {Idle}]
    /\ task \in [Containers -> [Clients -> Tasks \cup {NoTask}]]
    /\ {shown, unconfirmed, misreported} \subseteq [Keys -> Nat] /\ tried \in [Clients -> Nat]
    /\ dealt \subseteq Clients /\ steady \subseteq Clients
    /\ {lost, passes, faults} \subseteq Nat

\* "Collapses into one notification per client and relevant group through
\* the claim": although the lease lets two passes send at once, a client is
\* shown a notice again only after an acceptance the log never learned of.
OneNoticePerOutcome ==
    \A key \in Keys : shown[key] <= 1 + unconfirmed[key] + misreported[key]

\* Passes still at work although another one has taken over.
Overtaken == {k \in Containers : (At(k, "chunk") \/ At(k, "serve")) /\ pass[k].ledger.version # ledger.version}

\* "At most MAX_ATTEMPTS in total", across passes, containers and retries:
\* only a pass whose progress is lost, or bound to be, adds one.  (Runs that
\* still hold a schedule with a collision that is gone start over.)
AttemptsBounded ==
    /\ TypeOK
    /\ notice = "gone" \/ \A c \in Clients : tried[c] <= MaxAttempts + lost + Cardinality(Overtaken)

\* A settled notice has been dealt with for everyone who wanted it all the
\* time: cursor, chunks, retries and takeovers skip nobody.
SettledMeansServed == ledger.settled => steady \subseteq dealt

\* A settled ledger is not opened again by a pass that was overtaken, as
\* long as its collision stands: the version tells the two apart.  (Once
\* the ledger was deleted and created anew, versions repeat.)
SettledIsFinal == [][ledger.settled /\ notice # "gone" => ledger' \in {ledger, NoLedger}]_ledger
=============================================================================
