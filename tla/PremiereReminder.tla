-------------------------- MODULE PremiereReminder --------------------------
(***************************************************************************)
(* The one-time reminder of one Premiere (notifications/                   *)
(* premiere_reminder.py and the Premiere step of the dispatcher's run): a  *)
(* client stores one choice, the schedule keeps the Premiere's current     *)
(* start, and the run serves the minutes its container has not served      *)
(* yet.  A delivery is claimed in the log, and a delivered reminder is     *)
(* consumed: its item is deleted.                                          *)
(*                                                                         *)
(* ReminderDelivery models the reminders of livestreams in the same runs.  *)
(***************************************************************************)
EXTENDS Integers, FiniteSets

CONSTANTS
    Containers,     \* Lambda containers, one run at a time
    Starts,         \* the starts the Premiere may be given
    Advance,        \* the offset of the advance choice
    StartGrace,     \* _START_RECOVERY_GRACE
    MinRemaining,   \* CATCH_UP_MIN_REMAINING_MS
    CarryForward,   \* CARRY_FORWARD_AFTER_START_MS
    Lookback,       \* _MAX_RECOVERY_LOOKBACK
    LambdaLimit,    \* the timeout of a run
    ClaimExpiry,    \* _CLAIM_EXPIRY
    MaxClock,       \* bound of the time, in minutes
    MaxEdits,       \* bound: changes of the listing and of the stored item
    MaxFaults       \* bound: errors and crashes

Choices == {"at_start", "advance"}
Client == "client"
Never == -1

VARIABLES
    clock,
    log,
    listing,        \* how the snapshot lists the Premiere
    entry,          \* the start in the stored schedule, or Never
    item,           \* the stored reminder, or NoItem
    served,         \* _last_served_ms of each container
    run,
    pushes,         \* history: the pushes accepted for each saved item
    unsettled,      \* history: saved items that may be sent again
    due,            \* history: <<save, minute, start>> that came due, until a run deals with it
    edits, faults

INSTANCE DeliveryLog WITH Clients <- {Client}, Ids <- Choices \X Starts

history == <<pushes, unsettled, due>>
stores == <<log, entry, item>>
vars == <<clock, log, listing, entry, item, served, run, pushes, unsettled, due, edits, faults>>

\* Runs end well before a claim of theirs expires, and a start stays in the schedule
\* for as long as its reminder may be sent.
ReminderAssumption ==
    /\ Starts \subseteq Nat \ {0} /\ Advance \in Nat \ {0} /\ MinRemaining \in Nat \ {0}
    /\ StartGrace \in Nat /\ CarryForward \in Nat /\ StartGrace <= CarryForward
    /\ Lookback \in Nat /\ LambdaLimit \in Nat /\ ClaimExpiry \in Nat /\ 2 * LambdaLimit <= ClaimExpiry
    /\ MaxClock \in Nat /\ MaxEdits \in Nat /\ MaxFaults \in Nat

NoItem == [save |-> 0]
Idle == [pc |-> "idle"]
Saves == 1..(MaxEdits + 1)

Init ==
    /\ clock = 0
    /\ log = [key \in Keys |-> NoEntry]
    /\ listing \in [status : {"premiere"}, start : Starts]
    /\ entry = Never
    /\ item \in {NoItem} \cup [save : {1}, choice : Choices, at : {0}]
    /\ served = [k \in Containers |-> Never]
    /\ run = [k \in Containers |-> Idle]
    /\ pushes = [s \in Saves |-> 0]
    /\ unsettled = {} /\ due = {}
    /\ edits = 0
    /\ faults = 0

Fails == faults < MaxFaults /\ faults' = faults + 1
Works == faults' = faults
Edits == edits < MaxEdits /\ edits' = edits + 1 /\ Works

-----------------------------------------------------------------------------
(* The schedule and the stored item *)

FireAt(choice, start) == IF choice = "advance" THEN start - Advance ELSE start

\* Mutant: what the snapshot does not list is dropped at once.
DerivedFromListing == IF listing.status = "premiere" THEN listing.start ELSE Never

\* derive_entries: a started Premiere is carried on for a while when the
\* snapshot relabels it, but not when it lists an ordinary stream.
Derived ==
    CASE listing.status = "premiere" -> listing.start
      [] listing.status = "other"    -> Never
      [] listing.status = "gone"     ->
            IF entry # Never /\ entry <= clock /\ clock < entry + CarryForward THEN entry ELSE Never

\* The snapshot is refreshed: the Premiere moves, starts, is cancelled, or
\* turns out to be an ordinary stream.  A change before its start takes back
\* what came due for the old one.
Relist(status, start) ==
    /\ Edits
    /\ [status |-> status, start |-> start] # listing
    /\ listing' = [status |-> status, start |-> start]
    /\ due' = IF status = "gone" /\ start = listing.start /\ start <= clock THEN due ELSE {}
    /\ UNCHANGED <<clock, stores, served, run, pushes, unsettled>>

\* The client's PUT and DELETE.
Save(choice) ==
    /\ Edits
    /\ item' = [save |-> edits' + 1, choice |-> choice, at |-> clock]
    /\ due' = {}
    /\ UNCHANGED <<clock, log, entry, listing, served, run, pushes, unsettled>>

Delete ==
    /\ Edits
    /\ item # NoItem
    /\ item' = NoItem
    /\ due' = {}
    /\ UNCHANGED <<clock, log, entry, listing, served, run, pushes, unsettled>>

-----------------------------------------------------------------------------
(* A run *)

LargestOf(S) == CHOOSE x \in S : \A y \in S : y <= x

\* _evaluation_instants for a run that starts on its minute; a minute with no
\* Premiere due (due_entries) reads nothing.
Instants(k, start) ==
    LET known == IF served[k] = Never THEN clock - 2 ELSE served[k]
    IN  {i \in {clock} \cup (LargestOf({known, clock - Lookback}) + 1)..(clock - 1) :
            start # Never /\ \E choice \in Choices : FireAt(choice, start) = i}

\* _load_schedule: the schedule is derived anew, or the stored one is used.
StartRun(k) ==
    /\ run[k] = Idle
    /\ \E start \in {Derived, entry} :
        /\ run' = [run EXCEPT ![k] =
              [pc |-> "scan", now |-> clock, start |-> start, todo |-> Instants(k, start),
               instant |-> Never, item |-> NoItem, complete |-> TRUE]]
        /\ \/ Works /\ entry' = start
           \/ start # entry /\ Fails /\ UNCHANGED entry     \* derived, but not stored
    /\ UNCHANGED <<clock, log, item, listing, served, history, edits>>

\* _recovery_allows
RecoveryAllows(found, start, moment) ==
    /\ IF found.choice = "advance" THEN moment <= start - MinRemaining ELSE moment < start + StartGrace
    /\ found.at <= FireAt(found.choice, start)

\* find_candidates, is_due and the recovery of a missed minute.
Wanted(r, instant) ==
    /\ item # NoItem
    /\ FireAt(item.choice, r.start) = instant
    /\ instant < r.now => RecoveryAllows(item, r.start, r.now)

\* The oldest minute still to be served; the item is read by its key.
Scan(k) ==
    LET r == run[k]
        instant == CHOOSE i \in r.todo : \A j \in r.todo : i <= j
    IN  /\ r.pc = "scan" /\ r.todo # {}
        /\ run' = [run EXCEPT ![k] =
              IF Wanted(r, instant)
                THEN [r EXCEPT !.todo = @ \ {instant}, !.instant = instant, !.item = item, !.pc = "serve"]
                ELSE [r EXCEPT !.todo = @ \ {instant}]]
        /\ UNCHANGED <<clock, stores, listing, served, history, edits, faults>>

\* The lookup fails, and with it the Premiere step of the run.
ScanFails(k) ==
    /\ run[k].pc = "scan" /\ run[k].todo # {}
    /\ Fails
    /\ run' = [run EXCEPT ![k].todo = {}, ![k].complete = FALSE]
    /\ UNCHANGED <<clock, stores, listing, served, history, edits>>

Goto(k, pc) == run' = [run EXCEPT ![k].pc = pc]
Back(k) == run' = [run EXCEPT ![k].pc = "scan", ![k].item = NoItem]
Try(k) == due' = due \ {<<run[k].item.save, run[k].instant, run[k].start>>} /\ UNCHANGED <<pushes, unsettled>>
Key(k) == <<Client, <<run[k].item.choice, run[k].start>>>>

\* _near_deadline
LeaveUnserved(k) ==
    /\ run[k].pc = "serve"
    /\ clock > run[k].now
    /\ run' = [run EXCEPT ![k].pc = "scan", ![k].item = NoItem, ![k].complete = FALSE]
    /\ UNCHANGED <<clock, stores, listing, served, history, edits, faults>>

\* The client has no subscription, is muted, switched the creator off; or one
\* of its records cannot be read, which only skips the client.
NotNotified(k) ==
    /\ run[k].pc = "serve"
    /\ Back(k)
    /\ Try(k)
    /\ UNCHANGED <<clock, stores, listing, served, edits, faults>>

ClaimReminder(k) ==
    /\ run[k].pc = "serve"
    /\ \/ Claim(Key(k), run[k].now) /\ Goto(k, "push")
       \/ Handled(Key(k)) /\ Back(k) /\ UNCHANGED log
    /\ Try(k)
    /\ UNCHANGED <<clock, entry, item, listing, served, edits, faults>>

\* Another run read the same item, and sends it for the start it knows.
HeldElsewhere(k) ==
    \E j \in Containers \ {k} :
        run[j] # Idle /\ run[j].item = run[k].item /\ run[j].start # run[k].start

\* The push service may have accepted a push that was reported as failed.
Push(k) ==
    /\ run[k].pc = "push"
    /\ \E accepted, sent \in BOOLEAN :
        /\ sent => accepted
        /\ IF sent = accepted THEN Works ELSE Fails
        /\ pushes' = [pushes EXCEPT ![run[k].item.save] = IF accepted THEN @ + 1 ELSE @]
        /\ unsettled' = IF sent = accepted /\ ~HeldElsewhere(k) THEN unsettled ELSE unsettled \cup {run[k].item.save}
        /\ Goto(k, IF sent THEN "confirm" ELSE "release")
    /\ UNCHANGED <<clock, stores, listing, served, due, edits>>

\* A confirm that fails is a warning: the claim stays, and expires.
ConfirmReminder(k) ==
    /\ run[k].pc = "confirm"
    /\ \/ Works /\ Confirm(Key(k), run[k].now)
       \/ Fails /\ UNCHANGED log
    /\ Goto(k, "consume")
    /\ UNCHANGED <<clock, entry, item, listing, served, history, edits>>

ReleaseReminder(k) ==
    /\ run[k].pc = "release"
    /\ \/ Works /\ Release(Key(k))
       \/ Fails /\ UNCHANGED log
    /\ Back(k)
    /\ UNCHANGED <<clock, entry, item, listing, served, history, edits>>

\* Mutant: a delivered reminder stays stored.
KeepsItem == UNCHANGED item

\* delete_remote_config
Consumes == item' = NoItem

\* The item is deleted whatever it holds by now; a failure is a warning.
ConsumeReminder(k) ==
    /\ run[k].pc = "consume"
    /\ \/ Works /\ Consumes /\ unsettled' = unsettled \cup {s \in {run[k].item.save} : HeldElsewhere(k)}
       \/ Fails /\ UNCHANGED item /\ unsettled' = unsettled \cup {run[k].item.save}
    /\ Back(k)
    /\ UNCHANGED <<clock, log, entry, listing, served, pushes, due, edits>>

\* The marker moves after a complete run; the livestream reminders of the run
\* may have left someone unserved.
EndRun(k) ==
    /\ run[k].pc = "scan" /\ run[k].todo = {}
    /\ run' = [run EXCEPT ![k] = Idle]
    /\ \/ UNCHANGED served
       \/ run[k].complete /\ served' = [served EXCEPT ![k] = LargestOf({@, run[k].now})]
    /\ UNCHANGED <<clock, stores, listing, history, edits, faults>>

\* The run dies with its container.
Crash(k) ==
    /\ run[k] # Idle
    /\ IF clock = run[k].now + LambdaLimit THEN Works ELSE Fails
    /\ run' = [run EXCEPT ![k] = Idle]
    /\ served' = [served EXCEPT ![k] = Never]
    /\ unsettled' = unsettled \cup {s \in {run[k].item.save} : run[k].pc \in {"confirm", "consume"}}
    /\ UNCHANGED <<clock, stores, listing, pushes, due, edits>>

\* A minute passes: a reminder comes due that was saved by then, for a start
\* the schedule holds.
Tick ==
    /\ clock < MaxClock
    /\ \A k \in Containers : run[k] # Idle => clock < run[k].now + LambdaLimit
    /\ clock' = clock + 1
    /\ due' = due \cup
          {d \in {<<item.save, clock', entry>>} :
              /\ item # NoItem
              /\ listing = [status |-> "premiere", start |-> entry]
              /\ clock' = FireAt(item.choice, entry)}
    /\ UNCHANGED <<stores, listing, served, run, pushes, unsettled, edits, faults>>

Next ==
    \/ Tick
    \/ \E status \in {"premiere", "other", "gone"}, start \in Starts : Relist(status, start)
    \/ \E choice \in Choices : Save(choice)
    \/ Delete
    \/ \E k \in Containers :
          \/ StartRun(k) \/ Scan(k) \/ ScanFails(k) \/ EndRun(k) \/ Crash(k)
          \/ LeaveUnserved(k) \/ NotNotified(k) \/ ClaimReminder(k) \/ Push(k)
          \/ ConfirmReminder(k) \/ ReleaseReminder(k) \/ ConsumeReminder(k)

Spec == Init /\ [][Next]_vars

-----------------------------------------------------------------------------
(* Properties *)

TypeOK ==
    /\ clock \in 0..MaxClock
    /\ entry \in Starts \cup {Never}
    /\ item.save \in {0} \cup Saves
    /\ served \in [Containers -> (0..MaxClock) \cup {Never}]
    /\ pushes \in [Saves -> Nat]
    /\ unsettled \subseteq Saves
    /\ edits \in 0..MaxEdits /\ faults \in 0..MaxFaults

\* "A later reschedule of the Premiere cannot send it a second time": what was
\* saved once is pushed once, unless the consume or the outcome of the push was
\* lost, or runs for two starts held it at the same time.
SentOnce == TypeOK /\ \A s \in Saves : pushes[s] <= 1 \/ s \in unsettled

\* A container's marker never passes the minute of a reminder that was due and
\* may still be sent, before a run dealt with it; the Premiere may have started
\* and been relabelled meanwhile.
MarkerPassesPremieres ==
    [][\A k \in Containers : served'[k] \notin {served[k], Never} /\ served[k] # Never =>
         \A d \in due :
            /\ item.save = d[1]
            /\ LargestOf({served[k], run[k].now - Lookback}) < d[2] /\ d[2] <= run[k].now
            /\ RecoveryAllows(item, d[3], run[k].now)
            => FALSE]_vars
=============================================================================
