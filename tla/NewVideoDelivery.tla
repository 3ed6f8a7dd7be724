-------------------------- MODULE NewVideoDelivery --------------------------
(* New-video pushes to one client: its PUT /notification-preference rewrites  *)
(* the slot index and then the stored preference, in several store calls      *)
(* (api_handler, notification_slot_store); a run of the quarter-hour schedule *)
(* serves the client at its slots (new_video_dispatcher), through the claims  *)
(* of the delivery log, which this module is built on.                        *)
(*                                                                            *)
(* The clock counts quarter hours.  A slot comes every SlotLength of them and *)
(* the slots of a day repeat; what happens between two ticks has an instant   *)
(* of its own.  The settings that silence a single push, mute and quiet       *)
(* hours, are a free choice, and so is a run's end before it reaches the      *)
(* client (its deadline, or a store error over an earlier recipient).         *)
EXTENDS DeliveryLog, FiniteSets

CONSTANTS
    Announcement, \* the event of a discovered Premiere, or of any video
    Archive,      \* the event of the same Premiere's archive
    Containers,   \* warm Lambda containers
    SlotLength,   \* time between two slots of the index
    SlotsPerDay,  \* slots of a day
    SlotChoices,  \* the sets of slots the client may ask for
    EventLookback, \* days whose events remain deliverable (_EVENT_LOOKBACK_DAYS)
    MaxLag,       \* a run works at most so long after its tick
    MaxClock,     \* bound: the horizon
    MaxPuts,      \* bound: preference writes the client asks for
    MaxFaults     \* bound: failed store calls and pushes

VARIABLES
    found,    \* when each event was discovered, or Never
    pref,     \* the stored preference, or NoPref
    index,    \* the slot items of the client: activeSince of each, or Never
    put,      \* the PUT in progress, and how many were begun
    run,      \* the run each container is in the middle of
    memory,   \* the ids each container remembers as settled (_settled_cache)
    missed,   \* events since whose discovery the switches were off at a time
    cut,      \* history: an OFF has emptied the index
    pushes,   \* pushes accepted for each event
    unsure,   \* accepted pushes reported as failed, or not confirmed
    faults

vars == <<clock, log, found, pref, index, put, run, memory, missed, cut, pushes,
          unsure, faults>>

client == CHOOSE c \in Clients : TRUE
Key(e) == <<client, e>>

ASSUME NewVideoAssumption ==
    /\ Cardinality(Clients) = 1
    /\ Ids = {Announcement, Archive} /\ Announcement # Archive
    /\ SlotLength \in Nat \ {0} /\ SlotsPerDay \in Nat \ {0} /\ EventLookback \in Nat \ {0}
    /\ SlotChoices \subseteq SUBSET (0..(SlotsPerDay - 1)) /\ {} \notin SlotChoices
    /\ MaxClock \in Nat \ {0} /\ MaxPuts \in Nat /\ MaxFaults \in Nat /\ MaxLag \in Nat /\ ClaimExpiry \in Nat

Never == 0
Slots == 0..(SlotsPerDay - 1)
SlotOf(t) == (t \div SlotLength) % SlotsPerDay
IsTick(t) == t % SlotLength = 0

(* A preference: the master switch, the creator's new-video switch, the       *)
(* slots, when the creator was activated, and when it was written.            *)
NoPref == [on |-> FALSE, creator |-> FALSE, slots |-> {}, since |-> Never, at |-> Never]

\* The slots and switches under a master switch that is off do not matter.
Bodies == [on : {TRUE}, creator : BOOLEAN, slots : SlotChoices]
            \cup {[on |-> FALSE, creator |-> TRUE, slots |-> Slots]}

NoPut == [pc |-> "none", count |-> 0, body |-> NoPref, missing |-> {}, stale |-> {}, since |-> Never,
          had |-> {}]
Idle == [pc |-> "idle", tick |-> Never, since |-> Never, pref |-> NoPref, missed |-> {},
         todo |-> {}, event |-> Announcement]

Fails == faults < MaxFaults /\ faults' = faults + 1
Indexed == {s \in Slots : index[s] # Never}
Wants(p) == p.on /\ p.creator

-----------------------------------------------------------------------------
(* The client is new, or has a preference stored before activations were      *)
(* recorded and the index made for it.                                        *)
Init ==
    /\ clock = 1
    /\ \/ pref = NoPref /\ index = [s \in Slots |-> Never]
       \/ /\ pref = [on |-> TRUE, creator |-> TRUE, slots |-> {0}, since |-> Never, at |-> 1]
          /\ index = [s \in Slots |-> IF s = 0 THEN 1 ELSE Never]
    /\ log = [key \in Keys |-> NoEntry]
    /\ found = [e \in Ids |-> Never]
    /\ put = NoPut
    /\ run = [k \in Containers |-> Idle]
    /\ memory = [k \in Containers |-> {}]
    /\ missed = {}
    /\ cut = FALSE
    /\ pushes = [e \in Ids |-> 0]
    /\ unsure = [e \in Ids |-> 0]
    /\ faults = 0

(* Time passes, as far as the runs in progress and their lag allow.           *)
Passes ==
    /\ clock < MaxClock
    /\ \A k \in Containers : run[k].pc # "idle" => clock < run[k].tick + MaxLag
    /\ clock' = clock + 1

Advance == Passes /\ UNCHANGED <<log, found, pref, index, put, run, memory, missed, cut,
                                 pushes, unsure, faults>>

(* record_new_video_events and record_premiere_archived_event: one row each,  *)
(* never rewritten.                                                           *)
Discover(e) ==
    /\ found[e] = Never
    /\ e = Archive => found[Announcement] # Never
    /\ Passes
    /\ found' = [found EXCEPT ![e] = clock']
    /\ missed' = IF Wants(pref) \/ Wants(put.body) THEN missed ELSE missed \cup {e}
    /\ UNCHANGED <<log, pref, index, put, run, memory, cut, pushes, unsure, faults>>

-----------------------------------------------------------------------------
(* Mutant: an activation is carried over a preference that was OFF.           *)
StampedOverOff(body, now) ==
    LET carried == IF pref.creator
                   THEN IF pref.since # Never THEN pref.since ELSE pref.at
                   ELSE Never
    IN IF ~Wants(body) THEN Never ELSE IF carried # Never THEN carried ELSE now

(* stamp_new_video_activation: the creator keeps its instant if it was on     *)
(* under an enabled preference, else it is activated now; OFF keeps none.     *)
Stamped(body, now) ==
    LET carried == IF Wants(pref)
                   THEN IF pref.since # Never THEN pref.since ELSE pref.at
                   ELSE Never
    IN IF ~Wants(body) THEN Never ELSE IF carried # Never THEN carried ELSE now

(* The PUT is over and p is stored: what was found and is not wanted is old   *)
(* news from now on.                                                          *)
Ends(p) ==
    /\ put' = [NoPut EXCEPT !.count = put.count]
    /\ missed' = IF Wants(p) THEN missed ELSE missed \cup {e \in Ids : found[e] # Never}

(* A PUT reads the stored preference and makes the one to store.              *)
BeginPut ==
    /\ put.pc = "none" /\ put.count < MaxPuts
    /\ Passes
    /\ \E body \in Bodies :
         put' = [NoPut EXCEPT !.pc = "index", !.count = put.count + 1,
                    !.body = [on |-> body.on, creator |-> body.creator,
                              slots |-> body.slots, since |-> Stamped(body, clock'),
                              at |-> clock']]
    /\ UNCHANGED <<log, found, pref, index, run, memory, missed, cut, pushes, unsure, faults>>

(* The client's earliest activeSince, or now if it has no item.               *)
ActiveSince(now) ==
    IF Indexed = {} THEN now
    ELSE CHOOSE t \in {index[s] : s \in Indexed} : \A s \in Indexed : t <= index[s]

(* sync_client_slots and remove_client read the client's items.               *)
ReadIndex ==
    /\ put.pc = "index"
    /\ LET want == IF put.body.on THEN put.body.slots ELSE {}
           missing == want \ Indexed
           stale == Indexed \ want
       IN \/ /\ put' = [put EXCEPT !.missing = missing, !.stale = stale, !.had = Indexed,
                            !.since = ActiveSince(put.body.at),
                            !.pc = IF missing # {} THEN "add"
                                   ELSE IF stale # {} THEN "delete" ELSE "store"]
             /\ UNCHANGED <<missed, faults>>
          \/ Fails /\ Ends(pref)
    /\ UNCHANGED <<clock, log, found, pref, index, run, memory, cut, pushes, unsure>>

(* Mutant: a failed addition goes on to the deletions.                        *)
GoesOn == put' = [put EXCEPT !.pc = "delete"] /\ UNCHANGED missed

(* A store error ends the PUT.                                                *)
FailedAdd == Ends(pref)

(* The missing items are added first; a batch that fails may have added some. *)
AddSlots ==
    /\ put.pc = "add"
    /\ \E added \in SUBSET put.missing :
         /\ index' = [s \in Slots |-> IF s \in added THEN put.since ELSE index[s]]
         /\ \/ /\ added = put.missing
               /\ put' = [put EXCEPT !.pc = IF put.stale # {} THEN "delete" ELSE "store"]
               /\ UNCHANGED <<missed, faults>>
            \/ Fails /\ FailedAdd
    /\ UNCHANGED <<clock, log, found, pref, run, memory, cut, pushes, unsure>>

DeleteSlots ==
    /\ put.pc = "delete"
    /\ \E deleted \in SUBSET put.stale :
         /\ index' = [s \in Slots |-> IF s \in deleted THEN Never ELSE index[s]]
         /\ cut' = (cut \/ Indexed \subseteq deleted)
         /\ \/ /\ deleted = put.stale
               /\ put' = [put EXCEPT !.pc = "store"]
               /\ UNCHANGED <<missed, faults>>
            \/ Fails /\ Ends(pref)
    /\ UNCHANGED <<clock, log, found, pref, run, memory, pushes, unsure>>

(* put_remote_config, last.                                                   *)
StorePref ==
    /\ put.pc = "store"
    /\ \/ pref' = put.body /\ Ends(put.body) /\ UNCHANGED faults
       \/ Fails /\ Ends(pref) /\ UNCHANGED pref
    /\ UNCHANGED <<clock, log, found, index, run, memory, cut, pushes, unsure>>

-----------------------------------------------------------------------------
(* next_delivery_window_utc over the client's slots: the first tick of one of *)
(* them strictly after t.                                                     *)
NextWindow(slots, t) ==
    CHOOSE w \in (t + 1)..(t + SlotLength * SlotsPerDay) :
        /\ IsTick(w) /\ SlotOf(w) \in slots
        /\ \A u \in (t + 1)..(w - 1) : ~(IsTick(u) /\ SlotOf(u) \in slots)

(* A run, or the retry of a failed one, starts for a tick and finds the       *)
(* client in the index of its slot.                                           *)
StartRun(k) ==
    /\ run[k].pc = "idle"
    /\ \E tick \in {t \in 1..clock : IsTick(t) /\ t + MaxLag >= clock} :
         /\ index[SlotOf(tick)] # Never
         /\ run' = [run EXCEPT ![k] = [Idle EXCEPT !.pc = "serve", !.tick = tick,
                                                   !.since = index[SlotOf(tick)]]]
    /\ UNCHANGED <<clock, log, found, pref, index, put, memory, missed, cut, pushes,
                   unsure, faults>>

(* The run ends without the client: the deadline, or an error before it.      *)
EndRun(k) ==
    /\ run[k].pc \in {"serve", "read", "next"}
    /\ run' = [run EXCEPT ![k] = Idle]
    /\ UNCHANGED <<clock, log, found, pref, index, put, memory, missed, cut, pushes,
                   unsure, faults>>

(* pending_events: discovered by the tick, on one of the last calendar days.  *)
Day(t) == t \div (SlotLength * SlotsPerDay)

Pending(tick) ==
    {e \in Ids : /\ found[e] # Never /\ found[e] <= tick
                 /\ Day(tick) - Day(found[e]) < EventLookback}

(* The events that are still news to the client at a tick.                    *)
Deliverable(p, since, tick) ==
    {e \in Pending(tick) : NextWindow(p.slots, found[e]) > since}

(* with_legacy_new_video_activation: the last write stands for it.            *)
WithLegacyActivation(p) ==
    IF p.creator /\ p.since = Never THEN [p EXCEPT !.since = p.at] ELSE p

(* _serve_recipient: the stored preference decides whether the index is right *)
(* about this slot.                                                           *)
ServeClient(k) ==
    /\ run[k].pc = "serve"
    /\ LET r == run[k] IN
         run' = [run EXCEPT ![k] =
                   IF pref.on /\ SlotOf(r.tick) \in pref.slots
                   THEN [r EXCEPT !.pc = "read", !.pref = WithLegacyActivation(pref),
                                  !.missed = missed,
                                  !.todo = Deliverable(pref, r.since, r.tick)]
                   ELSE Idle]
    /\ UNCHANGED <<clock, log, found, pref, index, put, memory, missed, cut, pushes,
                   unsure, faults>>

(* What the container may remember: settled rows, which stay.                 *)
Remembered(handled) ==
    {e \in handled : log[Key(e)].status \in {"delivered", "suppressed"}}

(* delivered_video_ids, then _prioritize_archived_over_pending_announcement.  *)
(* The memory may have expired.                                               *)
ReadHandled(k) ==
    /\ run[k].pc = "read"
    /\ LET r == run[k] IN
       \E kept \in {memory[k] \cap r.todo, {}} :
         LET handled == kept \cup {e \in r.todo : StatusAt(Key(e), r.tick) # "none"}
             superseded == IF {Announcement, Archive} \subseteq r.todo \ handled
                           THEN {Announcement} ELSE {}
         IN /\ memory' = [memory EXCEPT ![k] = kept \cup Remembered(handled)]
            /\ run' = [run EXCEPT ![k] = [r EXCEPT !.pc = "next",
                                            !.todo = (r.todo \ handled) \ superseded]]
    /\ UNCHANGED <<clock, log, found, pref, index, put, missed, cut, pushes, unsure, faults>>

(* The oldest candidate first.                                                *)
IsNext(k, e) == e \in run[k].todo /\ \A other \in run[k].todo : found[e] <= found[other]

Drop(k, e) == run' = [run EXCEPT ![k] = [@ EXCEPT !.todo = run[k].todo \ {e}, !.pc = "next"]]

(* deliver_new_video_if_due up to its claim: not due, suppressed for good,    *)
(* silent now, claimed by another run, or claimed by this one.                *)
Unwanted(p, e) == ~p.creator \/ p.since = Never \/ found[e] < p.since

MarkSuppressed(e, now) ==
    IF log[Key(e)].status = "none"
    THEN log' = [log EXCEPT ![Key(e)] = [status |-> "suppressed", at |-> now]]
    ELSE UNCHANGED log

Decide(k, e) ==
    /\ run[k].pc = "next" /\ IsNext(k, e)
    /\ LET r == run[k] IN
       IF r.tick < NextWindow(r.pref.slots, found[e])
       THEN Drop(k, e) /\ UNCHANGED log
       ELSE IF Unwanted(r.pref, e)
       THEN Drop(k, e) /\ MarkSuppressed(e, r.tick)
       ELSE \/ Drop(k, e) /\ UNCHANGED log
            \/ /\ Claim(Key(e), r.tick)
               /\ run' = [run EXCEPT ![k] = [r EXCEPT !.pc = "push", !.event = e]]
            \/ /\ Handled(Key(e))
               /\ Drop(k, e) /\ UNCHANGED log
    /\ UNCHANGED <<clock, found, pref, index, put, memory, missed, cut, pushes, unsure, faults>>

(* The push service takes the message or does not; a read timeout reports as  *)
(* failed what may have been accepted.  A failed push gives its claim up.     *)
Push(k) ==
    /\ run[k].pc = "push"
    /\ LET pushed == [pushes EXCEPT ![run[k].event] = @ + 1] IN
       \/ /\ pushes' = pushed
          /\ run' = [run EXCEPT ![k].pc = "confirm"]
          /\ UNCHANGED <<unsure, faults>>
       \/ /\ Fails
          /\ run' = [run EXCEPT ![k].pc = "release"]
          /\ \/ UNCHANGED <<pushes, unsure>>
             \/ /\ pushes' = pushed
                /\ unsure' = [unsure EXCEPT ![run[k].event] = @ + 1]
    /\ UNCHANGED <<clock, log, found, pref, index, put, memory, missed, cut>>

(* confirm_delivered and release_claim.  Neither is caught: a failed write    *)
(* ends the run, as the end of its Lambda does.                               *)
Settle(k) ==
    /\ run[k].pc \in {"confirm", "release"}
    /\ LET e == run[k].event
           sent == run[k].pc = "confirm"
       IN
       \/ /\ IF sent THEN Confirm(Key(e), run[k].tick) ELSE Release(Key(e))
          /\ Drop(k, e)
          /\ UNCHANGED <<unsure, faults>>
       \/ /\ Fails
          /\ unsure' = IF sent THEN [unsure EXCEPT ![e] = @ + 1] ELSE unsure
          /\ run' = [run EXCEPT ![k] = Idle]
          /\ UNCHANGED log
    /\ UNCHANGED <<clock, found, pref, index, put, memory, missed, cut, pushes>>

Next ==
    \/ Advance
    \/ \E e \in Ids : Discover(e)
    \/ BeginPut \/ ReadIndex \/ AddSlots \/ DeleteSlots \/ StorePref
    \/ \E k \in Containers :
         \/ StartRun(k) \/ EndRun(k) \/ ServeClient(k) \/ ReadHandled(k)
         \/ \E e \in Ids : Decide(k, e)
         \/ Push(k) \/ Settle(k)

Spec == Init /\ [][Next]_vars

-----------------------------------------------------------------------------
(* Types, and that a run that serves the client knows since when a creator    *)
(* that is on has been on.                                                    *)
TypeOK ==
    /\ clock \in 1..MaxClock
    /\ log \in [Keys -> Entries]
    /\ found \in [Ids -> 0..MaxClock]
    /\ pref.slots \subseteq Slots /\ pref.since <= pref.at
    /\ index \in [Slots -> 0..MaxClock]
    /\ \A k \in Containers : run[k].todo \subseteq Ids /\ memory[k] \subseteq Ids
    /\ \A k \in Containers : run[k].pref.creator => run[k].pref.since # Never
    /\ missed \subseteq Ids
    /\ unsure \in [Ids -> 0..MaxFaults]
    /\ \A e \in Ids : unsure[e] <= pushes[e]

(* An event is pushed to the client once, and once more only for each push    *)
(* that was accepted but reported as failed (its claim is released for the    *)
(* next slot) or whose confirmation did not happen (its claim expires),       *)
(* whatever runs and retries overlap.                                         *)
OnePushPerConfirmation == \A e \in Ids : pushes[e] <= 1 + unsure[e]

(* No backlog: a run never pushes an event if, at its reading of the stored   *)
(* preference, the client or the creator had been switched off at any time    *)
(* since the discovery -- whatever was switched, retried and edited between.  *)
(* (A switch-on in progress at the discovery counts as on: it has its time.)  *)
NoBacklog ==
    \A k \in Containers : run[k].pc = "push" => run[k].event \notin run[k].missed

(* A PUT that fails part-way leaves the client at least the slots it had or   *)
(* the slots it asked for.                                                    *)
SyncKeepsSlots ==
    put.pc \in {"add", "delete", "store"} /\ put.body.on =>
        put.had \subseteq Indexed \/ put.body.slots \subseteq Indexed

(* An edit loses nothing: as long as the switches were on since its discovery *)
(* and the index was never emptied, a pending event is among those a run      *)
(* considers, whatever slots the client moved to.                             *)
NothingLostByEdits ==
    \A k \in Containers : run[k].pc = "read" /\ ~cut =>
        Pending(run[k].tick) \ run[k].missed \subseteq run[k].todo

(* What a warm container remembers as settled is settled.                     *)
RememberedIsSettled ==
    \A k \in Containers, e \in Ids :
        e \in memory[k] => log[Key(e)].status \in {"delivered", "suppressed"}

=============================================================================
