--------------------------- MODULE MCNotifications ---------------------------
\* Three parts of the per-minute notification Lambda and its API: new-video slots
\* (NewVideoDelivery), the reminders of a Premiere (PremiereReminder) and the
\* stored reminder settings with their lookup (ReminderSettings). The models
\* share no variable, so the steps of one say nothing about another: "part" moves
\* and the other two stay in one of their initial states.
EXTENDS NewVideoDelivery, TLC

CONSTANTS
    announcement, archive, k1, k2, d1, d2, v1, v2, none,
    \* the Premiere reminder (PremiereReminder)
    Starts, AdvanceOffset, StartGrace, MinRemaining, CarryForward, Lookback, LambdaLimit,
    ReminderExpiry, MaxReminderClock, MaxReminderEdits, MaxReminderFaults,
    \* the settings and their lookup (ReminderSettings)
    Devices, Streams, Topic, NoTopic, Start, Offsets, Settings, MaxSettingEdits, MaxSettingFaults

MCIds == {announcement, archive}
Symmetry == Permutations({k1, k2})

\* Of the two streams only v1 has a topic.
MCTopic == v1 :> "singing" @@ v2 :> none
MCStart == v1 :> 3 @@ v2 :> 2
MCSettings == {[notifyAtStart |-> FALSE, advance |-> 0],
               [notifyAtStart |-> TRUE, advance |-> 0],
               [notifyAtStart |-> FALSE, advance |-> 1]}

VARIABLES
    part,
    reminderClock, reminderLog, listing, entry, item, served, reminderRun,
    reminderPushes, unsettled, due, edits, reminderFaults,
    credential, known, items, lookup, settingEdits, settingFaults

reminderVars == <<reminderClock, reminderLog, listing, entry, item, served, reminderRun,
                  reminderPushes, unsettled, due, edits, reminderFaults>>
settingVars == <<credential, known, items, lookup, settingEdits, settingFaults>>

Reminder == INSTANCE PremiereReminder WITH
    clock <- reminderClock, log <- reminderLog, run <- reminderRun,
    pushes <- reminderPushes, faults <- reminderFaults,
    Advance <- AdvanceOffset, ClaimExpiry <- ReminderExpiry, MaxClock <- MaxReminderClock,
    MaxEdits <- MaxReminderEdits, MaxFaults <- MaxReminderFaults

Setting == INSTANCE ReminderSettings WITH
    edits <- settingEdits, faults <- settingFaults,
    MaxEdits <- MaxSettingEdits, MaxFaults <- MaxSettingFaults

ASSUME NotificationsAssumption == Reminder!ReminderAssumption /\ Setting!SettingsAssumption

MCInit ==
    /\ Init /\ Reminder!Init /\ Setting!Init
    /\ part \in {"slots", "reminder", "settings"}
    /\ part # "slots" => pref = NoPref
    /\ listing.start = CHOOSE t \in Starts : \A u \in Starts : u <= t
    /\ part # "reminder" => item = Reminder!NoItem

MCNext ==
    \/ part = "slots" /\ Next /\ UNCHANGED <<part, reminderVars, settingVars>>
    \/ part = "reminder" /\ Reminder!Next /\ UNCHANGED <<part, vars, settingVars>>
    \/ part = "settings" /\ Setting!Next /\ UNCHANGED <<part, vars, reminderVars>>

MCSpec == MCInit /\ [][MCNext]_<<part, vars, reminderVars, settingVars>>

\* No video is lost on the way to the client: a PUT that fails part-way costs it no
\* slot, an edit of the slots skips no video discovered while the switches were on
\* (sync_client_slots, activeSince in the index), and what a warm container remembers as
\* settled is settled in the log (delivered_video_ids).
NoVideoIsLost == TypeOK /\ SyncKeepsSlots /\ NothingLostByEdits /\ RememberedIsSettled

\* A Premiere reminder saved once is pushed once (consume_reminder); of the
\* settings, a secret is never replaced, and the lookup of a stream answers what
\* applied at some moment of it (resolve, register_credential).
RemindersAreSound ==
    /\ part = "reminder" => Reminder!SentOnce
    /\ part = "settings" => Setting!SettingsAreSound

\* The marker of a container never passes the minute of a Premiere reminder that
\* may still be sent (_last_served_ms).
MarkerPassesPremieres == Reminder!MarkerPassesPremieres
==============================================================================
