-------------------------- MODULE ReminderSettings --------------------------
(***************************************************************************)
(* The reminder settings of one client: the routes its devices write them  *)
(* with (api/api_handler.py), the items they are stored in, and the lookup *)
(* of the dispatcher that starts from the streams due and queries the      *)
(* items by key (notifications/reminder_candidates.py).                    *)
(*                                                                         *)
(* The streams are those of one creator; the catch-up and the delivery are *)
(* ReminderDelivery's.                                                     *)
(***************************************************************************)
EXTENDS Integers, Sequences

CONSTANTS
    Devices,        \* tabs and devices that share the client id
    Streams,
    Topic,          \* the topic of each stream, or NoTopic
    NoTopic,
    Start,          \* the scheduled start of each stream
    Offsets,        \* ADVANCE_REMINDER_OFFSET_MINUTES
    Settings,       \* [notifyAtStart, advance] records, advance 0 for none
    MaxEdits,       \* bound: writes of the settings
    MaxFaults       \* bound: replies that are lost

Absent == [stored |-> "absent"]
Invalid == [stored |-> "invalid"]
NoSecret == 0

\* A stored advance is one of the offsets (parse_reminder_settings).
SettingsAssumption ==
    /\ Settings \subseteq [notifyAtStart : BOOLEAN, advance : {0} \cup Offsets]
    /\ \A v \in Streams : Start[v] \in Int
    /\ MaxEdits \in Nat /\ MaxFaults \in Nat

AllKey == <<"creator", "all">>
TopicKey(topic) == <<"creator", topic>>
OverrideKey(v) == <<"override", v>>
ReminderKeys ==
    {AllKey} \cup {TopicKey(Topic[v]) : v \in {w \in Streams : Topic[w] # NoTopic}} \cup {OverrideKey(v) : v \in Streams}

VARIABLES
    credential,     \* the secret whose hash is stored, or NoSecret
    known,          \* the secret each device was given
    items,          \* key -> setting, Absent, or Invalid
    lookup,         \* the lookup under way
    edits, faults

vars == <<credential, known, items, lookup, edits, faults>>

Idle == [pc |-> "idle"]

Init ==
    /\ credential = NoSecret
    /\ known = [d \in Devices |-> NoSecret]
    /\ items = [key \in ReminderKeys |-> Absent]
    /\ lookup = Idle
    /\ edits = 0
    /\ faults = 0

-----------------------------------------------------------------------------
(***************************************************************************)
(* The routes                                                              *)
(***************************************************************************)

\* create_secret: a conditional put.
CreateSecret(secret) == credential' = IF credential = NoSecret THEN secret ELSE credential

\* POST /clients/{clientId}/credential, with a secret that was never used.  The reply may be lost; a client that has a credential gets a 4xx.
Register(d) ==
    /\ known[d] = NoSecret
    /\ CreateSecret(credential + 1)
    /\ LET created == credential' # credential IN
       \/ /\ known' = IF created THEN [known EXCEPT ![d] = credential'] ELSE known
          /\ UNCHANGED faults
       \/ /\ created
          /\ faults < MaxFaults /\ faults' = faults + 1
          /\ UNCHANGED known
    /\ UNCHANGED <<items, lookup, edits>>

\* _require_client_secret
Authorized(d) == known[d] # NoSecret /\ known[d] = credential

\* One item is written; a lookup may be reading meanwhile.
Write(key, value) ==
    /\ edits < MaxEdits
    /\ edits' = edits + 1
    /\ items[key] # value
    /\ items' = [items EXCEPT ![key] = value]
    /\ lookup' = IF lookup.pc # "idle" THEN [lookup EXCEPT !.changed = @ \cup {key}] ELSE lookup
    /\ UNCHANGED <<credential, known, faults>>

\* PUT and DELETE of a creator reminder or of the override of one stream.
PutSetting(d, key, setting) == Authorized(d) /\ Write(key, setting)
DeleteSetting(d, key) == Authorized(d) /\ Write(key, Absent)

\* POST /remote-config, with the admin key, stores what it is given.
PostRemoteConfig(key) == Write(key, Invalid)

-----------------------------------------------------------------------------
(***************************************************************************)
(* The lookup                                                              *)
(***************************************************************************)
\* The moments at which a setting is due.
SettingDue(setting, v, moment) ==
    \/ setting.notifyAtStart /\ moment = Start[v]
    \/ setting.advance # 0 /\ moment = Start[v] - setting.advance

\* due_streams
DueStreams(moment) == {v \in Streams : \E offset \in Offsets \cup {0} : moment = Start[v] - offset}

\* The keys find_candidates queries.
QueriedKeys(v) ==
    {AllKey, OverrideKey(v)} \cup {TopicKey(topic) : topic \in {Topic[v]} \ {NoTopic}}

Valid(value) == value \in Settings

\* resolve_effective_setting: the winning setting replaces the others.
Resolve(v, found) ==
    CASE Valid(found[OverrideKey(v)]) -> found[OverrideKey(v)]
      [] ~Valid(found[OverrideKey(v)]) /\ Valid(found[AllKey]) -> found[AllKey]
      [] ~Valid(found[OverrideKey(v)]) /\ ~Valid(found[AllKey]) /\ Topic[v] # NoTopic -> found[TopicKey(Topic[v])]
      [] OTHER -> Absent

\* The streams due are found in memory; a minute without one reads nothing.
StartLookup(moment) ==
    /\ lookup.pc # "query"
    /\ DueStreams(moment) # {}
    /\ lookup' = [pc |-> "query", moment |-> moment, streams |-> DueStreams(moment),
                  left |-> UNION {QueriedKeys(v) : v \in DueStreams(moment)},
                  found |-> [key \in ReminderKeys |-> Absent], changed |-> {}, candidates |-> {}]
    /\ UNCHANGED <<credential, known, items, edits, faults>>

\* One query of the configKey index; parse_reminder_settings skips an item
\* that is not valid.  The streams come in no particular order.
Query(key) ==
    /\ lookup.pc = "query" /\ key \in lookup.left
    /\ lookup' = [lookup EXCEPT !.left = @ \ {key}, !.found[key] = IF Valid(items[key]) THEN items[key] ELSE Absent]
    /\ UNCHANGED <<credential, known, items, edits, faults>>

\* The streams for which the resolved setting may be due.
FindCandidates ==
    /\ lookup.pc = "query" /\ lookup.left = {}
    /\ lookup' = [lookup EXCEPT !.pc = "found", !.candidates =
          {v \in lookup.streams :
              LET setting == Resolve(v, lookup.found)
              IN  Valid(setting) /\ SettingDue(setting, v, lookup.moment)}]
    /\ UNCHANGED <<credential, known, items, edits, faults>>

\* The run goes on to deliver; a later one looks up anew.
EndLookup ==
    /\ lookup.pc = "found"
    /\ lookup' = Idle
    /\ UNCHANGED <<credential, known, items, edits, faults>>

Moments == {Start[v] - offset : v \in Streams, offset \in Offsets \cup {0}}

Next ==
    \/ \E d \in Devices : Register(d)
    \/ \E d \in Devices, key \in ReminderKeys :
          DeleteSetting(d, key) \/ \E setting \in Settings : PutSetting(d, key, setting)
    \/ \E key \in ReminderKeys : PostRemoteConfig(key) \/ Query(key)
    \/ \E moment \in Moments : StartLookup(moment)
    \/ FindCandidates \/ EndLookup

Spec == Init /\ [][Next]_vars

-----------------------------------------------------------------------------
(* Properties *)

TypeOK ==
    /\ credential \in Nat /\ known \in [Devices -> Nat]
    /\ items \in [ReminderKeys -> Settings \cup {Absent, Invalid}]
    /\ edits \in 0..MaxEdits /\ faults \in 0..MaxFaults

\* "It doesn't re-issue it": a secret a device was given opens the routes for
\* ever, however many devices register at the same time.
SecretsStand == \A d \in Devices : known[d] # NoSecret => Authorized(d)

\* What applies to a stream, from the client's complete settings.
Precedence(v) == <<OverrideKey(v), AllKey>> \o (IF Topic[v] = NoTopic THEN <<>> ELSE <<TopicKey(Topic[v])>>)
Applies(v, setting) ==
    LET keys == Precedence(v) IN
    \E i \in DOMAIN keys : items[keys[i]] = setting /\ \A j \in 1..(i - 1) : ~Valid(items[keys[j]])

\* "The resolution is exactly live_reminder.resolve_effective_setting": the
\* lookup by key finds the streams a reading of all the settings would find,
\* whatever is shadowed, damaged or unset; a stream whose own keys change
\* during the lookup is left out.
LookupIsExact ==
    lookup.pc = "found" =>
        \A v \in Streams :
            lookup.changed \cap QueriedKeys(v) = {} =>
                (v \in lookup.candidates <=>
                    \E setting \in Settings : Applies(v, setting) /\ SettingDue(setting, v, lookup.moment))

SettingsAreSound == TypeOK /\ SecretsStand /\ LookupIsExact
=============================================================================
