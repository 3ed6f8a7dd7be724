------------------------ MODULE Notifications_proofs ------------------------
(***************************************************************************)
(* Proofs about the three parts of MCNotifications, for every set of       *)
(* containers, streams, devices and settings, every start of a Premiere    *)
(* and every number of edits and failures: no video is lost on the way to  *)
(* the client, a saved Premiere reminder is pushed once and passed by no   *)
(* marker, and the lookup of the settings answers what applied.            *)
(*                                                                         *)
(* NewsInv bounds what a client has missed by its activation, and EditInv  *)
(* says that no activation is younger than a video that is still owed;     *)
(* OwnerInv says that who sends owns the claim, alone, and counts the lost *)
(* outcomes of pushes.  SettingsInv relates what a lookup has read to what *)
(* is stored; ReminderInv follows one save from the store through the runs *)
(* that hold it to the row of its delivery.                                *)
(***************************************************************************)
EXTENDS MCNotifications, FiniteSetTheorems, NaturalsInduction, WellFoundedInduction, SequenceTheorems, TLAPS

-----------------------------------------------------------------------------
(* The inductive invariants *)

Preferences == [on : BOOLEAN, creator : BOOLEAN, slots : SUBSET Slots, since : Nat, at : Nat]

PutSound(p) ==
    /\ p = [pc |-> p.pc, count |-> p.count, body |-> p.body, missing |-> p.missing, stale |-> p.stale,
            since |-> p.since, had |-> p.had]
    /\ p.body \in Preferences

RunSound(r) == r \in [pc : {"idle", "serve", "read", "next", "push", "confirm", "release"}, tick : Nat,
                      since : {r.since}, pref : Preferences, missed : SUBSET Ids, todo : SUBSET Ids, event : Ids]

StoreTypes ==
    /\ clock \in Nat
    /\ found \in [Ids -> Nat] /\ \A e \in Ids : found[e] <= clock
    /\ pref \in Preferences /\ pref.at <= clock
    /\ PutSound(put) /\ put.body.at <= clock
    /\ missed \subseteq Ids

RunTypes == run = [k \in Containers |-> run[k]] /\ \A k \in Containers : RunSound(run[k])

\* Since when a preference that is on has been on.
Activation(p) == IF p.since # Never THEN p.since ELSE p.at

\* What was missed is older than every activation it could be measured by.
MissedIsOld ==
    /\ \A e \in missed : found[e] # Never
    /\ Wants(pref) => \A e \in missed : found[e] < Activation(pref)
    /\ Wants(put.body) => \A e \in missed : found[e] < put.body.since

RunMissedIsOld ==
    \A k \in Containers : \A e \in run[k].missed :
        /\ e \in Ids /\ found[e] # Never
        /\ run[k].pref.creator => found[e] < run[k].pref.since

NewsInv == StoreTypes /\ RunTypes /\ MissedIsOld /\ RunMissedIsOld /\ NoBacklog

Sends(k, e) == run[k].pc \in {"push", "confirm", "release"} /\ run[k].event = e

LogTypes ==
    /\ log \in [Keys -> Entries]
    /\ memory \in [Containers -> SUBSET Ids]
    /\ pushes \in [Ids -> Nat] /\ unsure \in [Ids -> Nat]

\* A run is never later than its lag.
OnTime == \A k \in Containers : run[k].pc # "idle" => clock <= run[k].tick + MaxLag

\* Who sends owns the claim, alone.
Owns == \A k \in Containers, e \in Ids : Sends(k, e) =>
            log[Key(e)].status = "claimed" /\ log[Key(e)].at = run[k].tick

OneOwner == \A e \in Ids, j, k \in Containers : Sends(j, e) /\ Sends(k, e) => j = k

Confirming(e) == \E k \in Containers : run[k].pc = "confirm" /\ run[k].event = e

Counted(e) == \/ pushes[e] <= unsure[e]
              \/ pushes[e] <= unsure[e] + 1 /\ (log[Key(e)].status = "delivered" \/ Confirming(e))

OwnerInv == LogTypes /\ OnTime /\ Owns /\ OneOwner /\ (\A e \in Ids : Counted(e)) /\ RememberedIsSettled

-----------------------------------------------------------------------------
(* Preference writes and discoveries *)

LEMMA NoPrefType == NoPref \in Preferences /\ ~Wants(NoPref)
  BY DEF NoPref, Preferences, Never, Wants

LEMMA BodiesType == ASSUME NEW body \in Bodies
                    PROVE  body.on \in BOOLEAN /\ body.creator \in BOOLEAN /\ body.slots \subseteq Slots
  <1>1. SlotChoices \subseteq SUBSET Slots
    BY NewVideoAssumption DEF Slots
  <1>2. CASE body \in [on : {TRUE}, creator : BOOLEAN, slots : SlotChoices]
    BY <1>1, <1>2
  <1>3. CASE body = [on |-> FALSE, creator |-> TRUE, slots |-> Slots]
    BY <1>3
  <1>4. QED
    BY <1>2, <1>3 DEF Bodies

LEMMA EndsFacts ==
    ASSUME StoreTypes, MissedIsOld, NEW p \in Preferences, Ends(p), clock' = clock, found' = found, pref' = p,
           Wants(p) => \A e \in missed : found[e] < Activation(p)
    PROVE  PutSound(put') /\ put'.body = NoPref /\ missed' \subseteq Ids /\ MissedIsOld'
  <1>1. put' = [pc |-> "none", count |-> put.count, body |-> NoPref, missing |-> {}, stale |-> {},
                since |-> Never, had |-> {}]
    BY DEF Ends, NoPut
  <1>2. PutSound(put') /\ put'.body = NoPref /\ ~Wants(put'.body)
    BY <1>1, NoPrefType DEF PutSound
  <1>3. missed' = IF Wants(p) THEN missed ELSE missed \cup {e \in Ids : found[e] # Never}
    BY DEF Ends
  <1>4. missed' \subseteq Ids /\ \A e \in missed' : found[e] # Never
    BY <1>3 DEF StoreTypes, MissedIsOld
  <1>5. MissedIsOld'
    <2>1. Wants(p) => \A e \in missed' : found[e] < Activation(p)
      BY <1>3
    <2>2. QED
      BY <1>2, <1>4, <2>1 DEF MissedIsOld, Wants, Activation
  <1>6. QED
    BY <1>2, <1>4, <1>5

\* The activation a PUT stamps is later than everything missed.
LEMMA StampedFacts ==
    ASSUME StoreTypes, MissedIsOld, NEW body \in Bodies, NEW now \in Nat, now = clock + 1
    PROVE  /\ Stamped(body, now) \in Nat
           /\ Wants(body) => \A e \in missed : found[e] < Stamped(body, now)
  <1> DEFINE carried == IF Wants(pref) THEN Activation(pref) ELSE Never
  <1>1. Stamped(body, now) = IF ~Wants(body) THEN Never ELSE IF carried # Never THEN carried ELSE now
    BY DEF Stamped, Activation
  <1>2. carried \in Nat /\ Never \in Nat
    BY DEF Activation, StoreTypes, Preferences, Never
  <1>3. \A e \in missed : found[e] < now
    BY DEF StoreTypes
  <1>4. Wants(pref) => \A e \in missed : found[e] < carried
    BY DEF MissedIsOld
  <1>5. ~Wants(pref) => carried = Never
    OBVIOUS
  <1> HIDE DEF carried
  <1>6. QED
    BY <1>1, <1>2, <1>3, <1>4, <1>5

LEMMA StoreOnly ==
    ASSUME NewsInv, run' = run, StoreTypes', MissedIsOld',
           \A e \in Ids : found[e] # Never => found'[e] = found[e]
    PROVE  NewsInv'
  <1>1. RunTypes' /\ NoBacklog'
    BY DEF NewsInv, RunTypes, NoBacklog
  <1>2. RunMissedIsOld'
    BY DEF NewsInv, RunMissedIsOld
  <1>3. QED
    BY <1>1, <1>2 DEF NewsInv

LEMMA AdvanceNews == ASSUME NewsInv, Advance PROVE NewsInv'
  <1>1. clock' = clock + 1 /\ UNCHANGED <<found, pref, put, run, missed>>
    BY DEF Advance, Passes
  <1>2. StoreTypes'
    <2>1. clock' \in Nat /\ pref'.at <= clock' /\ put'.body.at <= clock' /\ \A e \in Ids : found'[e] <= clock'
      BY <1>1 DEF NewsInv, StoreTypes, Preferences, PutSound
    <2>2. QED
      BY <1>1, <2>1 DEF NewsInv, StoreTypes, PutSound
  <1>3. MissedIsOld'
    BY <1>1 DEF NewsInv, MissedIsOld, Activation, Wants
  <1>4. QED
    BY <1>1, <1>2, <1>3, StoreOnly

LEMMA DiscoverNews == ASSUME NewsInv, NEW e \in Ids, Discover(e) PROVE NewsInv'
  <1>1. /\ clock' = clock + 1 /\ UNCHANGED <<pref, put, run>>
        /\ found[e] = Never /\ found' = [found EXCEPT ![e] = clock']
        /\ missed' = IF Wants(pref) \/ Wants(put.body) THEN missed ELSE missed \cup {e}
    BY DEF Discover, Passes
  <1>2. clock \in Nat /\ clock' \in Nat /\ clock' # Never /\ clock <= clock'
    BY <1>1 DEF NewsInv, StoreTypes, Never
  <1>3. /\ found' \in [Ids -> Nat] /\ found'[e] = clock'
        /\ \A d \in Ids : d # e => found'[d] = found[d]
    BY <1>1, <1>2 DEF NewsInv, StoreTypes
  <1>4. StoreTypes'
    <2>1. \A d \in Ids : found'[d] <= clock'
      BY <1>2, <1>3 DEF NewsInv, StoreTypes
    <2>2. pref'.at <= clock' /\ put'.body.at <= clock'
      BY <1>1, <1>2 DEF NewsInv, StoreTypes, Preferences, PutSound
    <2>3. QED
      BY <1>1, <1>2, <1>3, <2>1, <2>2 DEF NewsInv, StoreTypes, PutSound
  <1>5. MissedIsOld'
    <2>1. \A d \in missed' : found'[d] # Never
      BY <1>1, <1>2, <1>3 DEF NewsInv, MissedIsOld, StoreTypes
    <2>2. CASE Wants(pref) \/ Wants(put.body)
      <3>1. missed' = missed /\ e \notin missed
        BY <1>1, <2>2 DEF NewsInv, MissedIsOld
      <3>2. \A d \in missed' : found'[d] = found[d]
        BY <1>3, <3>1 DEF NewsInv, StoreTypes
      <3>3. QED
        BY <1>1, <2>1, <3>1, <3>2 DEF NewsInv, MissedIsOld, Wants, Activation
    <2>3. CASE ~(Wants(pref) \/ Wants(put.body))
      BY <1>1, <2>1, <2>3 DEF MissedIsOld, Wants
    <2>4. QED
      BY <2>2, <2>3
  <1>6. QED
    BY <1>1, <1>3, <1>4, <1>5, StoreOnly

LEMMA NoPrefTime == StoreTypes => NoPref.at <= clock
  BY DEF StoreTypes, NoPref, Never

LEMMA BeginPutNews == ASSUME NewsInv, BeginPut PROVE NewsInv'
  <1>1. clock' = clock + 1 /\ UNCHANGED <<found, pref, run, missed>>
    BY DEF BeginPut, Passes
  <1>2. PICK body \in Bodies :
          put' = [NoPut EXCEPT !.pc = "index", !.count = put.count + 1,
                    !.body = [on |-> body.on, creator |-> body.creator, slots |-> body.slots,
                              since |-> Stamped(body, clock'), at |-> clock']]
    BY DEF BeginPut
  <1>3. clock \in Nat /\ clock' \in Nat /\ clock <= clock'
    BY <1>1 DEF NewsInv, StoreTypes
  <1> DEFINE b == [on |-> body.on, creator |-> body.creator, slots |-> body.slots,
                   since |-> Stamped(body, clock'), at |-> clock']
  <1>4. /\ Stamped(body, clock') \in Nat
        /\ Wants(body) => \A e \in missed : found[e] < Stamped(body, clock')
    BY <1>1, <1>3, StampedFacts DEF NewsInv
  <1>5. b \in Preferences
    BY <1>3, <1>4, BodiesType DEF Preferences
  <1>6. b.since = Stamped(body, clock') /\ b.at = clock' /\ (Wants(b) <=> Wants(body))
    BY DEF Wants
  <1> HIDE DEF b
  <1>7. PutSound(put') /\ put'.body = b
    <2>1. put' = [pc |-> "index", count |-> put.count + 1, body |-> b, missing |-> {}, stale |-> {},
                  since |-> Never, had |-> {}]
      BY <1>2 DEF NoPut, b
    <2>2. QED
      BY <1>5, <2>1 DEF PutSound
  <1>8. StoreTypes'
    <2>1. pref'.at <= clock' /\ put'.body.at <= clock' /\ \A e \in Ids : found'[e] <= clock'
      BY <1>1, <1>3, <1>6, <1>7 DEF NewsInv, StoreTypes, Preferences
    <2>2. QED
      BY <1>1, <1>3, <1>7, <2>1 DEF NewsInv, StoreTypes
  <1>9. MissedIsOld'
    <2>1. Wants(put'.body) => \A e \in missed' : found'[e] < put'.body.since
      BY <1>1, <1>4, <1>6, <1>7
    <2>2. QED
      BY <1>1, <2>1 DEF NewsInv, MissedIsOld, Wants, Activation
  <1>10. QED
    BY <1>1, <1>8, <1>9, StoreOnly

\* A step of a PUT before its end leaves its body alone.
LEMMA PutGoesOn ==
    ASSUME NewsInv, UNCHANGED <<clock, found, pref, run, missed>>, PutSound(put'), put'.body = put.body
    PROVE  NewsInv'
  <1>1. StoreTypes'
    BY DEF NewsInv, StoreTypes
  <1>2. MissedIsOld'
    BY DEF NewsInv, MissedIsOld, Wants, Activation
  <1>3. QED
    BY <1>1, <1>2, StoreOnly

\* A PUT that fails leaves the stored preference alone.
LEMMA PutFails ==
    ASSUME NewsInv, UNCHANGED <<clock, found, pref, run>>, Ends(pref)
    PROVE  NewsInv'
  <1>1. PutSound(put') /\ put'.body = NoPref /\ missed' \subseteq Ids /\ MissedIsOld'
    BY EndsFacts DEF NewsInv, StoreTypes, MissedIsOld
  <1>2. StoreTypes'
    BY <1>1, NoPrefTime DEF NewsInv, StoreTypes
  <1>3. QED
    BY <1>1, <1>2, StoreOnly

LEMMA PutTurns ==
    ASSUME NewsInv, NEW t
    PROVE  PutSound([put EXCEPT !.pc = t]) /\ [put EXCEPT !.pc = t].body = put.body
  BY DEF NewsInv, StoreTypes, PutSound

LEMMA PutLooks ==
    ASSUME NewsInv, NEW p, NEW q, NEW r, NEW s, NEW t,
           put' = [put EXCEPT !.missing = p, !.stale = q, !.had = r, !.since = s, !.pc = t]
    PROVE  PutSound(put') /\ put'.body = put.body
  <1>1. put = [pc |-> put.pc, count |-> put.count, body |-> put.body, missing |-> put.missing,
               stale |-> put.stale, since |-> put.since, had |-> put.had]
    BY DEF NewsInv, StoreTypes, PutSound
  <1>2. put' = [pc |-> t, count |-> put.count, body |-> put.body, missing |-> p, stale |-> q,
                since |-> s, had |-> r]
    BY <1>1
  <1>3. QED
    BY <1>2 DEF NewsInv, StoreTypes, PutSound

LEMMA ReadIndexNews == ASSUME NewsInv, ReadIndex PROVE NewsInv'
  <1>1. UNCHANGED <<clock, found, pref, run>>
    BY DEF ReadIndex
  <1>2. CASE Ends(pref)
    BY <1>1, <1>2, PutFails
  <1> DEFINE want == IF put.body.on THEN put.body.slots ELSE {}
             missing == want \ Indexed
             stale == Indexed \ want
             since == ActiveSince(put.body.at)
             pc == IF missing # {} THEN "add" ELSE IF stale # {} THEN "delete" ELSE "store"
  <1>3. CASE /\ missed' = missed
             /\ put' = [put EXCEPT !.missing = missing, !.stale = stale, !.had = Indexed, !.since = since,
                                   !.pc = pc]
    <2> HIDE DEF missing, stale, since, pc
    <2>1. PutSound(put') /\ put'.body = put.body
      BY <1>3, PutLooks
    <2>2. QED
      BY <1>1, <1>3, <2>1, PutGoesOn
  <1>4. QED
    BY <1>2, <1>3 DEF ReadIndex

LEMMA AddSlotsNews == ASSUME NewsInv, AddSlots PROVE NewsInv'
  <1>1. UNCHANGED <<clock, found, pref, run>>
    BY DEF AddSlots
  <1>2. CASE Ends(pref)
    BY <1>1, <1>2, PutFails
  <1>3. CASE missed' = missed /\ \E t : put' = [put EXCEPT !.pc = t]
    <2>1. PutSound(put') /\ put'.body = put.body
      BY <1>3, PutTurns
    <2>2. QED
      BY <1>1, <1>3, <2>1, PutGoesOn
  <1>4. QED
    BY <1>2, <1>3 DEF AddSlots, FailedAdd

LEMMA DeleteSlotsNews == ASSUME NewsInv, DeleteSlots PROVE NewsInv'
  <1>1. UNCHANGED <<clock, found, pref, run>>
    BY DEF DeleteSlots
  <1>2. CASE Ends(pref)
    BY <1>1, <1>2, PutFails
  <1>3. CASE missed' = missed /\ \E t : put' = [put EXCEPT !.pc = t]
    <2>1. PutSound(put') /\ put'.body = put.body
      BY <1>3, PutTurns
    <2>2. QED
      BY <1>1, <1>3, <2>1, PutGoesOn
  <1>4. QED
    BY <1>2, <1>3 DEF DeleteSlots

LEMMA StorePrefNews == ASSUME NewsInv, StorePref PROVE NewsInv'
  <1>1. UNCHANGED <<clock, found, run>>
    BY DEF StorePref
  <1>2. CASE Ends(pref) /\ UNCHANGED pref
    BY <1>1, <1>2, PutFails
  <1>3. CASE pref' = put.body /\ Ends(put.body)
    <2>1. put.body \in Preferences /\ (Wants(put.body) => \A e \in missed : found[e] < put.body.since)
      BY DEF NewsInv, StoreTypes, PutSound, MissedIsOld
    <2>2. Wants(put.body) => \A e \in missed : found[e] < Activation(put.body)
      BY <2>1 DEF Activation, Never, Preferences, NewsInv, StoreTypes
    <2>3. PutSound(put') /\ put'.body = NoPref /\ missed' \subseteq Ids /\ MissedIsOld'
      BY <1>1, <1>3, <2>1, <2>2, EndsFacts DEF NewsInv
    <2>4. StoreTypes'
      BY <1>1, <1>3, <2>1, <2>3, NoPrefTime DEF NewsInv, StoreTypes
    <2>5. QED
      BY <1>1, <2>3, <2>4, StoreOnly
  <1>4. QED
    BY <1>2, <1>3 DEF StorePref

-----------------------------------------------------------------------------
(* Runs *)

UnchangedNews == UNCHANGED <<clock, found, pref, put, missed>>

LEMMA RunOnly ==
    ASSUME NewsInv, UnchangedNews, NEW k \in Containers, NEW r, RunSound(r), run' = [run EXCEPT ![k] = r],
           \A e \in r.missed : e \in Ids /\ found[e] # Never /\ (r.pref.creator => found[e] < r.pref.since),
           r.pc = "push" => r.event \notin r.missed
    PROVE  NewsInv'
  <1>1. StoreTypes' /\ MissedIsOld'
    BY DEF UnchangedNews, NewsInv, StoreTypes, MissedIsOld, Wants, Activation, PutSound
  <1>2. run = [j \in Containers |-> run[j]]
    BY DEF NewsInv, RunTypes
  <1>3. run'[k] = r /\ \A j \in Containers : j # k => run'[j] = run[j]
    BY <1>2
  <1>4. RunTypes'
    <2>1. run' = [j \in Containers |-> run'[j]]
      BY <1>2
    <2>2. \A j \in Containers : RunSound(run'[j])
      BY <1>3 DEF NewsInv, RunTypes
    <2>3. QED
      BY <2>1, <2>2 DEF RunTypes
  <1>5. RunMissedIsOld'
    <2>1. SUFFICES ASSUME NEW j \in Containers, NEW e \in run'[j].missed
                   PROVE  /\ e \in Ids /\ found[e] # Never
                          /\ run'[j].pref.creator => found[e] < run'[j].pref.since
      BY DEF RunMissedIsOld, UnchangedNews
    <2>2. CASE j = k
      BY <1>3, <2>1, <2>2
    <2>3. CASE j # k
      BY <1>3, <2>1, <2>3 DEF NewsInv, RunMissedIsOld
    <2>4. QED
      BY <2>2, <2>3
  <1>6. NoBacklog'
    BY <1>3 DEF NewsInv, NoBacklog
  <1>7. QED
    BY <1>1, <1>4, <1>5, <1>6 DEF NewsInv

LEMMA IdleSound == ASSUME NewsInv PROVE RunSound(Idle) /\ Idle.missed = {} /\ Idle.pc = "idle"
  <1>1. Announcement \in Ids
    BY NewVideoAssumption
  <1>2. QED
    BY <1>1, NoPrefType DEF Idle, RunSound, Never

\* What a run keeps of itself on its way.
LEMMA RunFacts ==
    ASSUME NewsInv, NEW k \in Containers
    PROVE  /\ run = [j \in Containers |-> run[j]]
           /\ RunSound(run[k])
           /\ \A e \in run[k].missed : /\ e \in Ids /\ found[e] # Never
                                       /\ run[k].pref.creator => found[e] < run[k].pref.since
           /\ run[k].pc = "push" => run[k].event \notin run[k].missed
  BY DEF NewsInv, RunTypes, RunMissedIsOld, NoBacklog

LEMMA RunTurns ==
    ASSUME NewsInv, UnchangedNews, NEW k \in Containers,
           NEW pc \in {"next", "confirm", "release"}, NEW todo \in SUBSET Ids,
           run' = [run EXCEPT ![k] = [run[k] EXCEPT !.todo = todo, !.pc = pc]]
    PROVE  NewsInv'
  <1> DEFINE r == [run[k] EXCEPT !.todo = todo, !.pc = pc]
  <1>1. RunSound(run[k])
    BY RunFacts
  <1>2. RunSound(r) /\ r.missed = run[k].missed /\ r.pref = run[k].pref /\ r.pc # "push"
    BY <1>1 DEF RunSound
  <1> HIDE DEF r
  <1>3. QED
    BY <1>2, RunFacts, RunOnly DEF r

LEMMA EndsIdle ==
    ASSUME NewsInv, UnchangedNews, NEW k \in Containers, run' = [run EXCEPT ![k] = Idle]
    PROVE  NewsInv'
  BY IdleSound, RunOnly

LEMMA StartRunNews == ASSUME NewsInv, NEW k \in Containers, StartRun(k) PROVE NewsInv'
  <1>1. UnchangedNews
    BY DEF StartRun, UnchangedNews
  <1>2. PICK tick \in {t \in 1..clock : IsTick(t) /\ t + MaxLag >= clock} :
          run' = [run EXCEPT ![k] = [Idle EXCEPT !.pc = "serve", !.tick = tick,
                                                 !.since = index[SlotOf(tick)]]]
    BY DEF StartRun
  <1> DEFINE since == index[SlotOf(tick)]
             r == [Idle EXCEPT !.pc = "serve", !.tick = tick, !.since = since]
  <1> HIDE DEF since
  <1>4. tick \in Nat
    BY <1>2
  <1>5. RunSound(r) /\ r.missed = {} /\ r.pc # "push"
    BY <1>4, IdleSound DEF RunSound
  <1>6. run' = [run EXCEPT ![k] = r]
    BY <1>2 DEF since
  <1> HIDE DEF r
  <1>7. QED
    BY <1>1, <1>5, <1>6, RunOnly

LEMMA EndRunNews == ASSUME NewsInv, NEW k \in Containers, EndRun(k) PROVE NewsInv'
  BY EndsIdle DEF EndRun, UnchangedNews

LEMMA ServeClientNews == ASSUME NewsInv, NEW k \in Containers, ServeClient(k) PROVE NewsInv'
  <1>1. UnchangedNews
    BY DEF ServeClient, UnchangedNews
  <1> DEFINE p == WithLegacyActivation(pref)
             todo == Deliverable(pref, run[k].since, run[k].tick)
             r == [run[k] EXCEPT !.pc = "read", !.pref = p, !.missed = missed, !.todo = todo]
  <1>2. CASE run' = [run EXCEPT ![k] = Idle]
    BY <1>1, <1>2, EndsIdle
  <1>3. CASE pref.on /\ run' = [run EXCEPT ![k] = r]
    <2>1. p \in Preferences /\ p.creator = pref.creator /\ (pref.creator => p.since = Activation(pref))
      BY DEF WithLegacyActivation, Activation, NewsInv, StoreTypes, Preferences
    <2>2. todo \subseteq Ids
      BY DEF Deliverable, Pending
    <2>3. \A e \in missed : e \in Ids /\ found[e] # Never /\ (p.creator => found[e] < p.since)
      BY <1>3, <2>1 DEF NewsInv, StoreTypes, MissedIsOld, Wants
    <2> HIDE DEF p, todo
    <2>4. RunSound(run[k])
      BY RunFacts
    <2>5. missed \subseteq Ids
      BY DEF NewsInv, StoreTypes
    <2>6. RunSound(r) /\ r.missed = missed /\ r.pref = p /\ r.pc # "push"
      BY <2>1, <2>2, <2>4, <2>5 DEF RunSound
    <2> HIDE DEF r
    <2>7. QED
      BY <1>1, <1>3, <2>3, <2>6, RunOnly
  <1>4. QED
    BY <1>2, <1>3, Zenon DEF ServeClient

LEMMA ReadHandledNews == ASSUME NewsInv, NEW k \in Containers, ReadHandled(k) PROVE NewsInv'
  <1>1. UnchangedNews
    BY DEF ReadHandled, UnchangedNews
  <1>2. \E todo \in SUBSET run[k].todo : run' = [run EXCEPT ![k] = [run[k] EXCEPT !.pc = "next", !.todo = todo]]
    BY DEF ReadHandled
  <1>3. PICK todo \in SUBSET run[k].todo :
            run' = [run EXCEPT ![k] = [run[k] EXCEPT !.pc = "next", !.todo = todo]]
    BY <1>2
  <1>4. [run[k] EXCEPT !.pc = "next", !.todo = todo] = [run[k] EXCEPT !.todo = todo, !.pc = "next"]
    BY RunFacts DEF RunSound
  <1>5. todo \in SUBSET Ids
    BY RunFacts DEF RunSound
  <1>6. run' = [run EXCEPT ![k] = [run[k] EXCEPT !.todo = todo, !.pc = "next"]]
    BY <1>3, <1>4
  <1>7. QED
    BY <1>1, <1>5, <1>6, RunTurns

LEMMA DropNews == ASSUME NewsInv, UnchangedNews, NEW k \in Containers, NEW e, Drop(k, e) PROVE NewsInv'
  <1> DEFINE todo == run[k].todo \ {e}
  <1>1. todo \in SUBSET Ids
    BY RunFacts DEF RunSound
  <1>2. run' = [run EXCEPT ![k] = [run[k] EXCEPT !.todo = todo, !.pc = "next"]]
    BY Zenon DEF Drop
  <1> HIDE DEF todo
  <1>3. QED
    BY <1>1, <1>2, RunTurns

\* Only an event from after the activation goes out.
LEMMA DecideNews == ASSUME NewsInv, NEW k \in Containers, NEW e \in Ids, Decide(k, e) PROVE NewsInv'
  <1>1. UnchangedNews
    BY DEF Decide, UnchangedNews
  <1> DEFINE r == [run[k] EXCEPT !.pc = "push", !.event = e]
  <1>2. CASE Drop(k, e)
    BY <1>1, <1>2, DropNews
  <1>3. CASE ~Unwanted(run[k].pref, e) /\ run' = [run EXCEPT ![k] = r]
    <2>1. run[k].pref.creator /\ run[k].pref.since # Never /\ ~(found[e] < run[k].pref.since)
      BY <1>3 DEF Unwanted
    <2>2. e \notin run[k].missed
      BY <2>1, RunFacts
    <2>3. RunSound(run[k])
      BY RunFacts
    <2>4. RunSound(r) /\ r.missed = run[k].missed /\ r.pref = run[k].pref /\ r.event = e
      BY <2>3 DEF RunSound
    <2> HIDE DEF r
    <2>5. QED
      BY <1>1, <1>3, <2>2, <2>4, RunFacts, RunOnly
  <1>4. QED
    BY <1>2, <1>3, Zenon DEF Decide

LEMMA PushNews == ASSUME NewsInv, NEW k \in Containers, Push(k) PROVE NewsInv'
  <1>1. UnchangedNews
    BY DEF Push, UnchangedNews
  <1>2. \E pc \in {"confirm", "release"} : run' = [run EXCEPT ![k].pc = pc]
    BY DEF Push
  <1>3. PICK pc \in {"confirm", "release"} : run' = [run EXCEPT ![k] = [run[k] EXCEPT !.pc = pc]]
    BY <1>2, RunFacts
  <1>4. [run[k] EXCEPT !.pc = pc] = [run[k] EXCEPT !.todo = run[k].todo, !.pc = pc] /\ run[k].todo \in SUBSET Ids
    BY RunFacts DEF RunSound
  <1>5. QED
    BY <1>1, <1>3, <1>4, RunTurns

LEMMA SettleNews == ASSUME NewsInv, NEW k \in Containers, Settle(k) PROVE NewsInv'
  <1>1. UnchangedNews
    BY DEF Settle, UnchangedNews
  <1>2. CASE Drop(k, run[k].event)
    BY <1>1, <1>2, DropNews
  <1>3. CASE run' = [run EXCEPT ![k] = Idle]
    BY <1>1, <1>3, EndsIdle
  <1>4. QED
    BY <1>2, <1>3 DEF Settle

LEMMA InitNews == Init => NewsInv
  <1> SUFFICES ASSUME Init PROVE NewsInv
    OBVIOUS
  <1>1. Never \in Nat /\ 0 \in Slots
    BY NewVideoAssumption DEF Never, Slots
  <1>2. pref \in Preferences /\ pref.at <= 1
    <2>1. CASE pref = NoPref
      BY <2>1, NoPrefType DEF NoPref, Never
    <2>2. CASE pref = [on |-> TRUE, creator |-> TRUE, slots |-> {0}, since |-> Never, at |-> 1]
      BY <1>1, <2>2 DEF Preferences
    <2>3. QED
      BY <2>1, <2>2 DEF Init
  <1>3. PutSound(put) /\ put.body = NoPref
    BY NoPrefType DEF Init, NoPut, PutSound
  <1>4. StoreTypes
    BY <1>1, <1>2, <1>3 DEF Init, StoreTypes, Never, NoPref
  <1>5. MissedIsOld
    BY <1>3, NoPrefType DEF Init, MissedIsOld
  <1>6. RunSound(Idle) /\ Idle.missed = {} /\ Idle.pc = "idle"
    BY NoPrefType, NewVideoAssumption DEF Idle, RunSound, Never
  <1>7. RunTypes /\ RunMissedIsOld /\ NoBacklog
    BY <1>6 DEF Init, RunTypes, RunMissedIsOld, NoBacklog
  <1>8. QED
    BY <1>4, <1>5, <1>7 DEF NewsInv

LEMMA StepNews == NewsInv /\ [Next]_vars => NewsInv'
  <1> SUFFICES ASSUME NewsInv, [Next]_vars PROVE NewsInv'
    OBVIOUS
  <1>1. CASE Advance \/ \E e \in Ids : Discover(e)
    BY <1>1, AdvanceNews, DiscoverNews
  <1>2. CASE BeginPut \/ ReadIndex \/ AddSlots \/ DeleteSlots \/ StorePref
    BY <1>2, BeginPutNews, ReadIndexNews, AddSlotsNews, DeleteSlotsNews, StorePrefNews
  <1>3. ASSUME NEW k \in Containers, StartRun(k) \/ EndRun(k) \/ ServeClient(k) \/ ReadHandled(k)
        PROVE  NewsInv'
    BY <1>3, StartRunNews, EndRunNews, ServeClientNews, ReadHandledNews
  <1>4. ASSUME NEW k \in Containers, (\E e \in Ids : Decide(k, e)) \/ Push(k) \/ Settle(k)
        PROVE  NewsInv'
    BY <1>4, DecideNews, PushNews, SettleNews
  <1>5. CASE UNCHANGED vars
    BY <1>5 DEF vars, NewsInv, StoreTypes, RunTypes, MissedIsOld, RunMissedIsOld, NoBacklog, Wants, Activation,
                PutSound, RunSound
  <1>6. QED
    BY <1>1, <1>2, <1>3, <1>4, <1>5, Zenon DEF Next

LEMMA NewsInvariant == Spec => []NewsInv
  BY InitNews, StepNews, PTL DEF Spec

\* is_new_video_after_activation: whatever is switched off and on again, by PUTs that
\* fail or succeed, no run pushes what the client was not switched on for.
THEOREM NoBacklogEver == Spec => []NoBacklog
  <1>1. NewsInv => NoBacklog
    BY DEF NewsInv
  <1>2. QED
    BY <1>1, NewsInvariant, PTL

-----------------------------------------------------------------------------
(* Claims *)

Sending == {"push", "confirm", "release"}

LEMMA KeyFacts == \A e, d \in Ids : Key(e) \in Keys /\ (Key(e) = Key(d) => e = d)
  <1>1. Clients # {}
    <2>1. Cardinality({}) = 0
      BY FS_EmptySet
    <2>2. Cardinality(Clients) = 1
      BY NewVideoAssumption
    <2>3. QED
      BY <2>1, <2>2
  <1>2. client \in Clients
    BY <1>1 DEF client
  <1>3. QED
    BY <1>2 DEF Key, Keys

\* One row of the log is written.
LEMMA LogAt ==
    ASSUME OwnerInv, NEW e \in Ids, NEW v \in Entries, log' = [log EXCEPT ![Key(e)] = v]
    PROVE  /\ log' \in [Keys -> Entries]
           /\ log'[Key(e)] = v /\ \A d \in Ids : d # e => log'[Key(d)] = log[Key(d)]
  BY KeyFacts DEF OwnerInv, LogTypes

LEMMA RunAt ==
    ASSUME NewsInv, NEW k \in Containers, NEW r, run' = [run EXCEPT ![k] = r]
    PROVE  /\ run'[k] = r /\ \A j \in Containers : j # k => run'[j] = run[j]
           /\ \A j \in Containers, e \in Ids :
                 Sends(j, e)' <=> IF j = k THEN r.pc \in Sending /\ r.event = e ELSE Sends(j, e)
  <1>1. run'[k] = r /\ \A j \in Containers : j # k => run'[j] = run[j]
    BY RunFacts
  <1>2. QED
    BY <1>1 DEF Sends, Sending

LEMMA OwnerFacts ==
    ASSUME OwnerInv
    PROVE  /\ \A k \in Containers, e \in Ids : Sends(k, e) =>
                 log[Key(e)].status = "claimed" /\ log[Key(e)].at = run[k].tick
           /\ \A e \in Ids, j, k \in Containers : Sends(j, e) /\ Sends(k, e) => j = k
           /\ \A e \in Ids : Confirming(e) => \E k \in Containers : run[k].pc = "confirm" /\ Sends(k, e)
  BY DEF OwnerInv, Owns, OneOwner, Confirming, Sends

\* A claim outlives its sender: a run is not later than MaxLag.
LEMMA ClaimsLast ==
    ASSUME MaxLag <= ClaimExpiry, NewsInv, OwnerInv, NEW k \in Containers, NEW e \in Ids, Sends(k, e)
    PROVE  Handled(Key(e))
  <1>1. log[Key(e)].status = "claimed" /\ log[Key(e)].at = run[k].tick
    BY OwnerFacts
  <1>2. run[k].pc # "idle" /\ run[k].tick \in Nat
    BY RunFacts DEF Sends, RunSound
  <1>3. clock <= run[k].tick + MaxLag
    BY <1>2 DEF OwnerInv, OnTime
  <1>4. clock \in Nat /\ MaxLag \in Nat /\ ClaimExpiry \in Nat
    BY NewVideoAssumption DEF NewsInv, StoreTypes
  <1> DEFINE t == run[k].tick
  <1>5. ~(clock - t > ClaimExpiry)
    <2> HIDE DEF t
    <2>1. t \in Nat /\ clock <= t + MaxLag
      BY <1>2, <1>3 DEF t
    <2>2. QED
      BY <2>1, <1>4
  <1>6. QED
    BY <1>1, <1>5 DEF Handled, Expired

\* Time passes only as far as the lag of every run allows.
LEMMA TimeOwners ==
    ASSUME NewsInv, OwnerInv, UNCHANGED <<run, log, memory, pushes, unsure>>, clock' = clock \/ Passes
    PROVE  OwnerInv'
  <1>1. OnTime'
    <2>1. CASE clock' = clock
      BY <2>1 DEF OwnerInv, OnTime
    <2>2. CASE Passes
      <3>1. SUFFICES ASSUME NEW k \in Containers, run[k].pc # "idle" PROVE clock + 1 <= run[k].tick + MaxLag
        BY <2>2 DEF Passes, OnTime
      <3>2. clock < run[k].tick + MaxLag
        BY <2>2, <3>1 DEF Passes
      <3>3. clock \in Nat /\ run[k].tick \in Nat /\ MaxLag \in Nat
        BY NewVideoAssumption, RunFacts DEF NewsInv, StoreTypes, RunSound
      <3> DEFINE t == run[k].tick
      <3> HIDE DEF t
      <3>4. QED
        BY <3>2, <3>3 DEF t
    <2>3. QED
      BY <2>1, <2>2
  <1>2. Owns' /\ OneOwner'
    BY DEF OwnerInv, Owns, OneOwner, Sends, Key
  <1>3. \A e \in Ids : Counted(e)'
    BY DEF OwnerInv, Counted, Confirming, Key
  <1>4. LogTypes' /\ RememberedIsSettled'
    BY DEF OwnerInv, LogTypes, RememberedIsSettled, Key
  <1>5. QED
    BY <1>1, <1>2, <1>3, <1>4 DEF OwnerInv

LEMMA TurnOnTime ==
    ASSUME NewsInv, OwnerInv, NEW k \in Containers, NEW r, run' = [run EXCEPT ![k] = r], clock' = clock,
           r.pc # "idle" => clock <= r.tick + MaxLag
    PROVE  OnTime'
  BY RunAt DEF OwnerInv, OnTime

\* A run that sends nothing before or after its step.
LEMMA QuietTurn ==
    ASSUME NewsInv, OwnerInv, NEW k \in Containers, NEW r, run' = [run EXCEPT ![k] = r],
           UNCHANGED <<clock, log, pushes, unsure>>,
           run[k].pc \notin Sending, r.pc \notin Sending, r.pc # "idle" => clock <= r.tick + MaxLag,
           memory' \in [Containers -> SUBSET Ids], RememberedIsSettled'
    PROVE  OwnerInv'
  <1>1. \A j \in Containers, e \in Ids : Sends(j, e)' => j # k /\ Sends(j, e) /\ run'[j] = run[j]
    BY RunAt
  <1>2. LogTypes' /\ OnTime'
    BY TurnOnTime DEF OwnerInv, LogTypes
  <1>3. Owns'
    BY <1>1 DEF OwnerInv, Owns, Key
  <1>4. OneOwner'
    BY <1>1 DEF OwnerInv, OneOwner
  <1>5. \A e \in Ids : Counted(e)'
    <2>1. SUFFICES ASSUME NEW e \in Ids PROVE Counted(e)'
      OBVIOUS
    <2>2. Counted(e)
      BY DEF OwnerInv
    <2>3. Confirming(e) => Confirming(e)'
      <3>1. \A j \in Containers : run[j].pc = "confirm" => j # k /\ run'[j] = run[j]
        BY RunAt DEF Sending
      <3>2. QED
        BY <3>1 DEF Confirming
    <2>4. QED
      BY <2>2, <2>3 DEF Counted, Key
  <1>6. QED
    BY <1>2, <1>3, <1>4, <1>5 DEF OwnerInv

LEMMA MemoryKept ==
    ASSUME OwnerInv, UNCHANGED <<memory, log>>
    PROVE  memory' \in [Containers -> SUBSET Ids] /\ RememberedIsSettled'
  BY DEF OwnerInv, LogTypes, RememberedIsSettled, Key

LEMMA StartRunOwners == ASSUME NewsInv, OwnerInv, NEW k \in Containers, StartRun(k) PROVE OwnerInv'
  <1>1. run[k].pc = "idle" /\ UNCHANGED <<clock, log, memory, pushes, unsure>>
    BY DEF StartRun
  <1>2. PICK tick \in {t \in 1..clock : IsTick(t) /\ t + MaxLag >= clock} :
          run' = [run EXCEPT ![k] = [Idle EXCEPT !.pc = "serve", !.tick = tick,
                                                 !.since = index[SlotOf(tick)]]]
    BY DEF StartRun
  <1> DEFINE since == index[SlotOf(tick)]
             r == [Idle EXCEPT !.pc = "serve", !.tick = tick, !.since = since]
  <1> HIDE DEF since
  <1>3. clock <= tick + MaxLag
    BY <1>2, NewVideoAssumption DEF NewsInv, StoreTypes
  <1>4. r.pc = "serve" /\ r.tick = tick
    BY DEF Idle
  <1>5. run' = [run EXCEPT ![k] = r]
    BY <1>2 DEF since
  <1> HIDE DEF r
  <1>6. QED
    BY <1>1, <1>3, <1>4, <1>5, MemoryKept, QuietTurn DEF Sending

LEMMA EndRunOwners == ASSUME NewsInv, OwnerInv, NEW k \in Containers, EndRun(k) PROVE OwnerInv'
  <1>1. /\ run[k].pc \notin Sending /\ UNCHANGED <<clock, log, memory, pushes, unsure>>
        /\ run' = [run EXCEPT ![k] = Idle]
    BY DEF EndRun, Sending
  <1>2. QED
    BY <1>1, IdleSound, MemoryKept, QuietTurn DEF Sending

LEMMA ServeClientOwners == ASSUME NewsInv, OwnerInv, NEW k \in Containers, ServeClient(k) PROVE OwnerInv'
  <1>1. run[k].pc = "serve" /\ UNCHANGED <<clock, log, memory, pushes, unsure>>
    BY DEF ServeClient
  <1> DEFINE p == WithLegacyActivation(pref)
             todo == Deliverable(pref, run[k].since, run[k].tick)
             r == [run[k] EXCEPT !.pc = "read", !.pref = p, !.missed = missed, !.todo = todo]
  <1>2. CASE run' = [run EXCEPT ![k] = Idle]
    BY <1>1, <1>2, IdleSound, MemoryKept, QuietTurn DEF Sending
  <1>3. CASE run' = [run EXCEPT ![k] = r]
    <2> HIDE DEF p, todo
    <2>1. r.pc = "read" /\ r.tick = run[k].tick
      BY RunFacts DEF RunSound
    <2>2. clock <= run[k].tick + MaxLag
      BY <1>1 DEF OwnerInv, OnTime
    <2> HIDE DEF r
    <2>3. QED
      BY <1>1, <1>3, <2>1, <2>2, MemoryKept, QuietTurn DEF Sending
  <1>4. QED
    BY <1>2, <1>3, Zenon DEF ServeClient

LEMMA ReadHandledOwners == ASSUME NewsInv, OwnerInv, NEW k \in Containers, ReadHandled(k) PROVE OwnerInv'
  <1>1. run[k].pc = "read" /\ UNCHANGED <<clock, log, pushes, unsure>>
    BY DEF ReadHandled
  <1>2. PICK kept \in {memory[k] \cap run[k].todo, {}}, handled \in SUBSET Ids, todo \in SUBSET Ids :
            /\ memory' = [memory EXCEPT ![k] = kept \cup Remembered(handled)]
            /\ run' = [run EXCEPT ![k] = [run[k] EXCEPT !.pc = "next", !.todo = todo]]
    <2>1. run[k].todo \subseteq Ids
      BY RunFacts DEF RunSound
    <2>2. PICK kept \in {memory[k] \cap run[k].todo, {}} :
            LET handled == kept \cup {e \in run[k].todo : StatusAt(Key(e), run[k].tick) # "none"}
                superseded == IF {Announcement, Archive} \subseteq run[k].todo \ handled
                              THEN {Announcement} ELSE {}
            IN /\ memory' = [memory EXCEPT ![k] = kept \cup Remembered(handled)]
               /\ run' = [run EXCEPT ![k] = [run[k] EXCEPT !.pc = "next",
                                               !.todo = (run[k].todo \ handled) \ superseded]]
      BY Zenon DEF ReadHandled
    <2> DEFINE handled == kept \cup {e \in run[k].todo : StatusAt(Key(e), run[k].tick) # "none"}
               superseded == IF {Announcement, Archive} \subseteq run[k].todo \ handled
                             THEN {Announcement} ELSE {}
               todo == (run[k].todo \ handled) \ superseded
    <2>3. handled \in SUBSET Ids /\ todo \in SUBSET Ids
      BY <2>1
    <2>4. /\ memory' = [memory EXCEPT ![k] = kept \cup Remembered(handled)]
          /\ run' = [run EXCEPT ![k] = [run[k] EXCEPT !.pc = "next", !.todo = todo]]
      BY <2>2, Zenon
    <2> HIDE DEF handled, todo
    <2>5. QED
      BY <2>2, <2>3, <2>4, Zenon
  <1>3. \A e \in kept \cup Remembered(handled) : e \in Ids /\ log[Key(e)].status \in {"delivered", "suppressed"}
    BY <1>2 DEF OwnerInv, LogTypes, RememberedIsSettled, Remembered
  <1>4. memory' \in [Containers -> SUBSET Ids]
    BY <1>2, <1>3 DEF OwnerInv, LogTypes
  <1>5. RememberedIsSettled'
    <2>1. SUFFICES ASSUME NEW j \in Containers, NEW e \in Ids, e \in memory'[j]
                   PROVE  log[Key(e)].status \in {"delivered", "suppressed"}
      BY <1>1 DEF RememberedIsSettled, Key
    <2>2. memory'[j] = IF j = k THEN kept \cup Remembered(handled) ELSE memory[j]
      BY <1>2 DEF OwnerInv, LogTypes
    <2>3. QED
      BY <1>3, <2>1, <2>2 DEF OwnerInv, RememberedIsSettled
  <1> DEFINE r == [run[k] EXCEPT !.pc = "next", !.todo = todo]
  <1>6. r.pc = "next" /\ r.tick = run[k].tick
    BY RunFacts DEF RunSound
  <1>7. clock <= run[k].tick + MaxLag
    BY <1>1 DEF OwnerInv, OnTime
  <1>8. run' = [run EXCEPT ![k] = r]
    BY <1>2
  <1> HIDE DEF r
  <1>9. QED
    BY <1>1, <1>4, <1>5, <1>6, <1>7, <1>8, QuietTurn DEF Sending

LEMMA DropTurn ==
    ASSUME NewsInv, OwnerInv, NEW k \in Containers, NEW e, Drop(k, e), run[k].pc # "idle"
    PROVE  \E r : /\ run' = [run EXCEPT ![k] = r] /\ r.pc = "next" /\ clock <= r.tick + MaxLag
  <1> DEFINE r == [run[k] EXCEPT !.todo = run[k].todo \ {e}, !.pc = "next"]
  <1>1. run' = [run EXCEPT ![k] = r]
    BY DEF Drop
  <1>2. r.pc = "next" /\ r.tick = run[k].tick
    BY RunFacts DEF RunSound
  <1>3. clock <= run[k].tick + MaxLag
    BY DEF OwnerInv, OnTime
  <1> HIDE DEF r
  <1>4. QED
    BY <1>1, <1>2, <1>3

\* A step about one event, whose row nobody else is using.
LEMMA EventTurn ==
    ASSUME NewsInv, OwnerInv, NEW k \in Containers, NEW r, run' = [run EXCEPT ![k] = r],
           NEW e \in Ids, NEW v \in Entries, log' = [log EXCEPT ![Key(e)] = v],
           UNCHANGED <<clock, memory>>,
           r.pc # "idle" => clock <= r.tick + MaxLag,
           \A j \in Containers : j # k => ~Sends(j, e),
           \A d \in Ids : d # e => ~Sends(k, d),
           r.pc \in Sending => r.event = e /\ v.status = "claimed" /\ v.at = r.tick,
           log[Key(e)].status \in {"delivered", "suppressed"} => v.status \in {"delivered", "suppressed"},
           pushes' \in [Ids -> Nat], unsure' \in [Ids -> Nat],
           \A d \in Ids : d # e => pushes'[d] = pushes[d] /\ unsure'[d] = unsure[d],
           Counted(e)'
    PROVE  OwnerInv'
  <1>1. /\ log' \in [Keys -> Entries] /\ log'[Key(e)] = v
        /\ \A d \in Ids : d # e => log'[Key(d)] = log[Key(d)]
    BY LogAt
  <1>2. /\ run'[k] = r /\ \A j \in Containers : j # k => run'[j] = run[j]
        /\ \A j \in Containers, d \in Ids :
              Sends(j, d)' <=> IF j = k THEN r.pc \in Sending /\ r.event = d ELSE Sends(j, d)
    BY RunAt
  <1>3. LogTypes'
    BY <1>1 DEF OwnerInv, LogTypes
  <1>4. OnTime'
    BY TurnOnTime
  <1>5. Owns'
    <2>1. SUFFICES ASSUME NEW j \in Containers, NEW d \in Ids, Sends(j, d)'
                   PROVE  log'[Key(d)].status = "claimed" /\ log'[Key(d)].at = run'[j].tick
      BY DEF Owns, Key
    <2>2. CASE j = k
      BY <1>1, <1>2, <2>1, <2>2
    <2>3. CASE j # k
      BY <1>1, <1>2, <2>1, <2>3, OwnerFacts
    <2>4. QED
      BY <2>2, <2>3
  <1>6. OneOwner'
    <2>1. SUFFICES ASSUME NEW d \in Ids, NEW i \in Containers, NEW j \in Containers, Sends(i, d)', Sends(j, d)'
                   PROVE  i = j
      BY DEF OneOwner
    <2>2. QED
      BY <1>2, <2>1, OwnerFacts
  <1>7. \A d \in Ids : Counted(d)'
    <2>1. SUFFICES ASSUME NEW d \in Ids, d # e PROVE Counted(d)'
      OBVIOUS
    <2>2. Counted(d) /\ log'[Key(d)] = log[Key(d)] /\ pushes'[d] = pushes[d] /\ unsure'[d] = unsure[d]
      BY <1>1, <2>1 DEF OwnerInv
    <2>3. Confirming(d) => Confirming(d)'
      <3>1. SUFFICES ASSUME Confirming(d) PROVE Confirming(d)'
        OBVIOUS
      <3>2. PICK j \in Containers : run[j].pc = "confirm" /\ run[j].event = d
        BY <3>1 DEF Confirming
      <3>3. j # k
        BY <2>1, <3>2 DEF Sends
      <3>4. QED
        BY <1>2, <3>2, <3>3 DEF Confirming
    <2>4. QED
      BY <2>2, <2>3 DEF Counted, Key
  <1>8. RememberedIsSettled'
    <2>1. SUFFICES ASSUME NEW j \in Containers, NEW d \in Ids, d \in memory[j]
                   PROVE  log'[Key(d)].status \in {"delivered", "suppressed"}
      BY DEF RememberedIsSettled, Key
    <2>2. log[Key(d)].status \in {"delivered", "suppressed"}
      BY <2>1 DEF OwnerInv, RememberedIsSettled
    <2>3. QED
      BY <1>1, <2>2
  <1>9. QED
    BY <1>3, <1>4, <1>5, <1>6, <1>7, <1>8 DEF OwnerInv

\* While nobody is confirming an event and its row is not delivered, every push is told of.
LEMMA NotCounted ==
    ASSUME OwnerInv, NEW e \in Ids, log[Key(e)].status # "delivered", ~Confirming(e)
    PROVE  pushes[e] <= unsure[e]
  BY DEF OwnerInv, Counted

LEMMA DecideOwners ==
    ASSUME MaxLag <= ClaimExpiry, NewsInv, OwnerInv, NEW k \in Containers, NEW e \in Ids, Decide(k, e)
    PROVE  OwnerInv'
  <1>1. run[k].pc = "next" /\ UNCHANGED <<clock, memory, pushes, unsure>>
    BY DEF Decide
  <1>2. run[k].tick \in Nat /\ clock <= run[k].tick + MaxLag /\ \A d \in Ids : ~Sends(k, d)
    BY <1>1, RunFacts DEF OwnerInv, OnTime, RunSound, Sends
  <1>3. /\ pushes' \in [Ids -> Nat] /\ unsure' \in [Ids -> Nat]
        /\ \A d \in Ids : pushes'[d] = pushes[d] /\ unsure'[d] = unsure[d]
    BY <1>1 DEF OwnerInv, LogTypes
  <1>4. CASE Drop(k, e) /\ UNCHANGED log
    <2>1. PICK r : run' = [run EXCEPT ![k] = r] /\ r.pc = "next" /\ clock <= r.tick + MaxLag
      BY <1>1, <1>4, DropTurn
    <2>2. QED
      BY <1>1, <1>4, <2>1, MemoryKept, QuietTurn DEF Sending
  <1>5. CASE Drop(k, e) /\ MarkSuppressed(e, run[k].tick) /\ log[Key(e)].status = "none"
    <2> DEFINE v == [status |-> "suppressed", at |-> run[k].tick]
    <2>1. v \in Entries /\ v.status = "suppressed" /\ log' = [log EXCEPT ![Key(e)] = v]
      BY <1>2, <1>5 DEF Entries, MarkSuppressed
    <2>2. PICK r : run' = [run EXCEPT ![k] = r] /\ r.pc = "next" /\ clock <= r.tick + MaxLag
      BY <1>1, <1>5, DropTurn
    <2>3. \A j \in Containers : ~Sends(j, e)
      BY <1>5, OwnerFacts
    <2>4. pushes[e] <= unsure[e]
      BY <1>5, <2>3, OwnerFacts, NotCounted
    <2>5. Counted(e)'
      BY <1>3, <2>4 DEF Counted
    <2> HIDE DEF v
    <2>6. QED
      BY <1>1, <1>2, <1>3, <2>1, <2>2, <2>3, <2>5, EventTurn DEF Sending
  <1>6. CASE /\ Claim(Key(e), run[k].tick)
             /\ run' = [run EXCEPT ![k] = [run[k] EXCEPT !.pc = "push", !.event = e]]
    <2> DEFINE v == [status |-> "claimed", at |-> run[k].tick]
               r == [run[k] EXCEPT !.pc = "push", !.event = e]
    <2>1. v \in Entries /\ v.status = "claimed" /\ v.at = run[k].tick /\ log' = [log EXCEPT ![Key(e)] = v]
      BY <1>2, <1>6 DEF Entries, Claim
    <2>2. r.pc = "push" /\ r.event = e /\ r.tick = run[k].tick
      BY RunFacts DEF RunSound
    <2>3. ~Handled(Key(e)) /\ log[Key(e)].status \notin {"delivered", "suppressed"}
      BY <1>6 DEF Claim, Handled, Expired
    <2>4. \A j \in Containers : ~Sends(j, e)
      BY <2>3, ClaimsLast
    <2>5. pushes[e] <= unsure[e]
      BY <2>3, <2>4, OwnerFacts, NotCounted
    <2>6. Counted(e)'
      BY <1>3, <2>5 DEF Counted
    <2>7. run' = [run EXCEPT ![k] = r]
      BY <1>6
    <2> HIDE DEF v, r
    <2>8. QED
      BY <1>1, <1>2, <1>3, <2>1, <2>2, <2>3, <2>4, <2>6, <2>7, EventTurn
  <1>7. QED
    BY <1>4, <1>5, <1>6, Zenon DEF Decide, MarkSuppressed

\* Who is in the middle of a push is alone with its event, and its row is claimed.
LEMMA SenderFacts ==
    ASSUME NewsInv, OwnerInv, NEW k \in Containers, run[k].pc \in Sending
    PROVE  LET e == run[k].event
           IN  /\ e \in Ids /\ Sends(k, e)
               /\ log[Key(e)].status = "claimed" /\ log[Key(e)].at = run[k].tick
               /\ log[Key(e)] \in Entries
               /\ \A j \in Containers : j # k => ~Sends(j, e)
               /\ \A d \in Ids : d # e => ~Sends(k, d)
               /\ clock <= run[k].tick + MaxLag
               /\ run[k].pc # "confirm" => pushes[e] <= unsure[e]
               /\ pushes[e] <= unsure[e] + 1
               /\ pushes \in [Ids -> Nat] /\ unsure \in [Ids -> Nat]
  <1> DEFINE e == run[k].event
  <1>1. e \in Ids /\ Sends(k, e)
    BY RunFacts DEF RunSound, Sends, Sending
  <1>2. log[Key(e)].status = "claimed" /\ log[Key(e)].at = run[k].tick
    BY <1>1, OwnerFacts
  <1>3. log[Key(e)] \in Entries
    BY <1>1, KeyFacts DEF OwnerInv, LogTypes
  <1>4. \A j \in Containers : j # k => ~Sends(j, e)
    BY <1>1, OwnerFacts
  <1>5. \A d \in Ids : d # e => ~Sends(k, d)
    BY DEF Sends
  <1>6. clock <= run[k].tick + MaxLag
    BY DEF OwnerInv, OnTime, Sending
  <1>7. run[k].pc # "confirm" => pushes[e] <= unsure[e]
    BY <1>1, <1>2, <1>4, OwnerFacts, NotCounted
  <1>8. pushes \in [Ids -> Nat] /\ unsure \in [Ids -> Nat]
    BY DEF OwnerInv, LogTypes
  <1>9. pushes[e] <= unsure[e] + 1
    <2>1. pushes[e] \in Nat /\ unsure[e] \in Nat
      BY <1>1, <1>8
    <2>2. Counted(e)
      BY <1>1 DEF OwnerInv
    <2> HIDE DEF e
    <2>3. QED
      BY <2>1, <2>2 DEF Counted
  <1>10. QED
    BY <1>1, <1>2, <1>3, <1>4, <1>5, <1>6, <1>7, <1>8, <1>9, Zenon

LEMMA PushOwners ==
    ASSUME NewsInv, OwnerInv, NEW k \in Containers, NEW e, e = run[k].event, Push(k)
    PROVE  OwnerInv'
  <1> DEFINE v == log[Key(e)]
  <1>1. run[k].pc = "push" /\ run[k].pc \in Sending /\ UNCHANGED <<clock, log, memory>>
    BY DEF Push, Sending
  <1>2. /\ e \in Ids /\ v.status = "claimed" /\ v.at = run[k].tick /\ v \in Entries
        /\ \A j \in Containers : j # k => ~Sends(j, e)
        /\ \A d \in Ids : d # e => ~Sends(k, d)
        /\ clock <= run[k].tick + MaxLag /\ pushes[e] <= unsure[e]
        /\ pushes \in [Ids -> Nat] /\ unsure \in [Ids -> Nat]
    BY <1>1, SenderFacts
  <1>3. log' = [log EXCEPT ![Key(e)] = v]
    BY <1>1 DEF OwnerInv, LogTypes
  <1>4. PICK pc \in {"confirm", "release"}, accepted \in BOOLEAN :
            /\ run' = [run EXCEPT ![k].pc = pc]
            /\ pushes' = IF accepted THEN [pushes EXCEPT ![e] = @ + 1] ELSE pushes
            /\ unsure' = IF accepted /\ pc # "confirm" THEN [unsure EXCEPT ![e] = @ + 1] ELSE unsure
    <2>1. CASE /\ pushes' = [pushes EXCEPT ![e] = @ + 1] /\ unsure' = unsure
               /\ run' = [run EXCEPT ![k].pc = "confirm"]
      BY <2>1
    <2>2. CASE pushes' = pushes /\ unsure' = unsure /\ run' = [run EXCEPT ![k].pc = "release"]
      BY <2>2
    <2>3. CASE /\ pushes' = [pushes EXCEPT ![e] = @ + 1] /\ unsure' = [unsure EXCEPT ![e] = @ + 1]
               /\ run' = [run EXCEPT ![k].pc = "release"]
      BY <2>3
    <2>4. QED
      BY <2>1, <2>2, <2>3, Zenon DEF Push
  <1> DEFINE r == [run[k] EXCEPT !.pc = pc]
  <1>5. run' = [run EXCEPT ![k] = r]
    BY <1>4
  <1>6. r.pc = pc /\ r.event = e /\ r.tick = run[k].tick
    BY RunFacts DEF RunSound
  <1>7. /\ pushes' \in [Ids -> Nat] /\ unsure' \in [Ids -> Nat]
        /\ \A d \in Ids : d # e => pushes'[d] = pushes[d] /\ unsure'[d] = unsure[d]
        /\ pushes'[e] = IF accepted THEN pushes[e] + 1 ELSE pushes[e]
        /\ unsure'[e] = IF accepted /\ pc # "confirm" THEN unsure[e] + 1 ELSE unsure[e]
    BY <1>1, <1>2, <1>4
  <1>8. Counted(e)'
    <2>1. pushes[e] \in Nat /\ unsure[e] \in Nat /\ pushes[e] <= unsure[e]
      BY <1>2
    <2>2. CASE pc = "confirm"
      <3>1. run'[k].pc = "confirm" /\ run'[k].event = e
        BY <1>5, <1>6, <2>2, RunAt
      <3>2. pushes'[e] <= unsure'[e] + 1
        BY <1>7, <2>1, <2>2
      <3>3. QED
        BY <3>1, <3>2 DEF Counted, Confirming
    <2>3. CASE pc # "confirm"
      <3>1. pushes'[e] <= unsure'[e]
        BY <1>7, <2>1, <2>3
      <3>2. QED
        BY <3>1 DEF Counted
    <2>4. QED
      BY <2>2, <2>3
  <1>9. log[Key(e)].status \notin {"delivered", "suppressed"}
    BY <1>2
  <1> HIDE DEF v, r
  <1>10. QED
    BY <1>1, <1>2, <1>3, <1>5, <1>6, <1>7, <1>8, <1>9, EventTurn DEF Sending

LEMMA ConfirmOwners ==
    ASSUME NewsInv, OwnerInv, NEW k \in Containers, NEW e, e = run[k].event, run[k].pc = "confirm",
           UNCHANGED <<clock, memory, pushes, unsure>>, Confirm(Key(e), run[k].tick), Drop(k, e)
    PROVE  OwnerInv'
  <1> DEFINE v == [status |-> "delivered", at |-> run[k].tick]
  <1>1. run[k].pc \in Sending /\ run[k].pc # "idle"
    BY DEF Sending
  <1>2. /\ e \in Ids
        /\ \A j \in Containers : j # k => ~Sends(j, e)
        /\ \A d \in Ids : d # e => ~Sends(k, d)
        /\ pushes[e] <= unsure[e] + 1
        /\ pushes \in [Ids -> Nat] /\ unsure \in [Ids -> Nat]
    BY <1>1, SenderFacts
  <1>3. v \in Entries /\ v.status = "delivered" /\ log' = [log EXCEPT ![Key(e)] = v]
    BY RunFacts DEF Entries, Confirm, RunSound
  <1>4. PICK r : run' = [run EXCEPT ![k] = r] /\ r.pc = "next" /\ clock <= r.tick + MaxLag
    BY <1>1, DropTurn
  <1> HIDE DEF v
  <1>5. Counted(e)'
    <2>1. log'[Key(e)].status = "delivered"
      BY <1>2, <1>3, LogAt
    <2>2. QED
      BY <1>2, <2>1 DEF Counted, Key
  <1>6. QED
    BY <1>2, <1>3, <1>4, <1>5, EventTurn DEF Sending

LEMMA ReleaseOwners ==
    ASSUME NewsInv, OwnerInv, NEW k \in Containers, NEW e, e = run[k].event, run[k].pc = "release",
           UNCHANGED <<clock, memory, pushes, unsure>>, Release(Key(e)), Drop(k, e)
    PROVE  OwnerInv'
  <1>1. run[k].pc \in Sending /\ run[k].pc # "idle" /\ run[k].pc # "confirm"
    BY DEF Sending
  <1>2. /\ e \in Ids /\ log[Key(e)].status = "claimed"
        /\ \A j \in Containers : j # k => ~Sends(j, e)
        /\ \A d \in Ids : d # e => ~Sends(k, d)
        /\ pushes[e] <= unsure[e]
        /\ pushes \in [Ids -> Nat] /\ unsure \in [Ids -> Nat]
    BY <1>1, SenderFacts
  <1>3. NoEntry \in Entries /\ log' = [log EXCEPT ![Key(e)] = NoEntry]
    BY DEF Entries, Release, NoEntry
  <1>4. PICK r : run' = [run EXCEPT ![k] = r] /\ r.pc = "next" /\ clock <= r.tick + MaxLag
    BY <1>1, DropTurn
  <1>5. Counted(e)'
    BY <1>2 DEF Counted
  <1>6. QED
    BY <1>2, <1>3, <1>4, <1>5, EventTurn DEF Sending

\* A confirm that fails is told of; a release that fails keeps the claim.
LEMMA UnsettledOwners ==
    ASSUME NewsInv, OwnerInv, NEW k \in Containers, NEW e, e = run[k].event, run[k].pc \in {"confirm", "release"},
           UNCHANGED <<clock, memory, log, pushes>>, run' = [run EXCEPT ![k] = Idle],
           unsure' = IF run[k].pc = "confirm" THEN [unsure EXCEPT ![e] = @ + 1] ELSE unsure
    PROVE  OwnerInv'
  <1> DEFINE v == log[Key(e)]
  <1>1. run[k].pc \in Sending
    BY DEF Sending
  <1>2. /\ e \in Ids /\ v.status = "claimed" /\ v \in Entries
        /\ \A j \in Containers : j # k => ~Sends(j, e)
        /\ \A d \in Ids : d # e => ~Sends(k, d)
        /\ (run[k].pc # "confirm" => pushes[e] <= unsure[e]) /\ pushes[e] <= unsure[e] + 1
        /\ pushes \in [Ids -> Nat] /\ unsure \in [Ids -> Nat]
    BY <1>1, SenderFacts
  <1>3. log' = [log EXCEPT ![Key(e)] = v]
    BY DEF OwnerInv, LogTypes
  <1>4. /\ unsure' \in [Ids -> Nat] /\ pushes' \in [Ids -> Nat]
        /\ \A d \in Ids : d # e => unsure'[d] = unsure[d] /\ pushes'[d] = pushes[d]
        /\ pushes'[e] = pushes[e]
        /\ unsure'[e] = IF run[k].pc = "confirm" THEN unsure[e] + 1 ELSE unsure[e]
    BY <1>2
  <1>5. pushes'[e] <= unsure'[e]
    BY <1>2, <1>4
  <1>6. Counted(e)'
    BY <1>5 DEF Counted
  <1> DEFINE r == Idle
  <1>7. run' = [run EXCEPT ![k] = r] /\ r.pc = "idle" /\ r.pc \notin Sending
    BY IdleSound DEF Sending
  <1>8. log[Key(e)].status \notin {"delivered", "suppressed"}
    BY <1>2
  <1> HIDE DEF v, r
  <1>9. /\ clock' = clock /\ memory' = memory
        /\ r.pc # "idle" => clock <= r.tick + MaxLag
        /\ r.pc \in Sending => r.event = e /\ v.status = "claimed" /\ v.at = r.tick
        /\ log[Key(e)].status \in {"delivered", "suppressed"} => v.status \in {"delivered", "suppressed"}
        /\ \A d \in Ids : d # e => pushes'[d] = pushes[d] /\ unsure'[d] = unsure[d]
    BY <1>4, <1>7, <1>8
  <1>10. QED
    BY <1>2, <1>3, <1>4, <1>6, <1>7, <1>9, EventTurn, Zenon

LEMMA SettleOwners == ASSUME NewsInv, OwnerInv, NEW k \in Containers, Settle(k) PROVE OwnerInv'
  <1>1. PICK e : e = run[k].event
    OBVIOUS
  <1>2. run[k].pc \in {"confirm", "release"} /\ UNCHANGED <<clock, memory, pushes>>
    BY DEF Settle
  <1>3. CASE /\ run[k].pc = "confirm" /\ Confirm(Key(e), run[k].tick) /\ Drop(k, e) /\ UNCHANGED unsure
    BY <1>1, <1>2, <1>3, ConfirmOwners
  <1>4. CASE /\ run[k].pc = "release" /\ Release(Key(e)) /\ Drop(k, e) /\ UNCHANGED unsure
    BY <1>1, <1>2, <1>4, ReleaseOwners
  <1>5. CASE /\ run' = [run EXCEPT ![k] = Idle] /\ UNCHANGED log
             /\ unsure' = IF run[k].pc = "confirm" THEN [unsure EXCEPT ![e] = @ + 1] ELSE unsure
    BY <1>1, <1>2, <1>5, UnsettledOwners
  <1>6. QED
    BY <1>1, <1>3, <1>4, <1>5, Zenon DEF Settle

LEMMA InitOwners == Init => OwnerInv
  <1> SUFFICES ASSUME Init PROVE OwnerInv
    OBVIOUS
  <1>1. NoEntry \in Entries /\ NoEntry.status = "none"
    BY DEF Entries, NoEntry
  <1>2. LogTypes
    BY <1>1 DEF Init, LogTypes
  <1>3. \A k \in Containers : run[k].pc = "idle" /\ memory[k] = {}
    BY DEF Init, Idle
  <1>4. OnTime /\ Owns /\ OneOwner /\ RememberedIsSettled
    BY <1>3 DEF OnTime, Owns, OneOwner, RememberedIsSettled, Sends
  <1>5. \A e \in Ids : Counted(e)
    BY DEF Init, Counted
  <1>6. QED
    BY <1>2, <1>4, <1>5 DEF OwnerInv

LEMMA StepOwners == ASSUME MaxLag <= ClaimExpiry PROVE NewsInv /\ OwnerInv /\ [Next]_vars => OwnerInv'
  <1> SUFFICES ASSUME NewsInv, OwnerInv, [Next]_vars PROVE OwnerInv'
    OBVIOUS
  <1>1. CASE Advance \/ (\E e \in Ids : Discover(e)) \/ BeginPut
    BY <1>1, TimeOwners DEF Advance, Discover, BeginPut
  <1>2. CASE ReadIndex \/ AddSlots \/ DeleteSlots \/ StorePref \/ UNCHANGED vars
    <2>1. UNCHANGED <<clock, run, log, memory, pushes, unsure>>
      BY <1>2 DEF ReadIndex, AddSlots, DeleteSlots, StorePref, vars
    <2>2. QED
      BY <2>1, TimeOwners
  <1>3. ASSUME NEW k \in Containers, StartRun(k) \/ EndRun(k) \/ ServeClient(k) \/ ReadHandled(k)
        PROVE  OwnerInv'
    BY <1>3, StartRunOwners, EndRunOwners, ServeClientOwners, ReadHandledOwners
  <1>4. ASSUME NEW k \in Containers, (\E e \in Ids : Decide(k, e)) \/ Push(k) \/ Settle(k)
        PROVE  OwnerInv'
    BY <1>4, DecideOwners, PushOwners, SettleOwners
  <1>5. QED
    BY <1>1, <1>2, <1>3, <1>4, Zenon DEF Next

LEMMA OwnerInvariant == ASSUME MaxLag <= ClaimExpiry PROVE Spec => []OwnerInv
  BY InitOwners, StepOwners, NewsInvariant, PTL DEF Spec

\* mark_delivered is "the atomic gate" as long as no run serves a client later than
\* a claim lasts: then an event is pushed once, and once more only for each push
\* that was accepted but reported as failed, or whose confirmation did not happen.
THEOREM PushedOnce == ASSUME MaxLag <= ClaimExpiry PROVE Spec => []OnePushPerConfirmation
  <1>1. OwnerInv => OnePushPerConfirmation
    <2> SUFFICES ASSUME OwnerInv, NEW e \in Ids PROVE pushes[e] <= 1 + unsure[e]
      BY DEF OnePushPerConfirmation
    <2>1. pushes[e] \in Nat /\ unsure[e] \in Nat /\ Counted(e)
      BY DEF OwnerInv, LogTypes
    <2>2. QED
      BY <2>1 DEF Counted
  <1>2. QED
    BY <1>1, OwnerInvariant, PTL

\* The settled cache of a warm container never holds an event whose row may still
\* be released, under the same condition.
THEOREM CacheIsSettled == ASSUME MaxLag <= ClaimExpiry PROVE Spec => []RememberedIsSettled
  <1>1. OwnerInv => RememberedIsSettled
    BY DEF OwnerInv
  <1>2. QED
    BY <1>1, OwnerInvariant, PTL

-----------------------------------------------------------------------------
(* Minutes and slots *)

LEMMA LeastExists ==
    ASSUME NEW S \in SUBSET Nat, S # {}
    PROVE  \E n \in S : \A m \in S : n <= m
  <1>1. PICK n \in S : \A m \in S : <<m, n>> \notin OpToRel(<, Nat)
    BY NatLessThanWellFounded, WFMin
  <1>2. \A m \in S : ~(m < n)
    BY <1>1 DEF OpToRel
  <1>3. QED
    BY <1>2

LEMMA TimesGrows ==
    ASSUME NEW d \in Nat, NEW a \in Int, NEW b \in Int, a <= b
    PROVE  d * a <= d * b
  <1>1. d * b - d * a = d * (b - a) /\ b - a \in Nat
    OBVIOUS
  <1> DEFINE c == b - a
  <1>2. c \in Nat /\ d * c >= 0
    BY <1>1
  <1>3. QED
    BY <1>1, <1>2

LEMMA Division ==
    ASSUME NEW n \in Int, NEW d \in Nat \ {0}
    PROVE  n \div d \in Int /\ n % d \in 0..(d - 1) /\ n % d = n - d * (n \div d)
  <1>1. n \div d \in Int /\ n % d \in 0..(d - 1)
    OBVIOUS
  <1>2. n % d = n - d * (n \div d)
    OBVIOUS
  <1>3. QED
    BY <1>1, <1>2

LEMMA OneDivision ==
    ASSUME NEW d \in Nat \ {0}, NEW p \in Int, NEW q \in Int, NEW r \in 0..(d - 1), NEW s \in 0..(d - 1),
           d * p + r = d * q + s
    PROVE  p = q /\ r = s
  <1>1. p <= q
    <2> SUFFICES ASSUME q + 1 <= p PROVE FALSE
      OBVIOUS
    <2>1. d * (q + 1) <= d * p
      BY TimesGrows
    <2>2. d * (q + 1) = d * q + d
      OBVIOUS
    <2> QED
      BY <2>1, <2>2
  <1>2. q <= p
    <2> SUFFICES ASSUME p + 1 <= q PROVE FALSE
      OBVIOUS
    <2>1. d * (p + 1) <= d * q
      BY TimesGrows
    <2>2. d * (p + 1) = d * p + d
      OBVIOUS
    <2> QED
      BY <2>1, <2>2
  <1>3. QED
    BY <1>1, <1>2

LEMMA Multiple ==
    ASSUME NEW d \in Nat \ {0}, NEW q \in Int, NEW r \in 0..(d - 1)
    PROVE  (d * q + r) \div d = q /\ (d * q + r) % d = r
  <1> DEFINE n == d * q + r
  <1>1. n \in Int
    OBVIOUS
  <1>2. n \div d \in Int /\ n % d \in 0..(d - 1) /\ n % d = n - d * (n \div d)
    BY <1>1, Division
  <1>3. n = d * q + r
    OBVIOUS
  <1> HIDE DEF n
  <1>4. n \div d = q /\ n % d = r
    BY <1>2, <1>3, OneDivision
  <1>5. QED
    BY <1>4 DEF n

\* Every slot has a tick within a day after t.
LEMMA SlotComes ==
    ASSUME NEW s \in Slots, NEW t \in Nat
    PROVE  \E w \in (t + 1)..(t + SlotLength * SlotsPerDay) : IsTick(w) /\ SlotOf(w) = s
  <1> DEFINE a == (t \div SlotLength) + 1
             q == a + ((s - a) % SlotsPerDay)
             w == SlotLength * q
  <1>1. SlotLength \in Nat \ {0} /\ SlotsPerDay \in Nat \ {0} /\ s \in 0..(SlotsPerDay - 1)
    BY NewVideoAssumption DEF Slots
  <1>2. a \in Int /\ SlotLength * (a - 1) <= t /\ t < SlotLength * a
    <2>1. t \div SlotLength \in Int /\ t % SlotLength \in 0..(SlotLength - 1)
          /\ t % SlotLength = t - SlotLength * (t \div SlotLength)
      BY <1>1, Division
    <2>2. SlotLength * a = SlotLength * (t \div SlotLength) + SlotLength
      BY <1>1, <2>1
    <2>3. SlotLength * (a - 1) = SlotLength * (t \div SlotLength)
      BY <2>1
    <2>4. QED
      BY <1>1, <2>1, <2>2, <2>3
  <1> HIDE DEF a
  <1>3. q \in Int /\ a <= q /\ q <= (a - 1) + SlotsPerDay /\ q % SlotsPerDay = s
    <2> DEFINE m == s - a
               u == m % SlotsPerDay
               v == m \div SlotsPerDay
    <2>1. m \in Int
      BY <1>1, <1>2
    <2>2. v \in Int /\ u \in 0..(SlotsPerDay - 1) /\ u = m - SlotsPerDay * v
      <3> HIDE DEF m
      <3>1. QED
        BY <1>1, <2>1, Division
    <2>3. q = a + u /\ m = s - a
      OBVIOUS
    <2> HIDE DEF m, u, v, q
    <2>4. SlotsPerDay * (-v) = -(SlotsPerDay * v) /\ SlotsPerDay * v \in Int
      BY <1>1, <2>2
    <2>5. q = SlotsPerDay * (-v) + s
      BY <1>1, <1>2, <2>2, <2>3, <2>4
    <2>6. q % SlotsPerDay = s
      <3> DEFINE p == -v
      <3>1. p \in Int /\ q = SlotsPerDay * p + s
        BY <2>2, <2>5
      <3> HIDE DEF p
      <3>2. QED
        BY <1>1, <3>1, Multiple
    <2>7. QED
      BY <1>1, <1>2, <2>2, <2>3, <2>6
  <1> HIDE DEF q
  <1>4. w \in Int /\ t < w /\ w <= t + SlotLength * SlotsPerDay
    <2>1. SlotLength * a <= SlotLength * q /\ SlotLength * q <= SlotLength * ((a - 1) + SlotsPerDay)
      BY <1>1, <1>2, <1>3, TimesGrows
    <2>2. SlotLength * ((a - 1) + SlotsPerDay) = SlotLength * (a - 1) + SlotLength * SlotsPerDay
      BY <1>1, <1>2
    <2>3. QED
      BY <1>1, <1>2, <1>3, <2>1, <2>2
  <1>5. w \div SlotLength = q /\ w % SlotLength = 0
    <2>1. w = SlotLength * q + 0 /\ 0 \in 0..(SlotLength - 1)
      BY <1>1, <1>3
    <2> HIDE DEF w
    <2>2. QED
      BY <1>1, <1>3, <2>1, Multiple
  <1>6. IsTick(w) /\ SlotOf(w) = s
    BY <1>3, <1>5 DEF IsTick, SlotOf
  <1> HIDE DEF w
  <1>7. SlotLength * SlotsPerDay \in Nat
    BY <1>1
  <1>8. w \in (t + 1)..(t + SlotLength * SlotsPerDay)
    BY <1>4, <1>7
  <1>9. QED
    BY <1>6, <1>8

LEMMA WindowFollows ==
    ASSUME NEW slots \in SUBSET Slots, slots # {}, NEW t \in Nat
    PROVE  NextWindow(slots, t) \in Nat /\ t < NextWindow(slots, t)
  <1> DEFINE last == t + SlotLength * SlotsPerDay
             W == {w \in (t + 1)..last : IsTick(w) /\ SlotOf(w) \in slots}
  <1>1. last \in Nat
    BY NewVideoAssumption
  <1>2. W # {}
    <2>1. PICK s \in slots : s \in Slots
      OBVIOUS
    <2>2. QED
      BY <2>1, SlotComes
  <1>3. W \subseteq Nat /\ W \subseteq (t + 1)..last
    BY <1>1
  <1>4. PICK w \in W : \A u \in W : w <= u
    <2> HIDE DEF W
    <2>1. QED
      BY <1>2, <1>3, LeastExists
  <1>5. \A u \in (t + 1)..(w - 1) : u \in (t + 1)..last /\ ~(w <= u)
    BY <1>1, <1>3, <1>4
  <1>6. /\ w \in (t + 1)..last /\ IsTick(w) /\ SlotOf(w) \in slots
        /\ \A u \in (t + 1)..(w - 1) : ~(IsTick(u) /\ SlotOf(u) \in slots)
    BY <1>4, <1>5
  <1>7. NextWindow(slots, t) \in (t + 1)..last
    BY <1>6, Zenon DEF NextWindow
  <1>8. QED
    BY <1>1, <1>7

\* The index tells since when the client has been served, at the earliest.
LEMMA ActiveSinceFacts ==
    ASSUME NEW now \in Nat, index \in [Slots -> Nat]
    PROVE  /\ Indexed = {} => ActiveSince(now) = now
           /\ Indexed # {} => \E s \in Indexed : ActiveSince(now) = index[s]
  <1>1. CASE Indexed = {}
    BY <1>1 DEF ActiveSince
  <1>2. CASE Indexed # {}
    <2> DEFINE T == {index[s] : s \in Indexed}
    <2>1. T \subseteq Nat /\ T # {}
      BY <1>2 DEF Indexed
    <2>2. \E t \in T : \A u \in T : t <= u
      <3> HIDE DEF T
      <3>1. QED
        BY <2>1, LeastExists
    <2>3. \E t \in T : \A s \in Indexed : t <= index[s]
      BY <2>2
    <2>4. ActiveSince(now) = CHOOSE t \in T : \A s \in Indexed : t <= index[s]
      BY <1>2 DEF ActiveSince
    <2>5. ActiveSince(now) \in T
      BY <2>3, <2>4, Zenon
    <2>6. QED
      BY <1>2, <2>5
  <1>3. QED
    BY <1>1, <1>2

-----------------------------------------------------------------------------
(* Edits *)

\* Discovered, and wanted ever since.
Fresh(e) == e \notin missed /\ found[e] # Never

Stored(p) == p.since <= p.at /\ (p.creator => p.at # Never)

ClientTypes ==
    /\ clock \in 1..MaxClock
    /\ index \in [Slots -> Nat] /\ \A s \in Slots : index[s] <= clock
    /\ Stored(pref) /\ Stored(put.body)
    /\ cut \in BOOLEAN

PutTypes ==
    /\ put.pc \in {"none", "index", "add", "delete", "store"}
    /\ put.pc = "none" => put.body = NoPref
    /\ put.pc # "none" => put.body.at # Never
    /\ put.missing \subseteq Slots /\ put.stale \subseteq Slots
    /\ put.body.on => put.body.slots # {}
    /\ put.since \in Nat /\ put.since <= clock
    /\ put.pc = "add" => put.since # Never

\* What a PUT that leaves the client on has left to do, against the index as it stands.
PutProgress ==
    put.body.on =>
        /\ put.pc \in {"add", "delete", "store"} => put.stale \cap put.body.slots = {}
        /\ put.pc = "add" => put.body.slots \subseteq Indexed \cup put.missing /\ put.had \subseteq Indexed
        /\ put.pc \in {"delete", "store"} => put.body.slots \subseteq Indexed

\* The index is older than what the client wants, and empty only while it wants nothing.
FreshIsLater ==
    ~cut => \A e \in Ids : Fresh(e) =>
        /\ \A s \in Slots : index[s] <= found[e]
        /\ Indexed = {} => put.pc # "none" /\ put.body.at <= found[e]
        /\ put.pc = "add" => put.since <= found[e]

EmptyIsOff == ~cut /\ Indexed = {} => ~Wants(pref)

StoreEdits == ClientTypes /\ PutTypes /\ PutProgress /\ FreshIsLater /\ EmptyIsOff

RunIsEarlier(r) ==
    /\ r.tick <= clock
    /\ r.pref.creator => r.pref.since # Never
    /\ r.pc = "serve" =>
          /\ r.since \in Nat /\ r.since <= clock
          /\ ~cut => \A e \in Ids : Fresh(e) => r.since <= found[e]
    /\ r.pc = "read" /\ ~cut =>
          Pending(r.tick) \ r.missed \subseteq r.todo

RunEdits == \A k \in Containers : RunIsEarlier(run[k])

EditInv == StoreEdits /\ RunEdits

LEMMA NowIsNat == ASSUME NewsInv PROVE clock \in Nat /\ Never = 0 /\ found \in [Ids -> Nat] /\ missed \subseteq Ids
  BY DEF NewsInv, StoreTypes, Never

\* A step that no run takes.
LEMMA RunsStayEarlier ==
    ASSUME NewsInv, EditInv, NewsInv', run' = run, clock <= clock', cut \in BOOLEAN, cut => cut',
           \A e \in Ids : found'[e] # Never => found'[e] = found[e] \/ (found'[e] = clock' /\ clock < clock'),
           missed \subseteq missed'
    PROVE  RunEdits'
  <1>1. SUFFICES ASSUME NEW k \in Containers PROVE RunIsEarlier(run[k])'
    BY DEF RunEdits
  <1> DEFINE r == run[k]
  <1>2. RunIsEarlier(r) /\ RunSound(r) /\ run'[k] = r
    BY RunFacts DEF EditInv, RunEdits
  <1>3. r.tick \in Nat
    BY <1>2 DEF RunSound
  <1> HIDE DEF r
  <1>4. clock \in Nat /\ clock' \in Nat /\ found \in [Ids -> Nat] /\ found' \in [Ids -> Nat]
    BY NowIsNat DEF NewsInv, StoreTypes
  <1>5. r.tick <= clock' /\ (r.pref.creator => r.pref.since # Never)
    BY <1>2, <1>3, <1>4 DEF RunIsEarlier
  <1>6. ASSUME r.pc = "serve"
        PROVE  /\ r.since \in Nat /\ r.since <= clock'
               /\ ~cut' => \A e \in Ids : Fresh(e)' => r.since <= found'[e]
    <2>1. r.since \in Nat /\ r.since <= clock
      BY <1>2, <1>6 DEF RunIsEarlier
    <2>2. ASSUME ~cut', NEW e \in Ids, Fresh(e)' PROVE r.since <= found'[e]
      <3>1. ~cut /\ e \notin missed /\ found'[e] # Never
        BY <2>2 DEF Fresh
      <3>2. CASE found'[e] = found[e]
        BY <1>2, <1>6, <3>1, <3>2 DEF RunIsEarlier, Fresh
      <3>3. CASE found'[e] = clock'
        BY <1>4, <2>1, <3>3
      <3>4. QED
        BY <3>1, <3>2, <3>3
    <2>3. QED
      BY <1>4, <2>1, <2>2
  <1>7. ASSUME r.pc = "read", ~cut', NEW e \in Pending(run[k].tick)' \ r.missed
        PROVE  e \in r.todo
    <2>1. ~cut /\ r.tick <= clock
      BY <1>2, <1>7 DEF RunIsEarlier
    <2>2. /\ e \in Ids /\ found'[e] # Never /\ found'[e] <= r.tick
          /\ Day(r.tick) - Day(found'[e]) < EventLookback
      BY <1>2, <1>7 DEF Pending, Day
    <2>3. found'[e] = found[e]
      BY <1>3, <1>4, <2>1, <2>2
    <2>4. e \in Pending(r.tick)
      BY <2>2, <2>3 DEF Pending
    <2>5. QED
      BY <1>2, <1>7, <2>1, <2>4 DEF RunIsEarlier
  <1>8. r.pc = "read" /\ ~cut' => Pending(run[k].tick)' \ r.missed \subseteq r.todo
    BY <1>7
  <1>9. QED
    BY <1>2, <1>5, <1>6, <1>8 DEF RunIsEarlier

LEMMA StoreStep ==
    ASSUME NewsInv, EditInv, NewsInv', UNCHANGED <<run, clock, found>>, cut => cut', missed \subseteq missed', StoreEdits'
    PROVE  EditInv'
  <1>1. clock <= clock' /\ cut \in BOOLEAN
    BY NowIsNat DEF EditInv, StoreEdits, ClientTypes
  <1>2. QED
    BY <1>1, RunsStayEarlier DEF EditInv

LEMMA AdvanceEdits == ASSUME NewsInv, EditInv, Advance PROVE EditInv'
  <1>1. clock < MaxClock /\ clock' = clock + 1 /\ UNCHANGED <<found, pref, index, put, run, missed, cut>>
    BY DEF Advance, Passes
  <1>2. clock \in Nat /\ MaxClock \in Nat
    BY NowIsNat, NewVideoAssumption
  <1>3. ClientTypes'
    BY <1>1, <1>2 DEF EditInv, StoreEdits, ClientTypes, Stored
  <1>4. PutTypes'
    BY <1>1, <1>2 DEF EditInv, StoreEdits, PutTypes
  <1>5. PutProgress' /\ EmptyIsOff'
    BY <1>1 DEF EditInv, StoreEdits, PutProgress, EmptyIsOff, Indexed, Wants
  <1>6. FreshIsLater'
    BY <1>1 DEF EditInv, StoreEdits, FreshIsLater, Fresh, Indexed
  <1>7. RunEdits'
    <2>1. cut \in BOOLEAN /\ clock <= clock' /\ NewsInv'
      BY <1>1, <1>2, AdvanceNews DEF EditInv, StoreEdits, ClientTypes
    <2>2. QED
      BY <1>1, <2>1, RunsStayEarlier
  <1>8. QED
    BY <1>3, <1>4, <1>5, <1>6, <1>7 DEF EditInv, StoreEdits

LEMMA DiscoverEdits == ASSUME NewsInv, EditInv, NEW e \in Ids, Discover(e) PROVE EditInv'
  <1>1. /\ clock < MaxClock /\ clock' = clock + 1 /\ UNCHANGED <<pref, index, put, run, cut>>
        /\ found[e] = Never /\ found' = [found EXCEPT ![e] = clock']
        /\ missed' = IF Wants(pref) \/ Wants(put.body) THEN missed ELSE missed \cup {e}
    BY DEF Discover, Passes
  <1>2. clock \in Nat /\ MaxClock \in Nat /\ found \in [Ids -> Nat]
    BY NowIsNat, NewVideoAssumption
  <1>3. ClientTypes'
    BY <1>1, <1>2 DEF EditInv, StoreEdits, ClientTypes, Stored
  <1>4. PutTypes'
    BY <1>1, <1>2 DEF EditInv, StoreEdits, PutTypes
  <1>5. PutProgress' /\ EmptyIsOff'
    BY <1>1 DEF EditInv, StoreEdits, PutProgress, EmptyIsOff, Indexed, Wants
  <1>6. found'[e] = clock' /\ \A d \in Ids : d # e => found'[d] = found[d]
    BY <1>1, <1>2
  <1>7. FreshIsLater'
    <2>1. SUFFICES ASSUME ~cut, NEW d \in Ids, Fresh(d)'
                   PROVE  /\ \A s \in Slots : index[s] <= found'[d]
                          /\ Indexed = {} => put.pc # "none" /\ put.body.at <= found'[d]
                          /\ put.pc = "add" => put.since <= found'[d]
      BY <1>1 DEF FreshIsLater, Indexed
    <2>2. CASE d # e
      <3>1. Fresh(d) /\ found'[d] = found[d]
        BY <1>1, <1>6, <2>1, <2>2 DEF Fresh
      <3>2. QED
        BY <2>1, <3>1 DEF EditInv, StoreEdits, FreshIsLater
    <2>3. CASE d = e
      <3>1. Wants(pref) \/ Wants(put.body)
        BY <1>1, <2>1, <2>3 DEF Fresh
      <3>2. \A s \in Slots : index[s] <= found'[d]
        BY <1>1, <1>2, <1>6, <2>3 DEF EditInv, StoreEdits, ClientTypes
      <3>3. put.body.at <= clock /\ put.body.at \in Nat
        BY DEF NewsInv, StoreTypes, PutSound, Preferences
      <3>4. ASSUME Indexed = {} PROVE put.pc # "none" /\ put.body.at <= found'[d]
        <4>1. ~Wants(pref)
          BY <2>1, <3>4 DEF EditInv, StoreEdits, EmptyIsOff
        <4>2. put.pc # "none"
          BY <3>1, <4>1, NoPrefType DEF EditInv, StoreEdits, PutTypes
        <4>3. QED
          BY <1>1, <1>2, <1>6, <2>3, <3>3, <4>2
      <3>5. put.since <= found'[d]
        BY <1>1, <1>2, <1>6, <2>3 DEF EditInv, StoreEdits, PutTypes
      <3>6. QED
        BY <3>2, <3>4, <3>5
    <2>4. QED
      BY <2>2, <2>3
  <1>8. RunEdits'
    <2>1. cut \in BOOLEAN /\ clock <= clock' /\ NewsInv'
      BY <1>1, <1>2, DiscoverNews DEF EditInv, StoreEdits, ClientTypes
    <2>2. missed \subseteq missed' /\ clock < clock'
      BY <1>1, <1>2
    <2>3. QED
      BY <1>1, <1>6, <2>1, <2>2, RunsStayEarlier
  <1>9. QED
    BY <1>3, <1>4, <1>5, <1>7, <1>8 DEF EditInv, StoreEdits

\* What is stamped is not later than the write.
LEMMA StampedInTime ==
    ASSUME NewsInv, EditInv, NEW body \in Bodies, NEW now \in Nat, now = clock + 1
    PROVE  Stamped(body, now) <= now
  <1> DEFINE carried == IF Wants(pref) THEN Activation(pref) ELSE Never
  <1>1. Stamped(body, now) = IF ~Wants(body) THEN Never ELSE IF carried # Never THEN carried ELSE now
    BY DEF Stamped, Activation
  <1>2. clock \in Nat /\ pref.since \in Nat /\ pref.at \in Nat /\ pref.at <= clock /\ pref.since <= pref.at /\ Never = 0
    BY NowIsNat DEF NewsInv, StoreTypes, Preferences, EditInv, StoreEdits, ClientTypes, Stored
  <1>3. carried \in Nat /\ carried <= now
    BY <1>2 DEF Activation
  <1> HIDE DEF carried
  <1>4. QED
    BY <1>1, <1>2, <1>3

LEMMA BodiesHaveSlots == ASSUME NEW body \in Bodies PROVE body.on => body.slots # {}
  <1>1. CASE body \in [on : {TRUE}, creator : BOOLEAN, slots : SlotChoices]
    BY <1>1, NewVideoAssumption
  <1>2. CASE body = [on |-> FALSE, creator |-> TRUE, slots |-> Slots]
    BY <1>2
  <1>3. QED
    BY <1>1, <1>2 DEF Bodies

LEMMA BeginPutEdits == ASSUME NewsInv, EditInv, BeginPut PROVE EditInv'
  <1>1. clock < MaxClock /\ clock' = clock + 1 /\ put.pc = "none" /\ UNCHANGED <<found, pref, index, run, missed, cut>>
    BY DEF BeginPut, Passes
  <1>2. PICK body \in Bodies :
          put' = [NoPut EXCEPT !.pc = "index", !.count = put.count + 1,
                    !.body = [on |-> body.on, creator |-> body.creator, slots |-> body.slots,
                              since |-> Stamped(body, clock'), at |-> clock']]
    BY DEF BeginPut
  <1>3. clock \in Nat /\ clock' \in Nat /\ MaxClock \in Nat /\ Never = 0
    BY <1>1, NowIsNat, NewVideoAssumption
  <1> DEFINE since == Stamped(body, clock')
             b == [on |-> body.on, creator |-> body.creator, slots |-> body.slots, since |-> since, at |-> clock']
  <1>4. since <= clock'
    BY <1>1, <1>3, StampedInTime
  <1> HIDE DEF since
  <1>5. put' = [pc |-> "index", count |-> put.count + 1, body |-> b, missing |-> {}, stale |-> {},
                since |-> Never, had |-> {}]
    BY <1>2 DEF NoPut, since
  <1>6. Stored(b) /\ b.at # Never /\ b.at = clock' /\ (b.on => b.slots # {})
    BY <1>1, <1>3, <1>4, BodiesHaveSlots DEF Stored
  <1> HIDE DEF b
  <1>7. put'.pc = "index" /\ put'.body = b /\ put'.missing = {} /\ put'.stale = {} /\ put'.since = Never
    BY <1>5
  <1>8. ClientTypes'
    <2>1. Stored(put.body)' /\ Stored(pref)'
      BY <1>1, <1>6, <1>7 DEF EditInv, StoreEdits, ClientTypes, Stored
    <2>2. QED
      BY <1>1, <1>3, <2>1 DEF EditInv, StoreEdits, ClientTypes
  <1>9. PutTypes'
    BY <1>3, <1>6, <1>7 DEF PutTypes
  <1>10. PutProgress' /\ EmptyIsOff'
    BY <1>1, <1>7 DEF EditInv, StoreEdits, PutProgress, EmptyIsOff, Indexed, Wants
  <1>11. FreshIsLater'
    <2>1. SUFFICES ASSUME ~cut, NEW e \in Ids, Fresh(e) PROVE Indexed # {} /\ \A s \in Slots : index[s] <= found[e]
      BY <1>1, <1>7 DEF FreshIsLater, Indexed, Fresh
    <2>2. QED
      BY <1>1, <2>1 DEF EditInv, StoreEdits, FreshIsLater
  <1>12. RunEdits'
    <2>1. cut \in BOOLEAN /\ clock <= clock' /\ NewsInv'
      BY <1>1, <1>3, BeginPutNews DEF EditInv, StoreEdits, ClientTypes
    <2>2. QED
      BY <1>1, <2>1, RunsStayEarlier
  <1>13. QED
    BY <1>8, <1>9, <1>10, <1>11, <1>12 DEF EditInv, StoreEdits

\* A PUT that ends, whatever it leaves in the index.
LEMMA EndsEdits ==
    ASSUME NewsInv, EditInv, NewsInv', Ends(pref'), UNCHANGED <<clock, found, run>>, cut => cut', cut' \in BOOLEAN,
           index' \in [Slots -> Nat], \A s \in Slots : index'[s] <= clock, Stored(pref'),
           ~cut' => \A e \in Ids : Fresh(e) => \A s \in Slots : index'[s] <= found[e],
           EmptyIsOff'
    PROVE  EditInv'
  <1>1. put' = [pc |-> "none", count |-> put.count, body |-> NoPref, missing |-> {}, stale |-> {},
                since |-> Never, had |-> {}]
    BY DEF Ends, NoPut
  <1>2. put'.pc = "none" /\ put'.body = NoPref /\ put'.missing = {} /\ put'.stale = {} /\ put'.since = Never
    BY <1>1
  <1>3. missed' = IF Wants(pref') THEN missed ELSE missed \cup {e \in Ids : found[e] # Never}
    BY DEF Ends
  <1>4. missed \subseteq missed' /\ Never = 0 /\ clock \in Nat
    BY <1>3, NowIsNat
  <1>5. Stored(NoPref) /\ ~NoPref.on
    BY <1>4 DEF Stored, NoPref
  <1>6. ClientTypes'
    <2>1. Stored(put.body)' /\ Stored(pref)'
      BY <1>2, <1>5 DEF Stored
    <2>2. QED
      BY <2>1 DEF EditInv, StoreEdits, ClientTypes
  <1>7. PutTypes' /\ PutProgress'
    BY <1>2, <1>4, <1>5 DEF PutTypes, PutProgress
  <1>8. FreshIsLater'
    <2>1. SUFFICES ASSUME ~cut', NEW e \in Ids, Fresh(e)' PROVE Indexed' # {} /\ \A s \in Slots : index'[s] <= found[e]
      BY <1>2 DEF FreshIsLater
    <2>2. Fresh(e)
      BY <1>4, <2>1 DEF Fresh
    <2>3. Wants(pref')
      BY <1>3, <2>1, <2>2 DEF Fresh
    <2>4. Wants(pref)'
      BY <2>3 DEF Wants
    <2>5. QED
      BY <2>1, <2>2, <2>4 DEF EmptyIsOff
  <1>9. QED
    BY <1>4, <1>6, <1>7, <1>8, StoreStep DEF StoreEdits

\* A PUT that fails before it wrote anything.
LEMMA FailsUntouched ==
    ASSUME NewsInv, EditInv, NewsInv', Ends(pref), UNCHANGED <<clock, found, run, pref, index, cut>>
    PROVE  EditInv'
  <1>1. index' \in [Slots -> Nat] /\ (\A s \in Slots : index'[s] <= clock) /\ Stored(pref') /\ cut' \in BOOLEAN
    BY DEF EditInv, StoreEdits, ClientTypes, Stored
  <1>2. EmptyIsOff'
    BY DEF EditInv, StoreEdits, EmptyIsOff, Indexed, Wants
  <1>3. ~cut' => \A e \in Ids : Fresh(e) => \A s \in Slots : index'[s] <= found[e]
    BY DEF EditInv, StoreEdits, FreshIsLater
  <1>4. Ends(pref')
    OBVIOUS
  <1>5. QED
    BY <1>1, <1>2, <1>3, <1>4, EndsEdits

-----------------------------------------------------------------------------
(* No edit loses a video *)

LEMMA ReadIndexEdits == ASSUME NewsInv, EditInv, ReadIndex PROVE EditInv'
  <1>1. UNCHANGED <<clock, found, pref, index, run, cut>> /\ put.pc = "index" /\ NewsInv'
    BY ReadIndexNews DEF ReadIndex
  <1>2. CASE Ends(pref)
    BY <1>1, <1>2, FailsUntouched
  <1> DEFINE want == IF put.body.on THEN put.body.slots ELSE {}
             missing == want \ Indexed
             stale == Indexed \ want
             since == ActiveSince(put.body.at)
             pc == IF missing # {} THEN "add" ELSE IF stale # {} THEN "delete" ELSE "store"
  <1>3. CASE /\ missed' = missed
             /\ put' = [put EXCEPT !.missing = missing, !.stale = stale, !.had = Indexed, !.since = since,
                                   !.pc = pc]
    <2>1. /\ PutSound(put) /\ put.body \in Preferences /\ put.body.at <= clock /\ put.body.at \in Nat
          /\ put.body.at # Never /\ (put.body.on => put.body.slots # {}) /\ put.body.slots \subseteq Slots
      BY <1>1 DEF NewsInv, StoreTypes, PutSound, Preferences, EditInv, StoreEdits, PutTypes
    <2>2. clock \in Nat /\ Never = 0 /\ index \in [Slots -> Nat] /\ \A s \in Slots : index[s] <= clock
      BY NowIsNat DEF EditInv, StoreEdits, ClientTypes
    <2>3. missing \subseteq Slots /\ stale \subseteq Slots
      BY <2>1 DEF Indexed
    <2>4. /\ Indexed = {} => since = put.body.at
          /\ Indexed # {} => \E s \in Indexed : since = index[s]
      BY <2>1, <2>2, ActiveSinceFacts
    <2>5. put.body.on => want \cap stale = {} /\ want \subseteq Indexed \cup missing /\ (pc # "add" => want \subseteq Indexed)
      OBVIOUS
    <2>6. pc \in {"add", "delete", "store"}
      OBVIOUS
    <2>7. want = put.body.slots \/ ~put.body.on
      OBVIOUS
    <2> HIDE DEF missing, stale, since, pc, want
    <2>8. since \in Nat /\ since <= clock /\ since # Never
      BY <2>1, <2>2, <2>4 DEF Indexed
    <2>9. put' = [pc |-> pc, count |-> put.count, body |-> put.body, missing |-> missing, stale |-> stale,
                  since |-> since, had |-> Indexed]
      BY <1>3, <2>1 DEF PutSound
    <2>10. /\ put'.pc = pc /\ put'.body = put.body /\ put'.missing = missing /\ put'.stale = stale
           /\ put'.since = since /\ put'.had = Indexed
      BY <2>9
    <2>11. ClientTypes'
      BY <1>1, <2>10 DEF EditInv, StoreEdits, ClientTypes, Stored
    <2>12. PutTypes'
      BY <1>1, <2>1, <2>2, <2>3, <2>6, <2>8, <2>10 DEF PutTypes
    <2>13. PutProgress'
      <3>1. Indexed' = Indexed
        BY <1>1 DEF Indexed
      <3>2. QED
        BY <2>5, <2>7, <2>10, <3>1 DEF PutProgress
    <2>14. FreshIsLater'
      <3>1. SUFFICES ASSUME ~cut, NEW e \in Ids, Fresh(e)
                     PROVE  /\ \A s \in Slots : index[s] <= found[e]
                            /\ Indexed = {} => put.body.at <= found[e]
                            /\ since <= found[e]
        BY <1>1, <1>3, <2>6, <2>10 DEF FreshIsLater, Indexed, Fresh
      <3>2. /\ \A s \in Slots : index[s] <= found[e]
            /\ Indexed = {} => put.body.at <= found[e]
        BY <3>1 DEF EditInv, StoreEdits, FreshIsLater
      <3>3. since <= found[e]
        BY <2>4, <3>2 DEF Indexed
      <3>4. QED
        BY <3>2, <3>3
    <2>15. EmptyIsOff'
      BY <1>1 DEF EditInv, StoreEdits, EmptyIsOff, Indexed, Wants
    <2>16. QED
      BY <1>1, <1>3, <2>11, <2>12, <2>13, <2>14, <2>15, StoreStep DEF StoreEdits
  <1>4. QED
    BY <1>2, <1>3 DEF ReadIndex

\* A step of a PUT that writes the index and goes on.
LEMMA WritesIndex ==
    ASSUME NewsInv, EditInv, NewsInv', UNCHANGED <<clock, found, run, pref, missed>>, NEW pc \in {"delete", "store"},
           put.pc # "none", put' = [put EXCEPT !.pc = pc], cut => cut', cut' \in BOOLEAN,
           index' \in [Slots -> Nat], \A s \in Slots : index'[s] <= clock,
           ~cut' => \A e \in Ids : Fresh(e) => \A s \in Slots : index'[s] <= found[e],
           ~cut' => Indexed' # {} \/ Indexed = {},
           put.body.on => put.body.slots \subseteq Indexed' /\ put.stale \cap put.body.slots = {}
    PROVE  EditInv'
  <1>1. put = [pc |-> put.pc, count |-> put.count, body |-> put.body, missing |-> put.missing, stale |-> put.stale,
               since |-> put.since, had |-> put.had]
    BY DEF NewsInv, StoreTypes, PutSound
  <1>2. put' = [pc |-> pc, count |-> put.count, body |-> put.body, missing |-> put.missing, stale |-> put.stale,
               since |-> put.since, had |-> put.had]
    BY <1>1
  <1>3. /\ put'.pc = pc /\ put'.body = put.body /\ put'.missing = put.missing /\ put'.stale = put.stale
        /\ put'.since = put.since
    BY <1>2
  <1>4. ClientTypes'
    <2>1. Stored(put.body)' /\ Stored(pref)'
      BY <1>3 DEF EditInv, StoreEdits, ClientTypes, Stored
    <2>2. QED
      BY <2>1 DEF EditInv, StoreEdits, ClientTypes
  <1>5. PutTypes' /\ PutProgress'
    BY <1>3 DEF EditInv, StoreEdits, PutTypes, PutProgress
  <1>6. EmptyIsOff'
    BY DEF EditInv, StoreEdits, EmptyIsOff, Wants
  <1>7. FreshIsLater'
    <2>1. SUFFICES ASSUME ~cut', NEW e \in Ids, Fresh(e), Indexed' = {} PROVE put.body.at <= found[e]
      BY <1>3 DEF FreshIsLater, Fresh
    <2>2. Indexed = {} /\ ~cut
      BY <2>1
    <2>3. QED
      BY <2>1, <2>2 DEF EditInv, StoreEdits, FreshIsLater
  <1>8. QED
    BY <1>4, <1>5, <1>6, <1>7, StoreStep DEF StoreEdits

LEMMA AddSlotsEdits == ASSUME NewsInv, EditInv, AddSlots PROVE EditInv'
  <1>1. UNCHANGED <<clock, found, pref, run, cut>> /\ put.pc = "add" /\ NewsInv'
    BY AddSlotsNews DEF AddSlots
  <1>2. PICK added \in SUBSET put.missing :
         /\ index' = [s \in Slots |-> IF s \in added THEN put.since ELSE index[s]]
         /\ \/ /\ added = put.missing
               /\ put' = [put EXCEPT !.pc = IF put.stale # {} THEN "delete" ELSE "store"]
               /\ UNCHANGED <<missed, faults>>
            \/ Fails /\ FailedAdd
    BY DEF AddSlots
  <1>3. /\ put.since \in Nat /\ put.since <= clock /\ put.since # Never /\ put.missing \subseteq Slots
        /\ index \in [Slots -> Nat] /\ (\A s \in Slots : index[s] <= clock) /\ cut \in BOOLEAN /\ Stored(pref)
    BY <1>1 DEF EditInv, StoreEdits, PutTypes, ClientTypes
  <1>4. index' \in [Slots -> Nat] /\ (\A s \in Slots : index'[s] <= clock)
    BY <1>2, <1>3
  <1>5. Indexed' = Indexed \cup added
    BY <1>2, <1>3 DEF Indexed
  <1>6. ~cut' => \A e \in Ids : Fresh(e) => \A s \in Slots : index'[s] <= found[e]
    BY <1>1, <1>2 DEF EditInv, StoreEdits, FreshIsLater
  <1>7. CASE Ends(pref)
    <2>1. EmptyIsOff'
      BY <1>1, <1>5 DEF EditInv, StoreEdits, EmptyIsOff, Wants
    <2>2. Ends(pref') /\ Stored(pref')
      BY <1>1, <1>3, <1>7
    <2>3. QED
      BY <1>1, <1>3, <1>4, <1>6, <2>1, <2>2, EndsEdits
  <1>8. CASE added = put.missing /\ missed' = missed /\ put' = [put EXCEPT !.pc = IF put.stale # {} THEN "delete" ELSE "store"]
    <2>1. put.body.on => put.body.slots \subseteq Indexed' /\ put.stale \cap put.body.slots = {}
      BY <1>1, <1>5, <1>8 DEF EditInv, StoreEdits, PutProgress
    <2>2. ~cut' => Indexed' # {} \/ Indexed = {}
      BY <1>5
    <2>3. PICK pc \in {"delete", "store"} : put' = [put EXCEPT !.pc = pc]
      BY <1>8
    <2>4. QED
      BY <1>1, <1>3, <1>4, <1>6, <1>8, <2>1, <2>2, <2>3, WritesIndex
  <1>9. QED
    BY <1>2, <1>7, <1>8 DEF FailedAdd

LEMMA DeleteSlotsEdits == ASSUME NewsInv, EditInv, DeleteSlots PROVE EditInv'
  <1>1. UNCHANGED <<clock, found, pref, run>> /\ put.pc = "delete" /\ NewsInv'
    BY DeleteSlotsNews DEF DeleteSlots
  <1>2. PICK deleted \in SUBSET put.stale :
         /\ index' = [s \in Slots |-> IF s \in deleted THEN Never ELSE index[s]]
         /\ cut' = (cut \/ Indexed \subseteq deleted)
         /\ \/ /\ deleted = put.stale
               /\ put' = [put EXCEPT !.pc = "store"]
               /\ UNCHANGED <<missed, faults>>
            \/ Fails /\ Ends(pref)
    BY DEF DeleteSlots
  <1>3. /\ put.stale \subseteq Slots /\ Never = 0 /\ clock \in Nat
        /\ index \in [Slots -> Nat] /\ (\A s \in Slots : index[s] <= clock) /\ cut \in BOOLEAN /\ Stored(pref)
    BY <1>1, NowIsNat DEF EditInv, StoreEdits, PutTypes, ClientTypes
  <1>4. index' \in [Slots -> Nat] /\ (\A s \in Slots : index'[s] <= clock) /\ (\A s \in Slots : index'[s] <= index[s])
    BY <1>2, <1>3
  <1>5. Indexed' = Indexed \ deleted
    BY <1>2, <1>3 DEF Indexed
  <1>6. cut' \in BOOLEAN /\ (cut => cut') /\ (~cut' => ~cut /\ Indexed' # {})
    BY <1>2, <1>3, <1>5
  <1>7. ~cut' => \A e \in Ids : Fresh(e) => \A s \in Slots : index'[s] <= found[e]
    <2>1. SUFFICES ASSUME ~cut', NEW e \in Ids, Fresh(e), NEW s \in Slots PROVE index'[s] <= found[e]
      OBVIOUS
    <2>2. index[s] <= found[e]
      BY <1>6, <2>1 DEF EditInv, StoreEdits, FreshIsLater
    <2>3. found[e] \in Nat
      BY NowIsNat
    <2>4. QED
      BY <1>3, <1>4, <2>2, <2>3
  <1>8. CASE Ends(pref)
    <2>1. EmptyIsOff'
      BY <1>6 DEF EmptyIsOff
    <2>2. Ends(pref') /\ Stored(pref')
      BY <1>1, <1>3, <1>8
    <2>3. QED
      BY <1>1, <1>4, <1>6, <1>7, <2>1, <2>2, EndsEdits
  <1>9. CASE missed' = missed /\ put' = [put EXCEPT !.pc = "store"]
    <2>1. put.body.on => put.body.slots \subseteq Indexed' /\ put.stale \cap put.body.slots = {}
      BY <1>1, <1>5 DEF EditInv, StoreEdits, PutProgress
    <2>2. QED
      BY <1>1, <1>4, <1>6, <1>7, <1>9, <2>1, WritesIndex
  <1>10. QED
    BY <1>2, <1>8, <1>9

LEMMA StorePrefEdits == ASSUME NewsInv, EditInv, StorePref PROVE EditInv'
  <1>1. UNCHANGED <<clock, found, index, run, cut>> /\ put.pc = "store" /\ NewsInv'
    BY StorePrefNews DEF StorePref
  <1>2. CASE Ends(pref) /\ UNCHANGED pref
    BY <1>1, <1>2, FailsUntouched
  <1>3. CASE pref' = put.body /\ Ends(put.body)
    <2>1. index' \in [Slots -> Nat] /\ (\A s \in Slots : index'[s] <= clock) /\ cut' \in BOOLEAN /\ Stored(put.body)
      BY <1>1 DEF EditInv, StoreEdits, ClientTypes
    <2>2. ~cut' => \A e \in Ids : Fresh(e) => \A s \in Slots : index'[s] <= found[e]
      BY <1>1 DEF EditInv, StoreEdits, FreshIsLater
    <2>3. put.body.on => put.body.slots # {} /\ put.body.slots \subseteq Indexed
      BY <1>1 DEF EditInv, StoreEdits, PutTypes, PutProgress
    <2>4. EmptyIsOff'
      <3>1. SUFFICES ASSUME Indexed = {} PROVE ~Wants(put.body)
        BY <1>1, <1>3 DEF EmptyIsOff, Indexed, Wants
      <3>2. QED
        BY <2>3, <3>1 DEF Wants
    <2>5. Ends(pref') /\ Stored(pref')
      BY <1>3, <2>1
    <2>6. QED
      BY <1>1, <2>1, <2>2, <2>4, <2>5, EndsEdits
  <1>4. QED
    BY <1>2, <1>3 DEF StorePref

-----------------------------------------------------------------------------
(* What a run knows of the edits *)

LEMMA RunStep ==
    ASSUME NewsInv, EditInv, NewsInv', UNCHANGED <<clock, found, pref, index, put, missed, cut>>,
           NEW k \in Containers, NEW r, run' = [run EXCEPT ![k] = r], RunIsEarlier(r)
    PROVE  EditInv'
  <1>1. StoreEdits'
    BY DEF EditInv, StoreEdits, ClientTypes, Stored, PutTypes, PutProgress, FreshIsLater, Fresh, EmptyIsOff, Indexed, Wants
  <1>2. run'[k] = r /\ \A j \in Containers : j # k => run'[j] = run[j]
    BY RunAt
  <1>3. RunEdits'
    <2>1. SUFFICES ASSUME NEW j \in Containers PROVE RunIsEarlier(run[j])'
      BY DEF RunEdits
    <2>2. RunIsEarlier(run'[j])
      BY <1>2 DEF EditInv, RunEdits
    <2>3. QED
      BY <2>2 DEF RunIsEarlier, Fresh, Pending, Day
  <1>4. QED
    BY <1>1, <1>3 DEF EditInv

LEMMA IdleIsEarlier == ASSUME NewsInv PROVE RunIsEarlier(Idle)
  BY NowIsNat DEF RunIsEarlier, Idle, NoPref

\* A run past its reading that goes on with the same tick and preference.
LEMMA LateTurn ==
    ASSUME NewsInv, EditInv, NEW k \in Containers, NEW r, r.tick = run[k].tick, r.pref = run[k].pref,
           r.pc \notin {"serve", "read"}
    PROVE  RunIsEarlier(r)
  BY DEF EditInv, RunEdits, RunIsEarlier

LEMMA StartRunEdits == ASSUME NewsInv, EditInv, NEW k \in Containers, StartRun(k) PROVE EditInv'
  <1>1. UNCHANGED <<clock, found, pref, index, put, missed, cut>> /\ NewsInv'
    BY StartRunNews DEF StartRun
  <1>2. PICK tick \in {t \in 1..clock : IsTick(t) /\ t + MaxLag >= clock} :
          run' = [run EXCEPT ![k] = [Idle EXCEPT !.pc = "serve", !.tick = tick,
                                                 !.since = index[SlotOf(tick)]]]
    BY DEF StartRun
  <1> DEFINE since == index[SlotOf(tick)]
             r == [Idle EXCEPT !.pc = "serve", !.tick = tick, !.since = since]
  <1>3. tick \in Nat /\ tick <= clock
    BY <1>2, NowIsNat
  <1>4. SlotOf(tick) \in Slots
    <2>1. tick \div SlotLength \in Int
      BY <1>3, NewVideoAssumption, Division
    <2>2. QED
      BY <2>1, NewVideoAssumption, Division DEF SlotOf, Slots
  <1>5. since \in Nat /\ since <= clock
    BY <1>4 DEF EditInv, StoreEdits, ClientTypes
  <1>6. ~cut => \A e \in Ids : Fresh(e) => since <= found[e]
    BY <1>4 DEF EditInv, StoreEdits, FreshIsLater
  <1> HIDE DEF since
  <1>7. r.pc = "serve" /\ r.tick = tick /\ r.since = since /\ r.pref = NoPref
    BY DEF Idle
  <1> HIDE DEF r
  <1>8. RunIsEarlier(r)
    BY <1>3, <1>5, <1>6, <1>7 DEF RunIsEarlier, NoPref
  <1>9. run' = [run EXCEPT ![k] = r]
    BY <1>2 DEF r, since
  <1>10. QED
    BY <1>1, <1>8, <1>9, RunStep

LEMMA EndRunEdits == ASSUME NewsInv, EditInv, NEW k \in Containers, EndRun(k) PROVE EditInv'
  BY EndRunNews, IdleIsEarlier, RunStep DEF EndRun

LEMMA ServeClientEdits == ASSUME NewsInv, EditInv, NEW k \in Containers, ServeClient(k) PROVE EditInv'
  <1>1. UNCHANGED <<clock, found, pref, index, put, missed, cut>> /\ NewsInv' /\ run[k].pc = "serve"
    BY ServeClientNews DEF ServeClient
  <1> DEFINE p == WithLegacyActivation(pref)
             todo == Deliverable(pref, run[k].since, run[k].tick)
             r == [run[k] EXCEPT !.pc = "read", !.pref = p, !.missed = missed, !.todo = todo]
  <1>2. CASE run' = [run EXCEPT ![k] = Idle]
    BY <1>1, <1>2, IdleIsEarlier, RunStep
  <1>3. CASE pref.on /\ SlotOf(run[k].tick) \in pref.slots /\ run' = [run EXCEPT ![k] = r]
    <2>1. pref \in Preferences /\ Stored(pref) /\ pref.slots \subseteq Slots /\ pref.slots # {}
      BY <1>3 DEF NewsInv, StoreTypes, Preferences, EditInv, StoreEdits, ClientTypes
    <2>2. p.creator => p.since # Never
      BY <2>1 DEF WithLegacyActivation, Stored, Preferences
    <2>3. /\ run[k].since \in Nat /\ run[k].tick <= clock
          /\ ~cut => \A e \in Ids : Fresh(e) => run[k].since <= found[e]
      BY <1>1 DEF EditInv, RunEdits, RunIsEarlier
    <2>4. ASSUME ~cut, NEW e \in Pending(run[k].tick) \ missed PROVE e \in todo
      <3>1. e \in Ids /\ run[k].since <= found[e] /\ found[e] \in Nat
        BY <2>3, <2>4, NowIsNat DEF Fresh, Pending
      <3>2. NextWindow(pref.slots, found[e]) \in Nat /\ found[e] < NextWindow(pref.slots, found[e])
        BY <2>1, <3>1, WindowFollows
      <3>3. NextWindow(pref.slots, found[e]) > run[k].since
        BY <2>3, <3>1, <3>2
      <3>4. QED
        BY <2>4, <3>3 DEF Deliverable
    <2> HIDE DEF p, todo
    <2>5. RunSound(run[k])
      BY RunFacts
    <2>6. r.pc = "read" /\ r.pref = p /\ r.missed = missed /\ r.todo = todo /\ r.tick = run[k].tick
      BY <2>5 DEF RunSound
    <2> HIDE DEF r
    <2>7. RunIsEarlier(r)
      BY <2>2, <2>3, <2>4, <2>6 DEF RunIsEarlier
    <2>8. QED
      BY <1>1, <1>3, <2>7, RunStep
  <1>4. QED
    BY <1>2, <1>3, Zenon DEF ServeClient

LEMMA TurnEdits ==
    ASSUME NewsInv, EditInv, NewsInv', UNCHANGED <<clock, found, pref, index, put, missed, cut>>,
           NEW k \in Containers, NEW r, run' = [run EXCEPT ![k] = r], r.tick = run[k].tick, r.pref = run[k].pref,
           r.pc \notin {"serve", "read"}
    PROVE  EditInv'
  BY LateTurn, RunStep

LEMMA ReadHandledEdits == ASSUME NewsInv, EditInv, NEW k \in Containers, ReadHandled(k) PROVE EditInv'
  <1>1. UNCHANGED <<clock, found, pref, index, put, missed, cut>> /\ NewsInv'
    BY ReadHandledNews DEF ReadHandled
  <1>2. PICK todo : run' = [run EXCEPT ![k] = [run[k] EXCEPT !.pc = "next", !.todo = todo]]
    BY DEF ReadHandled
  <1> DEFINE r == [run[k] EXCEPT !.pc = "next", !.todo = todo]
  <1>3. RunSound(run[k])
    BY RunFacts
  <1>4. r.tick = run[k].tick /\ r.pref = run[k].pref /\ r.pc = "next"
    BY <1>3 DEF RunSound
  <1> HIDE DEF r
  <1>5. QED
    BY <1>1, <1>2, <1>4, TurnEdits DEF r

LEMMA DropEdits ==
    ASSUME NewsInv, EditInv, NewsInv', UNCHANGED <<clock, found, pref, index, put, missed, cut>>,
           NEW k \in Containers, NEW e, Drop(k, e)
    PROVE  EditInv'
  <1>1. PICK todo : run' = [run EXCEPT ![k] = [run[k] EXCEPT !.todo = todo, !.pc = "next"]]
    BY Zenon DEF Drop
  <1> DEFINE r == [run[k] EXCEPT !.todo = todo, !.pc = "next"]
  <1>2. RunSound(run[k])
    BY RunFacts
  <1>3. r.tick = run[k].tick /\ r.pref = run[k].pref /\ r.pc = "next"
    BY <1>2 DEF RunSound
  <1> HIDE DEF r
  <1>4. QED
    BY <1>1, <1>3, TurnEdits DEF r

LEMMA DecideEdits == ASSUME NewsInv, EditInv, NEW k \in Containers, NEW e \in Ids, Decide(k, e) PROVE EditInv'
  <1>1. UNCHANGED <<clock, found, pref, index, put, missed, cut>> /\ NewsInv'
    BY DecideNews DEF Decide
  <1>2. CASE Drop(k, e)
    BY <1>1, <1>2, DropEdits
  <1>3. CASE run' = [run EXCEPT ![k] = [run[k] EXCEPT !.pc = "push", !.event = e]]
    <2> DEFINE r == [run[k] EXCEPT !.pc = "push", !.event = e]
    <2>1. RunSound(run[k])
      BY RunFacts
    <2>2. r.tick = run[k].tick /\ r.pref = run[k].pref /\ r.pc = "push"
      BY <2>1 DEF RunSound
    <2> HIDE DEF r
    <2>3. QED
      BY <1>1, <1>3, <2>2, TurnEdits DEF r
  <1>4. QED
    BY <1>2, <1>3, Zenon DEF Decide

LEMMA PushEdits == ASSUME NewsInv, EditInv, NEW k \in Containers, Push(k) PROVE EditInv'
  <1>1. UNCHANGED <<clock, found, pref, index, put, missed, cut>> /\ NewsInv'
    BY PushNews DEF Push
  <1>2. \E pc \in {"confirm", "release"} : run' = [run EXCEPT ![k].pc = pc]
    BY DEF Push
  <1>3. PICK pc \in {"confirm", "release"} : run' = [run EXCEPT ![k] = [run[k] EXCEPT !.pc = pc]]
    BY <1>2, RunFacts
  <1> DEFINE r == [run[k] EXCEPT !.pc = pc]
  <1>4. RunSound(run[k])
    BY RunFacts
  <1>5. r.tick = run[k].tick /\ r.pref = run[k].pref /\ r.pc = pc
    BY <1>4 DEF RunSound
  <1> HIDE DEF r
  <1>6. QED
    BY <1>1, <1>3, <1>5, TurnEdits DEF r

LEMMA SettleEdits == ASSUME NewsInv, EditInv, NEW k \in Containers, Settle(k) PROVE EditInv'
  <1>1. UNCHANGED <<clock, found, pref, index, put, missed, cut>> /\ NewsInv'
    BY SettleNews DEF Settle
  <1>2. CASE Drop(k, run[k].event)
    BY <1>1, <1>2, DropEdits
  <1>3. CASE run' = [run EXCEPT ![k] = Idle]
    BY <1>1, <1>3, IdleIsEarlier, RunStep
  <1>4. QED
    BY <1>2, <1>3 DEF Settle

LEMMA InitEdits == Init => EditInv
  <1> SUFFICES ASSUME Init PROVE EditInv
    OBVIOUS
  <1>1. 0 \in Slots /\ Never = 0 /\ MaxClock \in Nat \ {0}
    BY NewVideoAssumption DEF Never, Slots
  <1>2. put.pc = "none" /\ put.body = NoPref /\ put.missing = {} /\ put.stale = {} /\ put.since = Never /\ Stored(NoPref) /\ ~NoPref.on
    BY <1>1 DEF Init, NoPut, NoPref, Stored
  <1>3. /\ index \in [Slots -> Nat] /\ (\A s \in Slots : index[s] <= 1) /\ Stored(pref)
        /\ Indexed = {} => ~Wants(pref)
    <2>1. CASE pref = NoPref /\ index = [s \in Slots |-> Never]
      BY <1>1, <1>2, <2>1, NoPrefType
    <2>2. CASE /\ pref = [on |-> TRUE, creator |-> TRUE, slots |-> {0}, since |-> Never, at |-> 1]
               /\ index = [s \in Slots |-> IF s = 0 THEN 1 ELSE Never]
      BY <1>1, <2>2 DEF Stored, Indexed
    <2>3. QED
      BY <2>1, <2>2 DEF Init
  <1>4. ClientTypes
    <2>1. clock = 1 /\ cut = FALSE /\ 1 \in 1..MaxClock /\ Stored(put.body)
      BY <1>1, <1>2 DEF Init
    <2>2. QED
      BY <1>3, <2>1 DEF ClientTypes
  <1>5. PutTypes /\ PutProgress /\ EmptyIsOff
    BY <1>1, <1>2, <1>3 DEF Init, PutTypes, PutProgress, EmptyIsOff
  <1>6. FreshIsLater
    BY DEF Init, FreshIsLater, Fresh
  <1>7. RunEdits
    <2>1. RunIsEarlier(Idle)
      BY <1>1 DEF Init, RunIsEarlier, Idle, NoPref
    <2>2. QED
      BY <2>1 DEF Init, RunEdits
  <1>8. QED
    BY <1>4, <1>5, <1>6, <1>7 DEF EditInv, StoreEdits

LEMMA StepEdits == NewsInv /\ EditInv /\ [Next]_vars => EditInv'
  <1> SUFFICES ASSUME NewsInv, EditInv, [Next]_vars PROVE EditInv'
    OBVIOUS
  <1>1. CASE Advance \/ \E e \in Ids : Discover(e)
    BY <1>1, AdvanceEdits, DiscoverEdits
  <1>2. CASE BeginPut \/ ReadIndex \/ AddSlots \/ DeleteSlots \/ StorePref
    BY <1>2, BeginPutEdits, ReadIndexEdits, AddSlotsEdits, DeleteSlotsEdits, StorePrefEdits
  <1>3. ASSUME NEW k \in Containers, StartRun(k) \/ EndRun(k) \/ ServeClient(k) \/ ReadHandled(k)
        PROVE  EditInv'
    BY <1>3, StartRunEdits, EndRunEdits, ServeClientEdits, ReadHandledEdits
  <1>4. ASSUME NEW k \in Containers, (\E e \in Ids : Decide(k, e)) \/ Push(k) \/ Settle(k)
        PROVE  EditInv'
    BY <1>4, DecideEdits, PushEdits, SettleEdits
  <1>5. CASE UNCHANGED vars
    <2>1. UNCHANGED <<clock, found, pref, index, put, run, missed, cut>>
      BY <1>5 DEF vars
    <2>2. StoreEdits'
      BY <2>1 DEF EditInv, StoreEdits, ClientTypes, Stored, PutTypes, PutProgress, FreshIsLater, Fresh, EmptyIsOff, Indexed, Wants
    <2>3. RunEdits'
      BY <2>1 DEF EditInv, RunEdits, RunIsEarlier, Fresh, Pending, Day
    <2>4. QED
      BY <2>2, <2>3 DEF EditInv
  <1>6. QED
    BY <1>1, <1>2, <1>3, <1>4, <1>5, Zenon DEF Next

-----------------------------------------------------------------------------
(* Pushes whose outcome was lost, and the faults that lost them *)

Told(e) == unsure[e] <= pushes[e] /\ (Confirming(e) => unsure[e] < pushes[e])

Accounts ==
    /\ faults \in 0..MaxFaults
    /\ \A e \in Ids : unsure[e] <= faults /\ Told(e)

FaultStep == faults' = faults \/ Fails

LEMMA FaultsGrow ==
    ASSUME Accounts, FaultStep
    PROVE  faults \in Nat /\ faults' \in 0..MaxFaults /\ faults <= faults'
  BY NewVideoAssumption DEF Accounts, FaultStep, Fails

\* A step that pushes and settles nothing.
LEMMA QuietAccounts ==
    ASSUME OwnerInv, Accounts, FaultStep, UNCHANGED <<pushes, unsure>>,
           \A j \in Containers : run'[j].pc = "confirm" => run'[j] = run[j]
    PROVE  Accounts'
  <1>1. faults \in Nat /\ faults' \in 0..MaxFaults /\ faults <= faults'
    BY FaultsGrow
  <1>2. SUFFICES ASSUME NEW e \in Ids PROVE unsure[e] <= faults' /\ Told(e)'
    BY <1>1 DEF Accounts
  <1>3. unsure[e] \in Nat /\ unsure[e] <= faults /\ Told(e)
    BY DEF OwnerInv, LogTypes, Accounts
  <1>4. Confirming(e)' => Confirming(e)
    BY DEF Confirming
  <1>5. QED
    BY <1>1, <1>3, <1>4 DEF Told

\* A turn of a run after which it confirms nothing.
LEMMA QuietTurnAccounts ==
    ASSUME NewsInv, OwnerInv, Accounts, FaultStep, UNCHANGED <<pushes, unsure>>,
           NEW k \in Containers, NEW r, run' = [run EXCEPT ![k] = r], r.pc # "confirm"
    PROVE  Accounts'
  <1>1. \A j \in Containers : run'[j].pc = "confirm" => run'[j] = run[j]
    BY RunAt
  <1>2. QED
    BY <1>1, QuietAccounts

LEMMA DropAccounts ==
    ASSUME NewsInv, OwnerInv, Accounts, FaultStep, UNCHANGED <<pushes, unsure>>, NEW k \in Containers, NEW e, Drop(k, e)
    PROVE  Accounts'
  <1>1. PICK todo : run' = [run EXCEPT ![k] = [run[k] EXCEPT !.todo = todo, !.pc = "next"]]
    BY Zenon DEF Drop
  <1> DEFINE r == [run[k] EXCEPT !.todo = todo, !.pc = "next"]
  <1>2. RunSound(run[k])
    BY RunFacts
  <1>3. r.pc = "next"
    BY <1>2 DEF RunSound
  <1> HIDE DEF r
  <1>4. QED
    BY <1>1, <1>3, QuietTurnAccounts DEF r

LEMMA StartRunAccounts == ASSUME NewsInv, OwnerInv, Accounts, NEW k \in Containers, StartRun(k) PROVE Accounts'
  <1>1. FaultStep /\ UNCHANGED <<pushes, unsure>>
    BY DEF StartRun, FaultStep
  <1>2. PICK tick, since : run' = [run EXCEPT ![k] = [Idle EXCEPT !.pc = "serve", !.tick = tick, !.since = since]]
    BY DEF StartRun
  <1> DEFINE r == [Idle EXCEPT !.pc = "serve", !.tick = tick, !.since = since]
  <1>3. r.pc = "serve"
    BY DEF Idle
  <1> HIDE DEF r
  <1>4. QED
    BY <1>1, <1>2, <1>3, QuietTurnAccounts DEF r

LEMMA EndsAccounts ==
    ASSUME NewsInv, OwnerInv, Accounts, FaultStep, UNCHANGED <<pushes, unsure>>, NEW k \in Containers,
           run' = [run EXCEPT ![k] = Idle]
    PROVE  Accounts'
  <1>1. Idle.pc = "idle"
    BY DEF Idle
  <1>2. QED
    BY <1>1, QuietTurnAccounts

LEMMA ServeClientAccounts == ASSUME NewsInv, OwnerInv, Accounts, NEW k \in Containers, ServeClient(k) PROVE Accounts'
  <1>1. FaultStep /\ UNCHANGED <<pushes, unsure>>
    BY DEF ServeClient, FaultStep
  <1>2. CASE run' = [run EXCEPT ![k] = Idle]
    BY <1>1, <1>2, EndsAccounts
  <1>3. CASE \E p, m, t : run' = [run EXCEPT ![k] = [run[k] EXCEPT !.pc = "read", !.pref = p, !.missed = m, !.todo = t]]
    <2>1. PICK p, m, t : run' = [run EXCEPT ![k] = [run[k] EXCEPT !.pc = "read", !.pref = p, !.missed = m, !.todo = t]]
      BY <1>3
    <2> DEFINE r == [run[k] EXCEPT !.pc = "read", !.pref = p, !.missed = m, !.todo = t]
    <2>2. RunSound(run[k])
      BY RunFacts
    <2>3. r.pc = "read"
      BY <2>2 DEF RunSound
    <2> HIDE DEF r
    <2>4. QED
      BY <1>1, <2>1, <2>3, QuietTurnAccounts DEF r
  <1>4. QED
    BY <1>2, <1>3, Zenon DEF ServeClient

LEMMA ReadHandledAccounts == ASSUME NewsInv, OwnerInv, Accounts, NEW k \in Containers, ReadHandled(k) PROVE Accounts'
  <1>1. FaultStep /\ UNCHANGED <<pushes, unsure>>
    BY DEF ReadHandled, FaultStep
  <1>2. PICK todo : run' = [run EXCEPT ![k] = [run[k] EXCEPT !.pc = "next", !.todo = todo]]
    BY DEF ReadHandled
  <1> DEFINE r == [run[k] EXCEPT !.pc = "next", !.todo = todo]
  <1>3. RunSound(run[k])
    BY RunFacts
  <1>4. r.pc = "next"
    BY <1>3 DEF RunSound
  <1> HIDE DEF r
  <1>5. QED
    BY <1>1, <1>2, <1>4, QuietTurnAccounts DEF r

LEMMA DecideAccounts ==
    ASSUME NewsInv, OwnerInv, Accounts, NEW k \in Containers, NEW e \in Ids, Decide(k, e)
    PROVE  Accounts'
  <1>1. FaultStep /\ UNCHANGED <<pushes, unsure>>
    BY DEF Decide, FaultStep
  <1>2. CASE Drop(k, e)
    BY <1>1, <1>2, DropAccounts
  <1>3. CASE run' = [run EXCEPT ![k] = [run[k] EXCEPT !.pc = "push", !.event = e]]
    <2> DEFINE r == [run[k] EXCEPT !.pc = "push", !.event = e]
    <2>1. RunSound(run[k])
      BY RunFacts
    <2>2. r.pc = "push"
      BY <2>1 DEF RunSound
    <2> HIDE DEF r
    <2>3. QED
      BY <1>1, <1>3, <2>2, QuietTurnAccounts DEF r
  <1>4. QED
    BY <1>2, <1>3, Zenon DEF Decide

LEMMA PushAccounts ==
    ASSUME NewsInv, OwnerInv, Accounts, NEW k \in Containers, NEW e, e = run[k].event, Push(k)
    PROVE  Accounts'
  <1>1. /\ e \in Ids /\ (\A j \in Containers : j # k => ~Sends(j, e))
        /\ pushes \in [Ids -> Nat] /\ unsure \in [Ids -> Nat]
    BY SenderFacts DEF Push, Sending
  <1>2. CASE pushes' = [pushes EXCEPT ![e] = @ + 1] /\ run' = [run EXCEPT ![k].pc = "confirm"] /\ UNCHANGED <<unsure, faults>>
    <2> DEFINE r == [run[k] EXCEPT !.pc = "confirm"]
    <2>1. RunSound(run[k]) /\ run' = [run EXCEPT ![k] = r]
      BY <1>2, RunFacts
    <2>2. r.event = e
      BY <2>1 DEF RunSound
    <2> HIDE DEF r
    <2>3. run'[k].event = e /\ \A j \in Containers : j # k => run'[j] = run[j]
      BY <2>1, <2>2, RunAt
    <2>4. SUFFICES ASSUME NEW d \in Ids PROVE unsure'[d] <= faults' /\ Told(d)'
      BY <1>2 DEF Accounts
    <2>5. unsure[d] \in Nat /\ pushes[d] \in Nat /\ unsure[d] <= faults /\ Told(d) /\ unsure' = unsure
      BY <1>1, <1>2 DEF Accounts
    <2>6. CASE d = e
      BY <1>1, <1>2, <2>5, <2>6 DEF Told
    <2>7. CASE d # e
      <3>1. Confirming(d)' => Confirming(d)
        BY <2>3, <2>7 DEF Confirming
      <3>2. QED
        BY <1>1, <1>2, <2>5, <2>7, <3>1 DEF Told
    <2>8. QED
      BY <2>6, <2>7
  <1>3. CASE Fails /\ run' = [run EXCEPT ![k].pc = "release"] /\ UNCHANGED <<pushes, unsure>>
    <2> DEFINE r == [run[k] EXCEPT !.pc = "release"]
    <2>1. RunSound(run[k]) /\ run' = [run EXCEPT ![k] = r]
      BY <1>3, RunFacts
    <2>2. r.pc = "release"
      BY <2>1 DEF RunSound
    <2>3. FaultStep
      BY <1>3 DEF FaultStep
    <2> HIDE DEF r
    <2>4. QED
      BY <1>3, <2>1, <2>2, <2>3, QuietTurnAccounts
  <1>4. CASE /\ Fails /\ run' = [run EXCEPT ![k].pc = "release"]
             /\ pushes' = [pushes EXCEPT ![e] = @ + 1] /\ unsure' = [unsure EXCEPT ![e] = @ + 1]
    <2>1. faults \in Nat /\ faults' \in 0..MaxFaults /\ faults' = faults + 1
      BY <1>4, FaultsGrow DEF Fails, FaultStep
    <2> DEFINE r == [run[k] EXCEPT !.pc = "release"]
    <2>2. RunSound(run[k]) /\ run' = [run EXCEPT ![k] = r]
      BY <1>4, RunFacts
    <2>3. r.pc = "release"
      BY <2>2 DEF RunSound
    <2> HIDE DEF r
    <2>4. run'[k].pc = "release" /\ \A j \in Containers : j # k => run'[j] = run[j]
      BY <2>2, <2>3, RunAt
    <2>5. SUFFICES ASSUME NEW d \in Ids PROVE unsure'[d] <= faults' /\ Told(d)'
      BY <2>1 DEF Accounts
    <2>6. unsure[d] \in Nat /\ pushes[d] \in Nat /\ unsure[d] <= faults /\ Told(d)
      BY <1>1 DEF Accounts
    <2>7. Confirming(d)' => Confirming(d) /\ d # e
      BY <1>1, <2>4 DEF Confirming, Sends
    <2>8. CASE d = e
      BY <1>1, <1>4, <2>1, <2>6, <2>7, <2>8 DEF Told
    <2>9. CASE d # e
      BY <1>1, <1>4, <2>1, <2>6, <2>7, <2>9 DEF Told
    <2>10. QED
      BY <2>8, <2>9
  <1>5. QED
    BY <1>2, <1>3, <1>4, Zenon DEF Push

LEMMA SettleAccounts ==
    ASSUME NewsInv, OwnerInv, Accounts, NEW k \in Containers, NEW e, e = run[k].event, Settle(k)
    PROVE  Accounts'
  <1>1. /\ e \in Ids /\ Sends(k, e) /\ (\A j \in Containers : j # k => ~Sends(j, e))
        /\ pushes \in [Ids -> Nat] /\ unsure \in [Ids -> Nat]
    BY SenderFacts DEF Settle, Sending
  <1>2. CASE Drop(k, e) /\ UNCHANGED <<unsure, faults>>
    <2>1. FaultStep /\ UNCHANGED <<pushes, unsure>>
      BY <1>2 DEF FaultStep, Settle
    <2>2. QED
      BY <1>2, <2>1, DropAccounts
  <1>3. CASE /\ Fails /\ run' = [run EXCEPT ![k] = Idle]
             /\ unsure' = IF run[k].pc = "confirm" THEN [unsure EXCEPT ![e] = @ + 1] ELSE unsure
    <2>1. FaultStep /\ pushes' = pushes
      BY <1>3 DEF FaultStep, Settle
    <2>2. CASE run[k].pc # "confirm"
      BY <1>3, <2>1, <2>2, EndsAccounts
    <2>3. CASE run[k].pc = "confirm"
      <3>1. faults \in Nat /\ faults' \in 0..MaxFaults /\ faults' = faults + 1
        BY <1>3, <2>1, FaultsGrow DEF Fails
      <3>2. run'[k].pc = "idle" /\ \A j \in Containers : j # k => run'[j] = run[j]
        <4>1. Idle.pc = "idle"
          BY DEF Idle
        <4>2. QED
          BY <1>3, <4>1, RunAt
      <3>3. SUFFICES ASSUME NEW d \in Ids PROVE unsure'[d] <= faults' /\ Told(d)'
        BY <3>1 DEF Accounts
      <3>4. unsure[d] \in Nat /\ pushes[d] \in Nat /\ unsure[d] <= faults /\ Told(d)
        BY <1>1 DEF Accounts
      <3>5. Confirming(d)' => Confirming(d) /\ d # e
        BY <1>1, <3>2 DEF Confirming, Sends
      <3>6. CASE d = e
        <4>1. Confirming(d)
          BY <2>3, <3>6 DEF Confirming
        <4>2. unsure'[d] = unsure[d] + 1
          BY <1>1, <1>3, <2>3, <3>6
        <4>3. QED
          BY <2>1, <3>1, <3>4, <3>5, <3>6, <4>1, <4>2 DEF Told
      <3>7. CASE d # e
        BY <1>1, <1>3, <2>1, <2>3, <3>1, <3>4, <3>5, <3>7 DEF Told
      <3>8. QED
        BY <3>6, <3>7
    <2>4. QED
      BY <2>2, <2>3
  <1>4. QED
    BY <1>2, <1>3, Zenon DEF Settle

LEMMA InitAccounts == Init => Accounts
  <1> SUFFICES ASSUME Init PROVE Accounts
    OBVIOUS
  <1>1. \A k \in Containers : run[k].pc = "idle"
    BY DEF Init, Idle
  <1>2. \A e \in Ids : ~Confirming(e)
    BY <1>1 DEF Confirming
  <1>3. QED
    BY <1>2, NewVideoAssumption DEF Init, Accounts, Told

LEMMA StepAccounts == NewsInv /\ OwnerInv /\ Accounts /\ [Next]_vars => Accounts'
  <1> SUFFICES ASSUME NewsInv, OwnerInv, Accounts, [Next]_vars PROVE Accounts'
    OBVIOUS
  <1>1. CASE \/ Advance \/ (\E e \in Ids : Discover(e)) \/ BeginPut \/ ReadIndex \/ AddSlots \/ DeleteSlots
             \/ StorePref \/ UNCHANGED vars
    <2>1. FaultStep
      BY <1>1 DEF Advance, Discover, BeginPut, ReadIndex, AddSlots, DeleteSlots, StorePref, vars, FaultStep
    <2>2. UNCHANGED <<run, pushes, unsure>>
      BY <1>1 DEF Advance, Discover, BeginPut, ReadIndex, AddSlots, DeleteSlots, StorePref, vars
    <2>3. QED
      BY <2>1, <2>2, QuietAccounts
  <1>2. ASSUME NEW k \in Containers, EndRun(k) PROVE Accounts'
    <2>1. FaultStep /\ UNCHANGED <<pushes, unsure>> /\ run' = [run EXCEPT ![k] = Idle]
      BY <1>2 DEF EndRun, FaultStep
    <2>2. QED
      BY <2>1, EndsAccounts
  <1>3. ASSUME NEW k \in Containers, StartRun(k) \/ ServeClient(k) \/ ReadHandled(k)
        PROVE  Accounts'
    BY <1>3, StartRunAccounts, ServeClientAccounts, ReadHandledAccounts
  <1>4. ASSUME NEW k \in Containers, (\E e \in Ids : Decide(k, e)) \/ Push(k) \/ Settle(k)
        PROVE  Accounts'
    BY <1>4, DecideAccounts, PushAccounts, SettleAccounts
  <1>5. QED
    BY <1>1, <1>2, <1>3, <1>4, Zenon DEF Next

-----------------------------------------------------------------------------
LEMMA EditInvariant == Spec => []EditInv
  BY InitEdits, StepEdits, NewsInvariant, PTL DEF Spec

LEMMA AccountInvariant == ASSUME MaxLag <= ClaimExpiry PROVE Spec => []Accounts
  BY InitAccounts, StepAccounts, NewsInvariant, OwnerInvariant, PTL DEF Spec

LEMMA NothingLost == EditInv => SyncKeepsSlots /\ NothingLostByEdits
  <1> SUFFICES ASSUME EditInv PROVE SyncKeepsSlots /\ NothingLostByEdits
    OBVIOUS
  <1>1. SyncKeepsSlots
    BY DEF EditInv, StoreEdits, PutProgress, SyncKeepsSlots
  <1>2. NothingLostByEdits
    BY DEF EditInv, RunEdits, RunIsEarlier, NothingLostByEdits
  <1>3. QED
    BY <1>1, <1>2

LEMMA TypesHold == NewsInv /\ OwnerInv /\ EditInv /\ Accounts => TypeOK
  <1> SUFFICES ASSUME NewsInv, OwnerInv, EditInv, Accounts PROVE TypeOK
    OBVIOUS
  <1>1. clock \in 1..MaxClock /\ MaxClock \in Nat /\ log \in [Keys -> Entries]
    BY NewVideoAssumption DEF EditInv, StoreEdits, ClientTypes, OwnerInv, LogTypes
  <1>2. found \in [Ids -> 0..MaxClock]
    BY <1>1 DEF NewsInv, StoreTypes
  <1>3. pref.slots \subseteq Slots /\ pref.since <= pref.at
    BY DEF NewsInv, StoreTypes, Preferences, EditInv, StoreEdits, ClientTypes, Stored
  <1>4. index \in [Slots -> 0..MaxClock]
    BY <1>1 DEF EditInv, StoreEdits, ClientTypes
  <1>5. \A k \in Containers : run[k].todo \subseteq Ids /\ memory[k] \subseteq Ids
    BY DEF NewsInv, RunTypes, RunSound, OwnerInv, LogTypes
  <1>6. \A k \in Containers : run[k].pref.creator => run[k].pref.since # Never
    BY DEF EditInv, RunEdits, RunIsEarlier
  <1>7. missed \subseteq Ids
    BY DEF NewsInv, StoreTypes
  <1>8. unsure \in [Ids -> 0..MaxFaults] /\ \A e \in Ids : unsure[e] <= pushes[e]
    <2>1. unsure \in [Ids -> Nat] /\ MaxFaults \in Nat
      BY NewVideoAssumption DEF OwnerInv, LogTypes
    <2>2. \A e \in Ids : unsure[e] <= MaxFaults /\ unsure[e] <= pushes[e]
      BY <2>1 DEF Accounts, Told
    <2>3. QED
      BY <2>1, <2>2
  <1>9. QED
    BY <1>1, <1>2, <1>3, <1>4, <1>5, <1>6, <1>7, <1>8 DEF TypeOK

\* A PUT that fails part-way costs the client no slot, and no edit of the slots
\* skips a video that was discovered while the switches were on and is still recent
\* (sync_client_slots, activeSince in the index).
THEOREM NoEditLosesVideos == Spec => [](SyncKeepsSlots /\ NothingLostByEdits)
  <1>1. QED
    BY NothingLost, EditInvariant, PTL

\* Every value stays in its range; the unknown outcomes of an event are bounded by
\* the failures and by its pushes.
THEOREM NewsTypesHold == ASSUME MaxLag <= ClaimExpiry PROVE Spec => []TypeOK
  <1>1. QED
    BY TypesHold, NewsInvariant, OwnerInvariant, EditInvariant, AccountInvariant, PTL

-----------------------------------------------------------------------------
(* The settings and their lookup *)

\* What a query of one key would find now.
Readable(key) == IF Setting!Valid(items[key]) THEN items[key] ELSE Setting!Absent

Matches(v) ==
    LET setting == Setting!Resolve(v, lookup.found)
    IN  Setting!Valid(setting) /\ Setting!SettingDue(setting, v, lookup.moment)

LookupShape ==
    lookup = [pc |-> lookup.pc, moment |-> lookup.moment, streams |-> lookup.streams, left |-> lookup.left,
              found |-> lookup.found, changed |-> lookup.changed, candidates |-> lookup.candidates]

\* What was read and has not changed since is what is stored.
LookupFits ==
    /\ LookupShape
    /\ lookup.streams = Setting!DueStreams(lookup.moment)
    /\ lookup.found \in [Setting!ReminderKeys -> Settings \cup {Setting!Absent}]
    /\ \A v \in lookup.streams : \A key \in Setting!QueriedKeys(v) \ (lookup.left \cup lookup.changed) :
          lookup.found[key] = Readable(key)
    /\ lookup.pc = "found" => lookup.left = {} /\ lookup.candidates = {v \in lookup.streams : Matches(v)}

LookupInv == lookup.pc \in {"idle", "query", "found"} /\ (lookup.pc # "idle" => LookupFits)

SettingsInv == Setting!TypeOK /\ Setting!SecretsStand /\ LookupInv

LEMMA KeysQueried == ASSUME NEW v \in Streams PROVE Setting!QueriedKeys(v) \subseteq Setting!ReminderKeys
  <1>1. SUFFICES ASSUME NEW key \in Setting!QueriedKeys(v) PROVE key \in Setting!ReminderKeys
    OBVIOUS
  <1>2. CASE key \in {Setting!AllKey, Setting!OverrideKey(v)}
    BY <1>2 DEF Setting!ReminderKeys
  <1>3. CASE Topic[v] # NoTopic /\ key = Setting!TopicKey(Topic[v])
    BY <1>3 DEF Setting!ReminderKeys
  <1>4. QED
    BY <1>1, <1>2, <1>3 DEF Setting!QueriedKeys

LEMMA AbsentIsNone == ~Setting!Valid(Setting!Absent)
  <1>1. SUFFICES ASSUME Setting!Absent \in Settings PROVE FALSE
    BY DEF Setting!Valid
  <1>2. Setting!Absent \in [notifyAtStart : BOOLEAN, advance : {0} \cup Offsets]
    BY <1>1, NotificationsAssumption DEF Setting!SettingsAssumption
  <1>3. Setting!Absent = [stored |-> "absent"]
    BY DEF Setting!Absent
  <1>4. DOMAIN Setting!Absent = {"stored"} /\ DOMAIN Setting!Absent = {"notifyAtStart", "advance"}
    BY <1>2, <1>3
  <1>5. "advance" \in DOMAIN Setting!Absent /\ "advance" # "stored"
    BY <1>4
  <1>6. QED
    BY <1>4, <1>5

LEMMA RegisterKeeps == ASSUME SettingsInv, NEW d \in Devices, Setting!Register(d) PROVE SettingsInv'
  <1>1. UNCHANGED <<items, lookup, settingEdits>> /\ known[d] = 0
    BY DEF Setting!Register, Setting!NoSecret
  <1>2. credential \in Nat /\ known \in [Devices -> Nat] /\ settingFaults \in 0..MaxSettingFaults
    BY DEF SettingsInv, Setting!TypeOK
  <1>3. credential' = IF credential = 0 THEN credential + 1 ELSE credential
    BY DEF Setting!Register, Setting!CreateSecret, Setting!NoSecret
  <1>4. credential' \in Nat /\ credential' # 0 /\ (credential # 0 => credential' = credential)
    BY <1>2, <1>3
  <1>5. \/ known' = known
        \/ credential' # credential /\ known' = [known EXCEPT ![d] = credential']
    BY DEF Setting!Register
  <1>6. settingFaults' \in 0..MaxSettingFaults
    BY <1>2, NotificationsAssumption DEF Setting!Register, Setting!SettingsAssumption
  <1>7. known' \in [Devices -> Nat]
    BY <1>2, <1>4, <1>5
  <1>8. Setting!TypeOK'
    BY <1>1, <1>4, <1>6, <1>7 DEF SettingsInv, Setting!TypeOK
  <1>9. Setting!SecretsStand'
    <2>1. SUFFICES ASSUME NEW c \in Devices, known'[c] # 0 PROVE known'[c] = credential'
      BY DEF Setting!SecretsStand, Setting!Authorized, Setting!NoSecret
    <2>2. known[c] # 0 => known[c] = credential
      BY DEF SettingsInv, Setting!SecretsStand, Setting!Authorized, Setting!NoSecret
    <2>3. QED
      BY <1>2, <1>4, <1>5, <2>1, <2>2
  <1>10. LookupInv'
    BY <1>1 DEF SettingsInv, LookupInv, LookupFits, LookupShape, Readable, Matches
  <1>11. QED
    BY <1>8, <1>9, <1>10 DEF SettingsInv

LEMMA SecretsUntouched == ASSUME SettingsInv, UNCHANGED <<credential, known>> PROVE Setting!SecretsStand'
  BY DEF SettingsInv, Setting!SecretsStand, Setting!Authorized

LEMMA WriteKeeps ==
    ASSUME SettingsInv, NEW key \in Setting!ReminderKeys,
           NEW value \in Settings \cup {Setting!Absent, Setting!Invalid}, Setting!Write(key, value)
    PROVE  SettingsInv'
  <1>1. /\ UNCHANGED <<credential, known, settingFaults>>
        /\ settingEdits < MaxSettingEdits /\ settingEdits' = settingEdits + 1
        /\ items' = [items EXCEPT ![key] = value]
        /\ lookup' = IF lookup.pc # "idle" THEN [lookup EXCEPT !.changed = @ \cup {key}] ELSE lookup
    BY DEF Setting!Write
  <1>2. items \in [Setting!ReminderKeys -> Settings \cup {Setting!Absent, Setting!Invalid}]
    BY DEF SettingsInv, Setting!TypeOK
  <1>3. items' \in [Setting!ReminderKeys -> Settings \cup {Setting!Absent, Setting!Invalid}]
    BY <1>1, <1>2
  <1>4. settingEdits' \in 0..MaxSettingEdits
    BY <1>1, NotificationsAssumption DEF SettingsInv, Setting!TypeOK, Setting!SettingsAssumption
  <1>5. Setting!TypeOK'
    BY <1>1, <1>3, <1>4 DEF SettingsInv, Setting!TypeOK
  <1>6. LookupInv'
    <2>1. CASE lookup.pc = "idle"
      BY <1>1, <2>1 DEF SettingsInv, LookupInv
    <2>2. CASE lookup.pc # "idle"
      <3>1. LookupFits /\ lookup.pc \in {"query", "found"}
        BY <2>2 DEF SettingsInv, LookupInv
      <3>2. lookup' = [pc |-> lookup.pc, moment |-> lookup.moment, streams |-> lookup.streams, left |-> lookup.left,
              found |-> lookup.found, changed |-> lookup.changed \cup {key}, candidates |-> lookup.candidates]
        BY <1>1, <2>2, <3>1 DEF LookupFits, LookupShape
      <3>3. /\ lookup'.pc = lookup.pc /\ lookup'.moment = lookup.moment /\ lookup'.streams = lookup.streams
            /\ lookup'.left = lookup.left /\ lookup'.found = lookup.found
            /\ lookup'.changed = lookup.changed \cup {key} /\ lookup'.candidates = lookup.candidates
        BY <3>2
      <3>4. LookupShape'
        BY <3>2, <3>3 DEF LookupShape
      <3>5. ASSUME NEW v \in lookup.streams, NEW other \in Setting!QueriedKeys(v) \ (lookup.left \cup lookup.changed \cup {key})
            PROVE  lookup.found[other] = Readable(other)'
        <4>1. other \in Setting!ReminderKeys
          BY <3>1, <3>5, KeysQueried DEF LookupFits, Setting!DueStreams
        <4>2. items'[other] = items[other]
          BY <1>1, <1>2, <3>5, <4>1
        <4>3. lookup.found[other] = Readable(other)
          BY <3>1, <3>5 DEF LookupFits
        <4>4. QED
          BY <4>2, <4>3 DEF Readable
      <3>6. lookup.pc = "found" => lookup.left = {} /\ lookup'.candidates = {v \in lookup'.streams : Matches(v)'}
        BY <3>1, <3>3 DEF LookupFits, Matches
      <3>7. LookupFits'
        BY <3>1, <3>3, <3>4, <3>5, <3>6 DEF LookupFits
      <3>8. QED
        BY <3>1, <3>3, <3>7 DEF LookupInv
    <2>3. QED
      BY <2>1, <2>2
  <1>7. QED
    BY <1>1, <1>5, <1>6, SecretsUntouched DEF SettingsInv

LEMMA LookupOnly ==
    ASSUME SettingsInv, UNCHANGED <<credential, known, items, settingEdits, settingFaults>>, LookupInv'
    PROVE  SettingsInv'
  BY SecretsUntouched DEF SettingsInv, Setting!TypeOK

LEMMA StartLookupKeeps == ASSUME SettingsInv, NEW moment, Setting!StartLookup(moment) PROVE SettingsInv'
  <1>1. UNCHANGED <<credential, known, items, settingEdits, settingFaults>>
    BY DEF Setting!StartLookup
  <1> DEFINE streams == Setting!DueStreams(moment)
             left == UNION {Setting!QueriedKeys(v) : v \in streams}
             read == [key \in Setting!ReminderKeys |-> Setting!Absent]
  <1>2. lookup' = [pc |-> "query", moment |-> moment, streams |-> streams, left |-> left, found |-> read,
                   changed |-> {}, candidates |-> {}]
    BY DEF Setting!StartLookup
  <1>3. read \in [Setting!ReminderKeys -> Settings \cup {Setting!Absent}]
    OBVIOUS
  <1>4. \A v \in streams : Setting!QueriedKeys(v) \subseteq left
    OBVIOUS
  <1>5. streams = Setting!DueStreams(moment)
    OBVIOUS
  <1> HIDE DEF streams, left, read
  <1>6. /\ lookup'.pc = "query" /\ lookup'.moment = moment /\ lookup'.streams = streams /\ lookup'.left = left
        /\ lookup'.found = read /\ lookup'.changed = {} /\ lookup'.candidates = {}
    BY <1>2
  <1>7. LookupShape'
    BY <1>2, <1>6 DEF LookupShape
  <1>8. LookupFits'
    BY <1>3, <1>4, <1>5, <1>6, <1>7 DEF LookupFits
  <1>9. QED
    BY <1>1, <1>6, <1>8, LookupOnly DEF LookupInv

LEMMA QueryKeeps == ASSUME SettingsInv, NEW key \in Setting!ReminderKeys, Setting!Query(key) PROVE SettingsInv'
  <1>1. /\ UNCHANGED <<credential, known, items, settingEdits, settingFaults>> /\ lookup.pc = "query"
        /\ lookup' = [lookup EXCEPT !.left = @ \ {key},
                                    !.found[key] = IF Setting!Valid(items[key]) THEN items[key] ELSE Setting!Absent]
    BY DEF Setting!Query
  <1>2. LookupFits /\ LookupShape /\ lookup.pc = "query"
    BY <1>1 DEF SettingsInv, LookupInv, LookupFits
  <1> DEFINE read == [lookup.found EXCEPT ![key] = Readable(key)]
  <1>3. lookup' = [pc |-> lookup.pc, moment |-> lookup.moment, streams |-> lookup.streams, left |-> lookup.left \ {key},
              found |-> read, changed |-> lookup.changed, candidates |-> lookup.candidates]
    BY <1>1, <1>2 DEF LookupShape, Readable
  <1>4. lookup.found \in [Setting!ReminderKeys -> Settings \cup {Setting!Absent}]
    BY <1>2 DEF LookupFits
  <1>5. Readable(key) \in Settings \cup {Setting!Absent}
    BY DEF Readable, Setting!Valid
  <1>6. /\ read \in [Setting!ReminderKeys -> Settings \cup {Setting!Absent}] /\ read[key] = Readable(key)
        /\ \A other \in Setting!ReminderKeys : other # key => read[other] = lookup.found[other]
    BY <1>4, <1>5
  <1> HIDE DEF read
  <1>7. /\ lookup'.pc = "query" /\ lookup'.moment = lookup.moment /\ lookup'.streams = lookup.streams
        /\ lookup'.left = lookup.left \ {key} /\ lookup'.found = read /\ lookup'.changed = lookup.changed
    BY <1>2, <1>3
  <1>8. LookupShape'
    BY <1>3, <1>7 DEF LookupShape
  <1>9. ASSUME NEW v \in lookup.streams, NEW other \in Setting!QueriedKeys(v) \ ((lookup.left \ {key}) \cup lookup.changed)
        PROVE  read[other] = Readable(other)
    <2>1. other \in Setting!ReminderKeys
      BY <1>2, <1>9, KeysQueried DEF LookupFits, Setting!DueStreams
    <2>2. CASE other = key
      BY <1>6, <2>2
    <2>3. CASE other # key
      BY <1>2, <1>6, <1>9, <2>1, <2>3 DEF LookupFits
    <2>4. QED
      BY <2>2, <2>3
  <1>10. \A other : Readable(other)' = Readable(other)
    BY <1>1 DEF Readable
  <1>11. LookupFits'
    BY <1>2, <1>6, <1>7, <1>8, <1>9, <1>10 DEF LookupFits
  <1>12. QED
    BY <1>1, <1>7, <1>11, LookupOnly DEF LookupInv

LEMMA FindCandidatesKeeps == ASSUME SettingsInv, Setting!FindCandidates PROVE SettingsInv'
  <1>1. /\ UNCHANGED <<credential, known, items, settingEdits, settingFaults>> /\ lookup.pc = "query" /\ lookup.left = {}
        /\ lookup' = [lookup EXCEPT !.pc = "found", !.candidates = {v \in lookup.streams : Matches(v)}]
    BY DEF Setting!FindCandidates, Matches
  <1>2. LookupFits /\ LookupShape
    BY <1>1 DEF SettingsInv, LookupInv, LookupFits
  <1> DEFINE candidates == {v \in lookup.streams : Matches(v)}
  <1>3. candidates = {v \in lookup.streams : Matches(v)}
    OBVIOUS
  <1> HIDE DEF candidates
  <1>4. lookup' = [pc |-> "found", moment |-> lookup.moment, streams |-> lookup.streams, left |-> lookup.left,
              found |-> lookup.found, changed |-> lookup.changed, candidates |-> candidates]
    BY <1>1, <1>2, <1>3 DEF LookupShape
  <1>5. /\ lookup'.pc = "found" /\ lookup'.moment = lookup.moment /\ lookup'.streams = lookup.streams
        /\ lookup'.left = lookup.left /\ lookup'.found = lookup.found /\ lookup'.changed = lookup.changed
        /\ lookup'.candidates = candidates
    BY <1>4
  <1>6. LookupShape'
    BY <1>4, <1>5 DEF LookupShape
  <1>7. \A v : Matches(v)' = Matches(v) /\ \A key : Readable(key)' = Readable(key)
    BY <1>1, <1>5 DEF Matches, Readable
  <1>8. LookupFits'
    BY <1>1, <1>2, <1>3, <1>5, <1>6, <1>7 DEF LookupFits
  <1>9. QED
    BY <1>1, <1>5, <1>8, LookupOnly DEF LookupInv

LEMMA StepSettings == SettingsInv /\ [Setting!Next]_settingVars => SettingsInv'
  <1> SUFFICES ASSUME SettingsInv, [Setting!Next]_settingVars PROVE SettingsInv'
    OBVIOUS
  <1>1. ASSUME NEW d \in Devices, Setting!Register(d) PROVE SettingsInv'
    BY <1>1, RegisterKeeps
  <1>2. ASSUME NEW key \in Setting!ReminderKeys, NEW value \in Settings \cup {Setting!Absent, Setting!Invalid},
               Setting!Write(key, value)
        PROVE  SettingsInv'
    BY <1>2, WriteKeeps
  <1>3. ASSUME NEW d \in Devices, NEW key \in Setting!ReminderKeys,
               Setting!DeleteSetting(d, key) \/ (\E setting \in Settings : Setting!PutSetting(d, key, setting))
        PROVE  SettingsInv'
    BY <1>2, <1>3 DEF Setting!DeleteSetting, Setting!PutSetting
  <1>4. ASSUME NEW key \in Setting!ReminderKeys, Setting!PostRemoteConfig(key) \/ Setting!Query(key) PROVE SettingsInv'
    BY <1>2, <1>4, QueryKeeps DEF Setting!PostRemoteConfig
  <1>5. ASSUME NEW moment, Setting!StartLookup(moment) PROVE SettingsInv'
    BY <1>5, StartLookupKeeps
  <1>6. CASE Setting!FindCandidates
    BY <1>6, FindCandidatesKeeps
  <1>7. CASE Setting!EndLookup
    BY <1>7, LookupOnly DEF Setting!EndLookup, Setting!Idle, LookupInv
  <1>8. CASE UNCHANGED settingVars
    BY <1>8 DEF settingVars, SettingsInv, Setting!TypeOK, Setting!SecretsStand, Setting!Authorized, LookupInv, LookupFits,
                LookupShape, Readable, Matches
  <1>9. QED
    BY <1>1, <1>3, <1>4, <1>5, <1>6, <1>7, <1>8 DEF Setting!Next

LEMMA InitSettings == Setting!Init => SettingsInv
  <1> SUFFICES ASSUME Setting!Init PROVE SettingsInv
    OBVIOUS
  <1>1. MaxSettingEdits \in Nat /\ MaxSettingFaults \in Nat
    BY NotificationsAssumption DEF Setting!SettingsAssumption
  <1>2. Setting!TypeOK /\ Setting!SecretsStand
    BY <1>1 DEF Setting!Init, Setting!TypeOK, Setting!SecretsStand, Setting!NoSecret
  <1>3. LookupInv
    BY DEF Setting!Init, Setting!Idle, LookupInv
  <1>4. QED
    BY <1>2, <1>3 DEF SettingsInv

-----------------------------------------------------------------------------
LEMMA TwoAndOne == ASSUME NEW x, NEW y, NEW z PROVE <<x, y>> \o <<z>> = <<x, y, z>>
  <1> DEFINE S == {x, y, z}
             p == <<x, y>>
             q == <<z>>
             s == <<x, y, z>>
  <1>1. p \in Seq(S) /\ Len(p) = 2 /\ p[1] = x /\ p[2] = y
    OBVIOUS
  <1>2. q \in Seq(S) /\ Len(q) = 1 /\ q[1] = z
    OBVIOUS
  <1>3. s \in Seq(S) /\ Len(s) = 3 /\ s[1] = x /\ s[2] = y /\ s[3] = z
    OBVIOUS
  <1> HIDE DEF S, p, q, s
  <1>4. p \o q \in Seq(S) /\ Len(p \o q) = Len(p) + Len(q)
        /\ \A i \in 1 .. Len(p) + Len(q) : (p \o q)[i] = IF i <= Len(p) THEN p[i] ELSE q[i - Len(p)]
    BY <1>1, <1>2, ConcatProperties
  <1>5. Len(p \o q) = 3 /\ \A i \in 1..3 : (p \o q)[i] = s[i]
    BY <1>1, <1>2, <1>3, <1>4
  <1>6. p \o q = s
    BY <1>3, <1>4, <1>5, SeqEqual
  <1>7. QED
    BY <1>6 DEF p, q, s

\* Which of a stream's settings applies, key by key.
LEMMA AppliesByKey ==
    ASSUME NEW v \in Streams, NEW setting \in Settings
    PROVE  Setting!Applies(v, setting) <=>
              \/ items[Setting!OverrideKey(v)] = setting
              \/ ~Setting!Valid(items[Setting!OverrideKey(v)]) /\ items[Setting!AllKey] = setting
              \/ /\ Topic[v] # NoTopic /\ items[Setting!TopicKey(Topic[v])] = setting
                 /\ ~Setting!Valid(items[Setting!OverrideKey(v)]) /\ ~Setting!Valid(items[Setting!AllKey])
  <1> DEFINE o == Setting!OverrideKey(v)
             a == Setting!AllKey
             t == Setting!TopicKey(Topic[v])
             keys == Setting!Precedence(v)
  <1>1. Setting!Applies(v, setting) <=>
           \E i \in DOMAIN keys : items[keys[i]] = setting /\ \A j \in 1..(i - 1) : ~Setting!Valid(items[keys[j]])
    BY DEF Setting!Applies
  <1>2. CASE Topic[v] = NoTopic
    <2>1. keys = <<o, a>>
      BY <1>2 DEF Setting!Precedence
    <2> HIDE DEF keys, o, a
    <2>2. DOMAIN keys = {1, 2} /\ keys[1] = o /\ keys[2] = a
      BY <2>1
    <2>3. 1..(1 - 1) = {} /\ 1..(2 - 1) = {1}
      OBVIOUS
    <2>4. Setting!Applies(v, setting) <=> items[o] = setting \/ (~Setting!Valid(items[o]) /\ items[a] = setting)
      BY <1>1, <2>2, <2>3
    <2>5. QED
      BY <1>2, <2>4 DEF o, a
  <1>3. CASE Topic[v] # NoTopic
    <2>1. keys = <<o, a, t>>
      <3>1. keys = <<o, a>> \o <<t>>
        BY <1>3 DEF Setting!Precedence
      <3> HIDE DEF keys, o, a, t
      <3>2. QED
        BY <3>1, TwoAndOne
    <2> HIDE DEF keys, o, a, t
    <2>2. DOMAIN keys = {1, 2, 3} /\ keys[1] = o /\ keys[2] = a /\ keys[3] = t
      BY <2>1
    <2>3. 1..(1 - 1) = {} /\ 1..(2 - 1) = {1} /\ 1..(3 - 1) = {1, 2}
      OBVIOUS
    <2>4. Setting!Applies(v, setting) <=>
             \/ items[o] = setting
             \/ ~Setting!Valid(items[o]) /\ items[a] = setting
             \/ items[t] = setting /\ ~Setting!Valid(items[o]) /\ ~Setting!Valid(items[a])
      BY <1>1, <2>2, <2>3
    <2>5. QED
      BY <1>3, <2>4 DEF o, a, t
  <1>4. QED
    BY <1>2, <1>3

\* What the queries read resolves to what applies.
LEMMA ResolvesToApplied ==
    ASSUME NEW v \in Streams, NEW read, \A key \in Setting!QueriedKeys(v) : read[key] = Readable(key)
    PROVE  \A setting \in Settings : Setting!Applies(v, setting) <=> Setting!Resolve(v, read) = setting
  <1> DEFINE o == Setting!OverrideKey(v)
             a == Setting!AllKey
             t == Setting!TopicKey(Topic[v])
  <1>1. read[o] = Readable(o) /\ read[a] = Readable(a) /\ (Topic[v] # NoTopic => read[t] = Readable(t))
    BY DEF Setting!QueriedKeys
  <1>2. \A key : /\ Setting!Valid(Readable(key)) <=> Setting!Valid(items[key])
                 /\ Setting!Valid(items[key]) => Readable(key) = items[key]
    BY AbsentIsNone DEF Readable
  <1>3. Setting!Resolve(v, read) =
           CASE Setting!Valid(read[o]) -> read[o]
             [] ~Setting!Valid(read[o]) /\ Setting!Valid(read[a]) -> read[a]
             [] ~Setting!Valid(read[o]) /\ ~Setting!Valid(read[a]) /\ Topic[v] # NoTopic -> read[t]
             [] OTHER -> Setting!Absent
    BY DEF Setting!Resolve
  <1>4. SUFFICES ASSUME NEW setting \in Settings
                 PROVE  Setting!Applies(v, setting) <=> Setting!Resolve(v, read) = setting
    OBVIOUS
  <1>5. Setting!Valid(setting) /\ Setting!Absent # setting
    BY AbsentIsNone DEF Setting!Valid
  <1>6. Setting!Applies(v, setting) <=>
              \/ items[o] = setting
              \/ ~Setting!Valid(items[o]) /\ items[a] = setting
              \/ Topic[v] # NoTopic /\ items[t] = setting /\ ~Setting!Valid(items[o]) /\ ~Setting!Valid(items[a])
    BY AppliesByKey
  <1> HIDE DEF o, a, t
  <1>7. CASE Setting!Valid(read[o])
    BY <1>1, <1>2, <1>3, <1>5, <1>6, <1>7
  <1>8. CASE ~Setting!Valid(read[o]) /\ Setting!Valid(read[a])
    BY <1>1, <1>2, <1>3, <1>5, <1>6, <1>8
  <1>9. CASE ~Setting!Valid(read[o]) /\ ~Setting!Valid(read[a]) /\ Topic[v] # NoTopic
    BY <1>1, <1>2, <1>3, <1>5, <1>6, <1>9
  <1>10. CASE ~Setting!Valid(read[o]) /\ ~Setting!Valid(read[a]) /\ Topic[v] = NoTopic
    BY <1>1, <1>2, <1>3, <1>5, <1>6, <1>10
  <1>11. QED
    BY <1>7, <1>8, <1>9, <1>10

\* A setting is due only for the streams that are.
LEMMA DueAmongStreams ==
    ASSUME NEW v \in Streams, NEW setting \in Settings, NEW moment, Setting!SettingDue(setting, v, moment)
    PROVE  v \in Setting!DueStreams(moment)
  <1>1. setting.advance \in {0} \cup Offsets
    BY NotificationsAssumption DEF Setting!SettingsAssumption
  <1>2. \E offset \in Offsets \cup {0} : moment = Start[v] - offset
    <2>1. CASE moment = Start[v] - setting.advance
      BY <1>1, <2>1
    <2>2. CASE moment = Start[v]
      BY <2>2, NotificationsAssumption DEF Setting!SettingsAssumption
    <2>3. QED
      BY <2>1, <2>2 DEF Setting!SettingDue
  <1>3. QED
    BY <1>2 DEF Setting!DueStreams

LEMMA LookupIsExactNow == SettingsInv => Setting!LookupIsExact
  <1> SUFFICES ASSUME SettingsInv, lookup.pc = "found", NEW v \in Streams, lookup.changed \cap Setting!QueriedKeys(v) = {}
               PROVE  v \in lookup.candidates <=>
                         \E setting \in Settings :
                            Setting!Applies(v, setting) /\ Setting!SettingDue(setting, v, lookup.moment)
    BY DEF Setting!LookupIsExact
  <1>1. LookupFits /\ lookup.left = {} /\ lookup.candidates = {w \in lookup.streams : Matches(w)}
    BY DEF SettingsInv, LookupInv, LookupFits
  <1>2. CASE v \notin lookup.streams
    BY <1>1, <1>2, DueAmongStreams DEF LookupFits
  <1>3. CASE v \in lookup.streams
    <2>1. \A key \in Setting!QueriedKeys(v) : lookup.found[key] = Readable(key)
      BY <1>1, <1>3 DEF LookupFits
    <2>2. \A setting \in Settings : Setting!Applies(v, setting) <=> Setting!Resolve(v, lookup.found) = setting
      BY <2>1, ResolvesToApplied
    <2>3. Matches(v) <=> \E setting \in Settings :
                            Setting!Applies(v, setting) /\ Setting!SettingDue(setting, v, lookup.moment)
      <3> DEFINE setting == Setting!Resolve(v, lookup.found)
      <3>1. Matches(v) <=> setting \in Settings /\ Setting!SettingDue(setting, v, lookup.moment)
        BY DEF Matches, Setting!Valid
      <3> HIDE DEF setting
      <3>2. \A s \in Settings : Setting!Applies(v, s) <=> setting = s
        BY <2>2 DEF setting
      <3>3. QED
        BY <3>1, <3>2
    <2>4. QED
      BY <1>1, <1>3, <2>3
  <1>4. QED
    BY <1>2, <1>3

-----------------------------------------------------------------------------
(* The reminder of a Premiere *)

Holding == {"serve", "push", "confirm", "release", "consume"}

\* The minutes one of the two choices names.
Minutes(start) == IF start = Reminder!Never THEN {} ELSE {start, start - AdvanceOffset}

ReminderItems == [save : Reminder!Saves, choice : Reminder!Choices, at : Nat]

RunShape(r) ==
    r = [pc |-> r.pc, now |-> r.now, start |-> r.start, todo |-> r.todo,
         instant |-> r.instant, item |-> r.item, complete |-> r.complete]

ReminderRun(r) ==
    /\ RunShape(r)
    /\ r.pc \in {"scan"} \cup Holding
    /\ r.start \in Starts \cup {Reminder!Never} /\ r.todo \subseteq Minutes(r.start)
    /\ r.pc \in Holding => r.start \in Starts /\ r.item \in ReminderItems
    /\ r.now \in Nat /\ r.now <= reminderClock /\ reminderClock <= r.now + LambdaLimit

ReminderTypes ==
    /\ reminderClock \in 0..MaxReminderClock
    /\ reminderLog \in [Reminder!Keys -> Reminder!Entries]
    /\ listing \in [status : {"premiere", "other", "gone"}, start : Starts]
    /\ entry \in Starts \cup {Reminder!Never}
    /\ item \in {Reminder!NoItem} \cup ReminderItems
    /\ item # Reminder!NoItem => item.at <= reminderClock
    /\ served \in [Containers -> (0..MaxReminderClock) \cup {Reminder!Never}]
    /\ reminderRun = [k \in Containers |-> reminderRun[k]]
    /\ reminderPushes \in [Reminder!Saves -> Nat] /\ unsettled \subseteq Reminder!Saves
    /\ due \subseteq Reminder!Saves \X Int \X Starts
    /\ edits \in 0..MaxReminderEdits /\ reminderFaults \in 0..MaxReminderFaults

RunsInHand == \A k \in Containers : reminderRun[k] = Reminder!Idle \/ ReminderRun(reminderRun[k])

Holds(k) == reminderRun[k].pc \in Holding
Claiming(k) == reminderRun[k].pc \in {"push", "confirm", "release"}
Concluding(k) == reminderRun[k].pc \in {"confirm", "consume"}
SaveOf(k) == reminderRun[k].item.save
Row(k) == reminderLog[Reminder!Key(k)]
Unclaimed(k) == \A j \in Containers : Claiming(j) => Reminder!Key(j) # Reminder!Key(k)

\* A save is one item, wherever it is read.
SavesAgree ==
    /\ item.save <= edits + 1
    /\ \A s \in Reminder!Saves : reminderPushes[s] # 0 => s <= edits + 1
    /\ \A k \in Containers : Holds(k) =>
          SaveOf(k) <= edits + 1 /\ (SaveOf(k) = item.save => reminderRun[k].item = item)
    /\ \A j, k \in Containers : Holds(j) /\ Holds(k) /\ SaveOf(j) = SaveOf(k) => reminderRun[j].item = reminderRun[k].item

\* A run that sends owns the row; one that is about to consume has written it
\* or leaves its claim behind.
RowsOwned ==
    \A k \in Containers :
        /\ Claiming(k) => /\ Row(k).status = "claimed" /\ Row(k).at = reminderRun[k].now
                          /\ \A j \in Containers : Claiming(j) /\ Reminder!Key(j) = Reminder!Key(k) => j = k
        /\ reminderRun[k].pc = "consume" =>
              /\ Row(k).status = "delivered" \/ (Row(k).status = "claimed" /\ Row(k).at = reminderRun[k].now)
              /\ Unclaimed(k)

\* Nobody can claim the row before the run is over.
Blocked(k) ==
    /\ Row(k).status = "delivered"
       \/ (Row(k).status = "claimed" /\ reminderRun[k].now + LambdaLimit <= Row(k).at + ReminderExpiry)
    /\ Unclaimed(k)

\* The save is consumed, and who still holds it finds its row taken.
Done(s) == item.save # s /\ \A k \in Containers : Holds(k) /\ SaveOf(k) = s => reminderRun[k].pc = "serve" /\ Blocked(k)

PushedFor(s) ==
    /\ reminderPushes[s] <= 1
    /\ \A j, k \in Containers : Concluding(j) /\ Concluding(k) /\ SaveOf(j) = s /\ SaveOf(k) = s => j = k
    /\ reminderPushes[s] # 0 => Done(s) \/ \E k \in Containers : Concluding(k) /\ SaveOf(k) = s

PushesSettled == \A s \in Reminder!Saves \ unsettled : PushedFor(s)

\* What came due is still listed, and the schedule holds it as long as it may be sent.
StillDue(d) ==
    /\ d[2] = Reminder!FireAt(item.choice, d[3]) /\ item.at <= d[2]
    /\ listing.start = d[3] /\ d[2] <= reminderClock
    /\ listing.status = "premiere" \/ (listing.status = "gone" /\ d[3] <= reminderClock)
    /\ entry = d[3] \/ (entry = Reminder!Never /\ d[3] + CarryForward <= reminderClock)

\* A run after whose end the marker would pass it has it before itself.
Faces(k, d) ==
    /\ served[k] # Reminder!Never /\ reminderRun[k].complete
    /\ Reminder!LargestOf({served[k], reminderRun[k].now - Lookback}) < d[2] /\ d[2] <= reminderRun[k].now
    /\ Reminder!RecoveryAllows(item, d[3], reminderRun[k].now)
    => /\ reminderRun[k].start = d[3]
       /\ \/ d[2] \in reminderRun[k].todo
          \/ reminderRun[k].pc = "serve" /\ reminderRun[k].instant = d[2] /\ SaveOf(k) = d[1]

DuesFaced ==
    \A d \in due : d[1] = item.save =>
        StillDue(d) /\ \A k \in Containers : reminderRun[k] # Reminder!Idle => Faces(k, d)

ReminderInv == ReminderTypes /\ RunsInHand /\ SavesAgree /\ RowsOwned /\ PushesSettled /\ DuesFaced

-----------------------------------------------------------------------------

ReminderHistory == <<reminderPushes, unsettled, due>>

LEMMA ReminderParameters ==
    /\ Starts \subseteq Nat \ {0} /\ AdvanceOffset \in Nat \ {0} /\ MinRemaining \in Nat \ {0}
    /\ StartGrace \in Nat /\ CarryForward \in Nat /\ StartGrace <= CarryForward
    /\ Lookback \in Nat /\ LambdaLimit \in Nat /\ ReminderExpiry \in Nat /\ 2 * LambdaLimit <= ReminderExpiry
    /\ MaxReminderClock \in Nat /\ MaxReminderEdits \in Nat /\ MaxReminderFaults \in Nat
  BY NotificationsAssumption DEF Reminder!ReminderAssumption

LEMMA HoldersRun ==
    ASSUME ReminderInv, NEW k \in Containers, Holds(k)
    PROVE  /\ reminderRun[k] # Reminder!Idle /\ ReminderRun(reminderRun[k])
           /\ reminderRun[k].start \in Starts /\ reminderRun[k].item \in ReminderItems
           /\ SaveOf(k) \in Reminder!Saves
  <1>1. reminderRun[k] # Reminder!Idle
    BY DEF Holds, Holding, Reminder!Idle
  <1>2. ReminderRun(reminderRun[k])
    BY <1>1 DEF ReminderInv, RunsInHand
  <1>3. reminderRun[k].start \in Starts /\ reminderRun[k].item \in ReminderItems
    BY <1>2 DEF ReminderRun, Holds
  <1>4. SaveOf(k) \in Reminder!Saves
    BY <1>3 DEF ReminderItems, SaveOf
  <1>5. QED
    BY <1>1, <1>2, <1>3, <1>4

LEMMA KeyIsKey ==
    ASSUME ReminderInv, NEW k \in Containers, Holds(k)
    PROVE  Reminder!Key(k) \in Reminder!Keys /\ Row(k) \in Reminder!Entries
  <1>1. reminderRun[k].start \in Starts /\ reminderRun[k].item.choice \in Reminder!Choices
    BY HoldersRun DEF ReminderItems
  <1>2. Reminder!Key(k) \in Reminder!Keys
    BY <1>1 DEF Reminder!Key, Reminder!Keys, Reminder!Client
  <1>3. QED
    BY <1>2 DEF ReminderInv, ReminderTypes, Row

LEMMA ClaimTest ==
    ASSUME ReminderInv, NEW k \in Containers, reminderRun[k].pc = "serve", Reminder!ClaimReminder(k)
    PROVE  \/ ~Reminder!Handled(Reminder!Key(k)) /\ reminderRun' = [reminderRun EXCEPT ![k].pc = "push"]
              /\ reminderLog' = [reminderLog EXCEPT ![Reminder!Key(k)] = [status |-> "claimed", at |-> reminderRun[k].now]]
           \/ Reminder!Handled(Reminder!Key(k)) /\ UNCHANGED reminderLog
              /\ reminderRun' = [reminderRun EXCEPT ![k].pc = "scan", ![k].item = Reminder!NoItem]
  BY DEF Reminder!ClaimReminder, Reminder!Claim, Reminder!Goto, Reminder!Back

LEMMA OneRunMoves ==
    ASSUME ReminderInv, NEW k \in Containers, NEW r, reminderRun' = [reminderRun EXCEPT ![k] = r]
    PROVE  /\ reminderRun'[k] = r /\ \A j \in Containers \ {k} : reminderRun'[j] = reminderRun[j]
           /\ reminderRun' = [j \in Containers |-> reminderRun'[j]]
  <1>1. reminderRun = [j \in Containers |-> reminderRun[j]]
    BY DEF ReminderInv, ReminderTypes
  <1>2. reminderRun' = [j \in Containers |-> IF j = k THEN r ELSE reminderRun[j]]
    BY <1>1
  <1>3. QED
    BY <1>2

\* A run that is not touched reads and claims what it did.
LEMMA OtherRunStands ==
    ASSUME NEW j \in Containers, reminderRun'[j] = reminderRun[j]
    PROVE  /\ Holds(j)' = Holds(j) /\ Claiming(j)' = Claiming(j) /\ Concluding(j)' = Concluding(j)
           /\ SaveOf(j)' = SaveOf(j) /\ Reminder!Key(j)' = Reminder!Key(j)
  BY DEF Holds, Claiming, Concluding, SaveOf, Reminder!Key

LEMMA HoldersAre ==
    ASSUME NEW j \in Containers
    PROVE  (Claiming(j) => Holds(j)) /\ (Concluding(j) => Holds(j))
           /\ (Holds(j) <=> reminderRun[j].pc \in {"serve", "consume"} \/ Claiming(j))
           /\ (Concluding(j) <=> reminderRun[j].pc = "consume" \/ reminderRun[j].pc = "confirm")
  BY DEF Claiming, Concluding, Holds, Holding

\* A run lets go of what it held.
LEMMA LetGo ==
    ASSUME ReminderInv, NEW k \in Containers,
           \A j \in Containers \ {k} : reminderRun'[j] = reminderRun[j], reminderRun'[k].pc \notin Holding,
           UNCHANGED <<reminderLog, item, reminderPushes, edits>>, unsettled \subseteq unsettled',
           Concluding(k) => SaveOf(k) \in unsettled'
    PROVE  SavesAgree' /\ RowsOwned' /\ PushesSettled'
  <1>1. ASSUME NEW j \in Containers, Holds(j)'
        PROVE  j # k /\ Holds(j) /\ reminderRun'[j] = reminderRun[j] /\ SaveOf(j)' = SaveOf(j)
               /\ Reminder!Key(j)' = Reminder!Key(j) /\ Row(j)' = Row(j)
    <2>1. j # k
      BY <1>1 DEF Holds
    <2>2. QED
      BY <1>1, <2>1, OtherRunStands DEF Row
  <1>2. \A j \in Containers : Claiming(j)' => Claiming(j) /\ Holds(j)'
    <2>1. SUFFICES ASSUME NEW j \in Containers, Claiming(j)' PROVE Claiming(j) /\ Holds(j)'
      OBVIOUS
    <2>2. Holds(j)'
      BY <2>1 DEF Claiming, Holds, Holding
    <2>3. QED
      BY <1>1, <2>1, <2>2 DEF Claiming
  <1>3. \A j \in Containers : Concluding(j)' => Concluding(j) /\ Holds(j)'
    <2>1. SUFFICES ASSUME NEW j \in Containers, Concluding(j)' PROVE Concluding(j) /\ Holds(j)'
      OBVIOUS
    <2>2. Holds(j)'
      BY <2>1 DEF Concluding, Holds, Holding
    <2>3. QED
      BY <1>1, <2>1, <2>2 DEF Concluding
  <1>4. \A j \in Containers : Holds(j)' /\ Unclaimed(j) => Unclaimed(j)'
    BY <1>1, <1>2 DEF Unclaimed
  <1>5. SavesAgree'
    BY <1>1 DEF ReminderInv, SavesAgree
  <1>6. RowsOwned'
    <2>1. SUFFICES ASSUME NEW j \in Containers
                   PROVE  /\ Claiming(j)' =>
                               /\ Row(j)'.status = "claimed" /\ Row(j)'.at = reminderRun'[j].now
                               /\ \A i \in Containers : Claiming(i)' /\ Reminder!Key(i)' = Reminder!Key(j)' => i = j
                          /\ reminderRun'[j].pc = "consume" =>
                               /\ Row(j)'.status = "delivered" \/ (Row(j)'.status = "claimed" /\ Row(j)'.at = reminderRun'[j].now)
                               /\ Unclaimed(j)'
      BY DEF RowsOwned
    <2>2. CASE Claiming(j)'
      BY <1>1, <1>2, <2>2 DEF ReminderInv, RowsOwned, Claiming
    <2>3. CASE reminderRun'[j].pc = "consume"
      <3>1. Holds(j)'
        BY <2>3 DEF Holds, Holding
      <3>2. reminderRun[j].pc = "consume" /\ Row(j)' = Row(j) /\ reminderRun'[j] = reminderRun[j]
        BY <1>1, <2>3, <3>1
      <3>3. Unclaimed(j)'
        BY <1>4, <3>1, <3>2 DEF ReminderInv, RowsOwned
      <3>4. QED
        BY <2>3, <3>2, <3>3 DEF ReminderInv, RowsOwned, Claiming
    <2>4. QED
      BY <2>2, <2>3
  <1>7. PushesSettled'
    <2>1. SUFFICES ASSUME NEW s \in Reminder!Saves, s \notin unsettled' PROVE PushedFor(s)'
      BY DEF PushesSettled
    <2>2. PushedFor(s)
      BY <2>1 DEF ReminderInv, PushesSettled
    <2>3. \A i, j \in Containers : Concluding(i)' /\ Concluding(j)' /\ SaveOf(i)' = s /\ SaveOf(j)' = s => i = j
      BY <1>1, <1>3, <2>2 DEF PushedFor
    <2>4. ASSUME Done(s) PROVE Done(s)'
      <3>1. SUFFICES ASSUME NEW j \in Containers, Holds(j)', SaveOf(j)' = s
                     PROVE  reminderRun'[j].pc = "serve" /\ Blocked(j)'
        BY <2>4 DEF Done
      <3>2. reminderRun[j].pc = "serve" /\ Blocked(j)
        BY <1>1, <2>4, <3>1 DEF Done
      <3>3. QED
        BY <1>1, <1>4, <3>1, <3>2 DEF Blocked
    <2>5. ASSUME NEW j \in Containers, Concluding(j), SaveOf(j) = s PROVE Concluding(j)' /\ SaveOf(j)' = s
      BY <2>1, <2>5, OtherRunStands
    <2>6. QED
      BY <2>2, <2>3, <2>4, <2>5 DEF PushedFor
  <1>8. QED
    BY <1>5, <1>6, <1>7

LEMMA StillWithin == \A s, a, b \in Nat : s <= a + 1 /\ a <= b => s <= b + 1
  OBVIOUS

\* The stored item stays, is deleted, or is saved anew.
Restored ==
    \/ UNCHANGED item
    \/ item' = Reminder!NoItem
    \/ edits' = edits + 1 /\ item'.save = edits + 2

\* No run moves; what is stored may be deleted or replaced by a new save.
LEMMA StoreChanges ==
    ASSUME ReminderInv, UNCHANGED <<reminderRun, reminderLog, reminderPushes, unsettled>>,
           edits \in Nat, edits' \in Nat, edits <= edits', Restored
    PROVE  SavesAgree' /\ RowsOwned' /\ PushesSettled'
  <1>1. \A j \in Containers : /\ Holds(j)' = Holds(j) /\ Claiming(j)' = Claiming(j) /\ Concluding(j)' = Concluding(j)
                              /\ SaveOf(j)' = SaveOf(j) /\ Reminder!Key(j)' = Reminder!Key(j) /\ Row(j)' = Row(j)
                              /\ reminderRun'[j] = reminderRun[j]
    BY OtherRunStands DEF Row
  <1>2. \A j \in Containers : Unclaimed(j)' = Unclaimed(j)
    BY <1>1 DEF Unclaimed
  <1>3. \A j \in Containers : Holds(j) => SaveOf(j) \in Reminder!Saves
    BY HoldersRun
  <1>4. item.save <= edits + 1 /\ Reminder!NoItem.save = 0
    BY DEF ReminderInv, SavesAgree, Reminder!NoItem
  <1>0. item'.save = item.save \/ item'.save = 0 \/ (edits' = edits + 1 /\ item'.save = edits + 2)
    BY <1>4 DEF Restored
  <1>5. \A s \in Reminder!Saves : s \in Nat /\ s # 0
    BY ReminderParameters DEF Reminder!Saves
  <1>6. ASSUME NEW s \in Reminder!Saves, s <= edits + 1, item.save # s PROVE item'.save # s
    BY <1>0, <1>5, <1>6
  <1>7. item'.save <= edits' + 1
    <2>1. item.save \in Nat
      BY <1>4, <1>5 DEF ReminderInv, ReminderTypes, ReminderItems
    <2>2. QED
      BY <1>0, <1>4, <2>1
  <1>8. SavesAgree'
    <2>1. \A s \in Reminder!Saves : s <= edits + 1 => s <= edits' + 1
      <3>1. SUFFICES ASSUME NEW s \in Reminder!Saves, s <= edits + 1 PROVE s <= edits' + 1
        OBVIOUS
      <3>2. s \in Nat
        BY <1>5
      <3>3. QED
        BY <3>1, <3>2, StillWithin, Zenon
    <2>2. \A s \in Reminder!Saves : reminderPushes'[s] # 0 => s <= edits' + 1
      BY <2>1 DEF ReminderInv, SavesAgree
    <2>3. ASSUME NEW j \in Containers, Holds(j)'
          PROVE  SaveOf(j)' <= edits' + 1 /\ (SaveOf(j)' = item'.save => reminderRun'[j].item = item')
      <3>1. SaveOf(j)' = SaveOf(j) /\ SaveOf(j) \in Reminder!Saves /\ SaveOf(j) <= edits + 1
        BY <1>1, <1>3, <2>3 DEF ReminderInv, SavesAgree
      <3>2. ASSUME SaveOf(j) = item'.save PROVE reminderRun'[j].item = item'
        <4>1. SaveOf(j) = item.save
          BY <1>6, <3>1, <3>2
        <4>2. reminderRun[j].item = item
          BY <1>1, <2>3, <4>1 DEF ReminderInv, SavesAgree
        <4>3. item' = item
          <5>1. SaveOf(j) \in Nat \ {0} /\ SaveOf(j) # edits + 2
            BY <1>5, <3>1
          <5>2. item'.save # 0 /\ item'.save # edits + 2
            BY <3>2, <5>1
          <5>3. QED
            BY <1>4, <5>2 DEF Restored
        <4>4. QED
          BY <1>1, <4>2, <4>3
      <3>3. QED
        BY <2>1, <3>1, <3>2
    <2>4. \A j, k \in Containers : Holds(j)' /\ Holds(k)' /\ SaveOf(j)' = SaveOf(k)' => reminderRun'[j].item = reminderRun'[k].item
      BY <1>1 DEF ReminderInv, SavesAgree
    <2>5. QED
      BY <1>7, <2>2, <2>3, <2>4 DEF SavesAgree
  <1>9. RowsOwned'
    BY <1>1, <1>2 DEF ReminderInv, RowsOwned
  <1>10. PushesSettled'
    <2>1. SUFFICES ASSUME NEW s \in Reminder!Saves, s \notin unsettled PROVE PushedFor(s)'
      BY DEF PushesSettled
    <2>2. PushedFor(s)
      BY <2>1 DEF ReminderInv, PushesSettled
    <2>3. \A i, j \in Containers : Concluding(i)' /\ Concluding(j)' /\ SaveOf(i)' = s /\ SaveOf(j)' = s => i = j
      BY <1>1, <2>2 DEF PushedFor
    <2>4. ASSUME Done(s), reminderPushes[s] # 0 PROVE Done(s)'
      <3>1. item'.save # s
        BY <1>6, <2>4 DEF ReminderInv, SavesAgree, Done
      <3>2. SUFFICES ASSUME NEW j \in Containers, Holds(j)', SaveOf(j)' = s
                     PROVE  reminderRun'[j].pc = "serve" /\ Blocked(j)'
        BY <3>1 DEF Done
      <3>3. reminderRun[j].pc = "serve" /\ Blocked(j)
        BY <1>1, <2>4, <3>2 DEF Done
      <3>4. QED
        BY <1>1, <1>2, <3>3 DEF Blocked
    <2>5. QED
      BY <1>1, <2>2, <2>3, <2>4 DEF PushedFor
  <1>11. QED
    BY <1>8, <1>9, <1>10

\* The run of one container moves, and nothing new comes due.
LEMMA DuesKept ==
    ASSUME ReminderInv, NEW k \in Containers, due' \subseteq due,
           \A j \in Containers \ {k} : reminderRun'[j] = reminderRun[j] /\ served'[j] = served[j],
           UNCHANGED <<reminderClock, listing, entry, item>>,
           \A d \in due' : d[1] = item.save /\ (reminderRun[k] # Reminder!Idle => Faces(k, d)) /\ reminderRun'[k] # Reminder!Idle
              => Faces(k, d)'
    PROVE  DuesFaced'
  <1>1. SUFFICES ASSUME NEW d \in due', d[1] = item.save
                 PROVE  StillDue(d)' /\ \A j \in Containers : reminderRun'[j] # Reminder!Idle => Faces(j, d)'
    BY DEF DuesFaced
  <1>2. StillDue(d) /\ \A j \in Containers : reminderRun[j] # Reminder!Idle => Faces(j, d)
    BY <1>1 DEF ReminderInv, DuesFaced
  <1>3. StillDue(d)'
    BY <1>2 DEF StillDue
  <1>4. ASSUME NEW j \in Containers, reminderRun'[j] # Reminder!Idle PROVE Faces(j, d)'
    <2>1. CASE j = k
      BY <1>1, <1>2, <1>4, <2>1
    <2>2. CASE j # k
      BY <1>2, <1>4, <2>2 DEF Faces, SaveOf
    <2>3. QED
      BY <2>1, <2>2
  <1>5. QED
    BY <1>3, <1>4

LEMMA ItemFacts ==
    ASSUME ReminderInv, item.save \in Reminder!Saves
    PROVE  item # Reminder!NoItem /\ item \in ReminderItems /\ item.choice \in Reminder!Choices /\ item.at \in Nat
  <1>1. item # Reminder!NoItem
    BY ReminderParameters DEF Reminder!NoItem, Reminder!Saves
  <1>2. QED
    BY <1>1 DEF ReminderInv, ReminderTypes, ReminderItems

LEMMA NoRunMoves ==
    ASSUME ReminderInv, UNCHANGED <<reminderRun, served, reminderClock>>
    PROVE  RunsInHand'
  BY DEF ReminderInv, RunsInHand, ReminderRun, Holding

LEMMA TickKeeps == ASSUME ReminderInv, Reminder!Tick PROVE ReminderInv'
  <1>1. /\ reminderClock < MaxReminderClock /\ reminderClock' = reminderClock + 1
        /\ \A k \in Containers : reminderRun[k] # Reminder!Idle => reminderClock < reminderRun[k].now + LambdaLimit
        /\ UNCHANGED <<reminderLog, entry, item, listing, served, reminderRun, reminderPushes, unsettled, edits, reminderFaults>>
    BY DEF Reminder!Tick, Reminder!stores
  <1>2. \A d \in due' \ due : /\ d = <<item.save, reminderClock', entry>> /\ item # Reminder!NoItem
                              /\ listing = [status |-> "premiere", start |-> entry]
                              /\ reminderClock' = Reminder!FireAt(item.choice, entry)
    BY DEF Reminder!Tick
  <1>3. reminderClock \in Nat /\ reminderClock' \in Nat /\ reminderClock' \in 0..MaxReminderClock
    BY <1>1, ReminderParameters DEF ReminderInv, ReminderTypes
  <1>4. ASSUME NEW d \in due' \ due
        PROVE  /\ d \in Reminder!Saves \X Int \X Starts
               /\ d[1] = item.save /\ d[2] = reminderClock' /\ d[3] = entry /\ listing.start = entry /\ listing.status = "premiere"
               /\ reminderClock' = Reminder!FireAt(item.choice, entry) /\ item # Reminder!NoItem
    <2>1. listing.start = entry /\ listing.status = "premiere"
      BY <1>2
    <2>2. entry \in Starts /\ item \in ReminderItems
      BY <1>2, <2>1 DEF ReminderInv, ReminderTypes
    <2>3. item.save \in Reminder!Saves
      BY <2>2 DEF ReminderItems
    <2>4. QED
      BY <1>2, <1>3, <2>1, <2>2, <2>3
  <1>5. due' \subseteq Reminder!Saves \X Int \X Starts
    BY <1>4 DEF ReminderInv, ReminderTypes
  <1>6. item # Reminder!NoItem => item.at <= reminderClock'
    BY <1>1, <1>3 DEF ReminderInv, ReminderTypes, ReminderItems
  <1>7. ReminderTypes'
    BY <1>1, <1>3, <1>5, <1>6 DEF ReminderInv, ReminderTypes
  <1>8. RunsInHand'
    <2>1. SUFFICES ASSUME NEW k \in Containers, reminderRun[k] # Reminder!Idle PROVE ReminderRun(reminderRun[k])'
      BY <1>1 DEF RunsInHand
    <2>2. ReminderRun(reminderRun[k]) /\ reminderClock < reminderRun[k].now + LambdaLimit
      BY <1>1, <2>1 DEF ReminderInv, RunsInHand
    <2>3. reminderRun[k].now \in Nat
      BY <2>2 DEF ReminderRun
    <2>4. reminderRun[k].now <= reminderClock' /\ reminderClock' <= reminderRun[k].now + LambdaLimit
      BY <1>1, <1>3, <2>2, <2>3, ReminderParameters DEF ReminderRun
    <2>5. QED
      BY <1>1, <2>2, <2>4 DEF ReminderRun
  <1>9. SavesAgree' /\ RowsOwned' /\ PushesSettled'
    <2>1. edits \in Nat /\ edits' = edits
      BY <1>1, ReminderParameters DEF ReminderInv, ReminderTypes
    <2>2. QED
      BY <1>1, <2>1, StoreChanges DEF Restored
  <1>10. DuesFaced'
    <2>1. SUFFICES ASSUME NEW d \in due', d[1] = item.save
                   PROVE  StillDue(d)' /\ \A k \in Containers : reminderRun[k] # Reminder!Idle => Faces(k, d)'
      BY <1>1 DEF DuesFaced
    <2>2. CASE d \in due
      <3>1. StillDue(d) /\ \A k \in Containers : reminderRun[k] # Reminder!Idle => Faces(k, d)
        BY <2>1, <2>2 DEF ReminderInv, DuesFaced
      <3>2. d[2] \in Int /\ d[3] \in Nat /\ d[3] + CarryForward \in Nat
        BY <2>2, ReminderParameters DEF ReminderInv, ReminderTypes
      <3>3. \A x \in Int : x <= reminderClock => x <= reminderClock'
        BY <1>1, <1>3
      <3>4. StillDue(d)'
        BY <1>1, <3>1, <3>2, <3>3 DEF StillDue
      <3>5. QED
        BY <1>1, <3>1, <3>4 DEF Faces, SaveOf
    <2>3. CASE d \notin due
      <3>1. item # Reminder!NoItem => item.at <= reminderClock'
        BY <1>6
      <3>2. StillDue(d)'
        BY <1>1, <1>3, <1>4, <1>6, <2>3 DEF StillDue
      <3>3. ASSUME NEW k \in Containers, reminderRun[k] # Reminder!Idle PROVE Faces(k, d)'
        <4>1. reminderRun[k].now \in Nat /\ reminderRun[k].now <= reminderClock
          BY <3>3 DEF ReminderInv, RunsInHand, ReminderRun
        <4>2. ~(d[2] <= reminderRun[k].now)
          BY <1>1, <1>3, <1>4, <2>3, <4>1
        <4>3. QED
          BY <1>1, <4>2 DEF Faces
      <3>4. QED
        BY <3>2, <3>3
    <2>4. QED
      BY <2>2, <2>3
  <1>11. QED
    BY <1>7, <1>8, <1>9, <1>10 DEF ReminderInv

LEMMA EditsGrow ==
    ASSUME ReminderInv, Reminder!Edits
    PROVE  /\ edits \in Nat /\ edits' \in Nat /\ edits' = edits + 1 /\ edits <= edits' /\ edits' \in 0..MaxReminderEdits
           /\ edits + 2 \in Reminder!Saves /\ reminderFaults' = reminderFaults
  <1>1. /\ edits \in Nat /\ edits < MaxReminderEdits /\ edits' = edits + 1 /\ MaxReminderEdits \in Nat
        /\ reminderFaults' = reminderFaults
    BY ReminderParameters DEF ReminderInv, ReminderTypes, Reminder!Edits, Reminder!Works
  <1>2. QED
    BY <1>1 DEF Reminder!Saves

LEMMA RelistKeeps ==
    ASSUME ReminderInv, NEW status \in {"premiere", "other", "gone"}, NEW start \in Starts, Reminder!Relist(status, start)
    PROVE  ReminderInv'
  <1>1. /\ Reminder!Edits /\ listing' = [status |-> status, start |-> start]
        /\ UNCHANGED <<reminderClock, reminderLog, entry, item, served, reminderRun, reminderPushes, unsettled>>
        /\ due' \subseteq due /\ \A d \in due' : status = "gone" /\ start = listing.start /\ start <= reminderClock
    BY DEF Reminder!Relist, Reminder!stores
  <1>2. ReminderTypes'
    BY <1>1, EditsGrow DEF ReminderInv, ReminderTypes
  <1>3. RunsInHand'
    BY <1>1, NoRunMoves
  <1>4. SavesAgree' /\ RowsOwned' /\ PushesSettled'
    BY <1>1, EditsGrow, StoreChanges DEF Restored
  <1>5. DuesFaced'
    <2>1. SUFFICES ASSUME NEW d \in due', d[1] = item.save
                   PROVE  StillDue(d)' /\ \A k \in Containers : reminderRun[k] # Reminder!Idle => Faces(k, d)'
      BY <1>1 DEF DuesFaced
    <2>2. StillDue(d) /\ \A k \in Containers : reminderRun[k] # Reminder!Idle => Faces(k, d)
      BY <1>1, <2>1 DEF ReminderInv, DuesFaced
    <2>3. status = "gone" /\ start = listing.start /\ start <= reminderClock /\ listing'.status = status /\ listing'.start = start
      BY <1>1, <2>1
    <2>4. StillDue(d)'
      BY <1>1, <2>2, <2>3 DEF StillDue
    <2>5. QED
      BY <1>1, <2>2, <2>4 DEF Faces, SaveOf
  <1>6. QED
    BY <1>2, <1>3, <1>4, <1>5 DEF ReminderInv

LEMMA SaveKeeps ==
    ASSUME ReminderInv, NEW choice \in Reminder!Choices, Reminder!Save(choice)
    PROVE  ReminderInv'
  <1>1. /\ Reminder!Edits /\ item' = [save |-> edits' + 1, choice |-> choice, at |-> reminderClock]
        /\ UNCHANGED <<reminderClock, reminderLog, entry, listing, served, reminderRun, reminderPushes, unsettled>>
        /\ due' = {}
    BY DEF Reminder!Save
  <1>2. edits' + 1 = edits + 2
    BY <1>1, EditsGrow
  <1>3. reminderClock \in Nat
    BY ReminderParameters DEF ReminderInv, ReminderTypes
  <1>4. item' \in ReminderItems /\ item'.at = reminderClock /\ item'.save = edits + 2
    BY <1>1, <1>2, <1>3, EditsGrow DEF ReminderItems
  <1>5. item'.at <= reminderClock'
    BY <1>1, <1>3, <1>4
  <1>6. ReminderTypes'
    BY <1>1, <1>4, <1>5, EditsGrow DEF ReminderInv, ReminderTypes
  <1>7. RunsInHand'
    BY <1>1, NoRunMoves
  <1>8. SavesAgree' /\ RowsOwned' /\ PushesSettled'
    BY <1>1, <1>4, EditsGrow, StoreChanges DEF Restored
  <1>9. DuesFaced'
    BY <1>1 DEF DuesFaced
  <1>10. QED
    BY <1>6, <1>7, <1>8, <1>9 DEF ReminderInv

LEMMA DeleteKeeps == ASSUME ReminderInv, Reminder!Delete PROVE ReminderInv'
  <1>1. /\ Reminder!Edits /\ item' = Reminder!NoItem
        /\ UNCHANGED <<reminderClock, reminderLog, entry, listing, served, reminderRun, reminderPushes, unsettled>>
        /\ due' = {}
    BY DEF Reminder!Delete
  <1>2. ReminderTypes'
    BY <1>1, EditsGrow DEF ReminderInv, ReminderTypes
  <1>3. RunsInHand'
    BY <1>1, NoRunMoves
  <1>4. SavesAgree' /\ RowsOwned' /\ PushesSettled'
    BY <1>1, EditsGrow, StoreChanges DEF Restored
  <1>5. DuesFaced'
    BY <1>1 DEF DuesFaced
  <1>6. QED
    BY <1>2, <1>3, <1>4, <1>5 DEF ReminderInv

LEMMA LaterOfTwo ==
    ASSUME NEW a \in Int, NEW b \in Int
    PROVE  Reminder!LargestOf({a, b}) \in {a, b}
  <1>1. \E x \in {a, b} : \A y \in {a, b} : y <= x
    <2>1. CASE a <= b
      BY <2>1
    <2>2. CASE b <= a
      BY <2>2
    <2>3. QED
      BY <2>1, <2>2
  <1>2. QED
    BY <1>1, Zenon DEF Reminder!LargestOf

LEMMA RunMoves ==
    ASSUME ReminderInv, NEW k \in Containers, NEW r, reminderRun' = [reminderRun EXCEPT ![k] = r],
           r = Reminder!Idle \/ ReminderRun(r), UNCHANGED reminderClock
    PROVE  RunsInHand'
  <1>1. \A j \in Containers : reminderRun'[j] = Reminder!Idle \/ ReminderRun(reminderRun'[j])
    BY OneRunMoves DEF ReminderInv, RunsInHand
  <1>2. \A q : ReminderRun(q)' <=> ReminderRun(q)
    BY DEF ReminderRun
  <1>3. QED
    BY <1>1 DEF RunsInHand, ReminderRun

\* The schedule holds a Premiere that may still be reminded of.
LEMMA DerivedStarts == ASSUME ReminderInv PROVE Reminder!Derived \in Starts \cup {Reminder!Never}
  BY DEF ReminderInv, ReminderTypes, Reminder!Derived

LEMMA InstantsAreMinutes ==
    ASSUME ReminderInv, NEW k \in Containers, NEW start \in Starts \cup {Reminder!Never}
    PROVE  Reminder!Instants(k, start) \subseteq Minutes(start)
  <1>1. SUFFICES ASSUME NEW i \in Reminder!Instants(k, start) PROVE i \in Minutes(start)
    OBVIOUS
  <1>2. start # Reminder!Never /\ \E choice \in Reminder!Choices : Reminder!FireAt(choice, start) = i
    BY <1>1 DEF Reminder!Instants
  <1>3. QED
    BY <1>2 DEF Minutes, Reminder!FireAt

LEMMA DerivedWhileDue ==
    ASSUME ReminderInv, NEW d \in due, d[1] = item.save, StillDue(d), NEW start \in {Reminder!Derived, entry}
    PROVE  start = d[3] \/ (start = Reminder!Never /\ d[3] + CarryForward <= reminderClock)
  <1>1. d[3] \in Nat /\ d[3] # Reminder!Never /\ reminderClock \in Nat
    BY ReminderParameters DEF ReminderInv, ReminderTypes, Reminder!Never
  <1>2. CASE start = entry
    BY <1>2 DEF StillDue
  <1>3. CASE start = Reminder!Derived
    <2>1. CASE listing.status = "premiere"
      BY <1>3, <2>1 DEF StillDue, Reminder!Derived
    <2>2. CASE listing.status = "gone" /\ d[3] <= reminderClock
      <3>1. start = IF entry # Reminder!Never /\ entry <= reminderClock /\ reminderClock < entry + CarryForward
                      THEN entry ELSE Reminder!Never
        BY <1>3, <2>2 DEF Reminder!Derived
      <3>2. CASE entry = Reminder!Never
        BY <3>1, <3>2 DEF StillDue, Reminder!Never
      <3>3. CASE entry = d[3] /\ reminderClock < d[3] + CarryForward
        BY <1>1, <2>2, <3>1, <3>3
      <3>4. CASE entry = d[3] /\ ~(reminderClock < d[3] + CarryForward)
        <4>1. d[3] + CarryForward \in Nat
          BY <1>1, ReminderParameters
        <4>2. QED
          BY <1>1, <3>1, <3>4, <4>1
      <3>5. QED
        BY <3>2, <3>3, <3>4 DEF StillDue
    <2>3. QED
      BY <2>1, <2>2 DEF StillDue
  <1>4. QED
    BY <1>2, <1>3

\* A recovery is not allowed once the schedule has let the start go.
LEMMA TooLateToRecover ==
    ASSUME NEW start \in Nat, NEW moment \in Nat, start + CarryForward <= moment, NEW i, Reminder!RecoveryAllows(i, start, moment)
    PROVE  FALSE
  <1>1. /\ MinRemaining \in Nat \ {0} /\ StartGrace \in Nat /\ CarryForward \in Nat /\ StartGrace <= CarryForward
    BY ReminderParameters
  <1>2. CASE moment <= start - MinRemaining
    BY <1>1, <1>2
  <1>3. CASE moment < start + StartGrace
    BY <1>1, <1>3
  <1>4. QED
    BY <1>2, <1>3 DEF Reminder!RecoveryAllows

LEMMA StartRunKeeps == ASSUME ReminderInv, NEW k \in Containers, Reminder!StartRun(k) PROVE ReminderInv'
  <1>1. PICK start \in {Reminder!Derived, entry} :
          /\ reminderRun' = [reminderRun EXCEPT ![k] =
                [pc |-> "scan", now |-> reminderClock, start |-> start, todo |-> Reminder!Instants(k, start),
                 instant |-> Reminder!Never, item |-> Reminder!NoItem, complete |-> TRUE]]
          /\ (reminderFaults' = reminderFaults /\ entry' = start)
             \/ (reminderFaults < MaxReminderFaults /\ reminderFaults' = reminderFaults + 1 /\ UNCHANGED entry)
    BY DEF Reminder!StartRun, Reminder!Works, Reminder!Fails
  <1>2. /\ reminderRun[k] = Reminder!Idle
        /\ UNCHANGED <<reminderClock, reminderLog, item, listing, served, reminderPushes, unsettled, due, edits>>
    BY DEF Reminder!StartRun, Reminder!history
  <1>3. start \in Starts \cup {Reminder!Never} /\ entry' \in {start, entry} /\ entry' \in Starts \cup {Reminder!Never}
    BY <1>1, DerivedStarts DEF ReminderInv, ReminderTypes
  <1> DEFINE r == [pc |-> "scan", now |-> reminderClock, start |-> start, todo |-> Reminder!Instants(k, start),
                   instant |-> Reminder!Never, item |-> Reminder!NoItem, complete |-> TRUE]
  <1>4. /\ r.pc = "scan" /\ r.now = reminderClock /\ r.start = start /\ r.todo = Reminder!Instants(k, start)
        /\ r.item = Reminder!NoItem
        /\ RunShape(r)
    BY DEF RunShape
  <1>5. reminderRun' = [reminderRun EXCEPT ![k] = r]
    BY <1>1
  <1> HIDE DEF r
  <1>6. reminderClock \in Nat /\ reminderClock <= reminderClock + LambdaLimit /\ reminderClock <= reminderClock
    BY ReminderParameters DEF ReminderInv, ReminderTypes
  <1>7. ReminderRun(r)
    BY <1>3, <1>4, <1>6, InstantsAreMinutes DEF ReminderRun, Holding
  <1>8. RunsInHand'
    BY <1>2, <1>5, <1>7, RunMoves
  <1>9. reminderRun'[k] = r /\ reminderRun' = [j \in Containers |-> reminderRun'[j]]
        /\ \A j \in Containers \ {k} : reminderRun'[j] = reminderRun[j]
    BY <1>5, OneRunMoves
  <1>10. reminderFaults' \in 0..MaxReminderFaults
    BY <1>1, ReminderParameters DEF ReminderInv, ReminderTypes
  <1>11. ReminderTypes'
    BY <1>2, <1>3, <1>9, <1>10 DEF ReminderInv, ReminderTypes
  <1>12. SavesAgree' /\ RowsOwned' /\ PushesSettled'
    <2>1. reminderRun'[k].pc \notin Holding /\ ~Concluding(k)
      BY <1>2, <1>4, <1>9 DEF Holding, Concluding, Reminder!Idle
    <2>2. QED
      BY <1>2, <1>9, <2>1, LetGo
  <1>13. DuesFaced'
    <2>1. SUFFICES ASSUME NEW d \in due, d[1] = item.save
                   PROVE  StillDue(d)' /\ \A j \in Containers : reminderRun'[j] # Reminder!Idle => Faces(j, d)'
      BY <1>2 DEF DuesFaced
    <2>2. StillDue(d) /\ \A j \in Containers : reminderRun[j] # Reminder!Idle => Faces(j, d)
      BY <2>1 DEF ReminderInv, DuesFaced
    <2>3. start = d[3] \/ (start = Reminder!Never /\ d[3] + CarryForward <= reminderClock)
      BY <2>1, <2>2, DerivedWhileDue
    <2>4. StillDue(d)'
      BY <1>2, <1>3, <2>2, <2>3 DEF StillDue
    <2>5. ASSUME served[k] # Reminder!Never, Reminder!LargestOf({served[k], reminderClock - Lookback}) < d[2],
                 d[2] <= reminderClock, Reminder!RecoveryAllows(item, d[3], reminderClock)
          PROVE  start = d[3] /\ d[2] \in Reminder!Instants(k, start)
      <3>1. d[3] \in Nat /\ d[3] # Reminder!Never /\ d[2] \in Int
        BY ReminderParameters DEF ReminderInv, ReminderTypes, Reminder!Never
      <3>2. start = d[3]
        BY <1>6, <2>3, <2>5, <3>1, TooLateToRecover
      <3>3. item.choice \in Reminder!Choices
        BY <2>1, ItemFacts DEF ReminderInv, ReminderTypes
      <3>4. served[k] \in Int /\ reminderClock - Lookback \in Int
        BY <1>6, <2>5, ReminderParameters DEF ReminderInv, ReminderTypes
      <3>5. Reminder!LargestOf({served[k], reminderClock - Lookback}) \in Int
        BY <3>4, LaterOfTwo
      <3>6. d[2] \in {reminderClock} \cup (Reminder!LargestOf({served[k], reminderClock - Lookback}) + 1)..(reminderClock - 1)
        BY <1>6, <2>5, <3>1, <3>5
      <3>7. Reminder!FireAt(item.choice, start) = d[2]
        BY <2>2, <3>2 DEF StillDue
      <3>8. QED
        BY <2>5, <3>1, <3>2, <3>3, <3>6, <3>7 DEF Reminder!Instants
    <2>6. Faces(k, d)'
      BY <1>2, <1>4, <1>9, <2>5 DEF Faces
    <2>7. ASSUME NEW j \in Containers, reminderRun'[j] # Reminder!Idle PROVE Faces(j, d)'
      <3>1. CASE j = k
        BY <2>6, <3>1
      <3>2. CASE j # k
        BY <1>2, <1>9, <2>2, <2>7, <3>2 DEF Faces, SaveOf
      <3>3. QED
        BY <3>1, <3>2
    <2>8. QED
      BY <2>4, <2>7
  <1>14. QED
    BY <1>8, <1>11, <1>12, <1>13 DEF ReminderInv

LEMMA Reshaped ==
    ASSUME NEW q, RunShape(q), NEW x
    PROVE  /\ RunShape([q EXCEPT !.pc = x]) /\ RunShape([q EXCEPT !.item = x]) /\ RunShape([q EXCEPT !.todo = x])
           /\ RunShape([q EXCEPT !.instant = x]) /\ RunShape([q EXCEPT !.complete = x])
  <1>1. RunShape([q EXCEPT !.pc = x])
    BY DEF RunShape
  <1>2. RunShape([q EXCEPT !.item = x])
    BY DEF RunShape
  <1>3. RunShape([q EXCEPT !.todo = x])
    BY DEF RunShape
  <1>4. RunShape([q EXCEPT !.instant = x])
    BY DEF RunShape
  <1>5. RunShape([q EXCEPT !.complete = x])
    BY DEF RunShape
  <1>6. QED
    BY <1>1, <1>2, <1>3, <1>4, <1>5

LEMMA FaultsCounted ==
    ASSUME ReminderInv, Reminder!Fails \/ Reminder!Works
    PROVE  reminderFaults' \in 0..MaxReminderFaults
  BY ReminderParameters DEF ReminderInv, ReminderTypes, Reminder!Fails, Reminder!Works

\* The types of a step of one run.
LEMMA RunStepTypes ==
    ASSUME ReminderInv, NEW k \in Containers,
           reminderRun' = [j \in Containers |-> reminderRun'[j]],
           \A j \in Containers \ {k} : reminderRun'[j] = reminderRun[j],
           reminderRun'[k] = Reminder!Idle \/ ReminderRun(reminderRun'[k]),
           UNCHANGED <<reminderClock, entry, listing, edits>>,
           reminderLog' \in [Reminder!Keys -> Reminder!Entries], item' \in {item, Reminder!NoItem},
           reminderPushes' \in [Reminder!Saves -> Nat],
           served' \in [Containers -> (0..MaxReminderClock) \cup {Reminder!Never}],
           unsettled' \subseteq Reminder!Saves, due' \subseteq due, reminderFaults' \in 0..MaxReminderFaults
    PROVE  ReminderTypes' /\ RunsInHand'
  <1>1. item' \in {Reminder!NoItem} \cup ReminderItems /\ (item' # Reminder!NoItem => item'.at <= reminderClock)
    BY DEF ReminderInv, ReminderTypes
  <1>2. ReminderTypes'
    BY <1>1 DEF ReminderInv, ReminderTypes
  <1>3. \A j \in Containers : reminderRun'[j] = Reminder!Idle \/ ReminderRun(reminderRun'[j])
    BY DEF ReminderInv, RunsInHand
  <1>4. RunsInHand'
    BY <1>3 DEF RunsInHand, ReminderRun
  <1>5. QED
    BY <1>2, <1>4

\* A step after which the run holds nothing.
LEMMA GivesUp ==
    ASSUME ReminderInv, NEW k \in Containers,
           reminderRun' = [j \in Containers |-> reminderRun'[j]],
           \A j \in Containers \ {k} : reminderRun'[j] = reminderRun[j],
           reminderRun'[k] = Reminder!Idle \/ ReminderRun(reminderRun'[k]), reminderRun'[k].pc \notin Holding,
           UNCHANGED <<reminderClock, reminderLog, entry, item, listing, reminderPushes, edits>>,
           served' \in [Containers -> (0..MaxReminderClock) \cup {Reminder!Never}],
           \A j \in Containers \ {k} : served'[j] = served[j],
           unsettled \subseteq unsettled', unsettled' \subseteq Reminder!Saves,
           Concluding(k) => SaveOf(k) \in unsettled', due' \subseteq due, reminderFaults' \in 0..MaxReminderFaults,
           \A d \in due' : d[1] = item.save /\ (reminderRun[k] # Reminder!Idle => Faces(k, d)) /\ reminderRun'[k] # Reminder!Idle
              => Faces(k, d)'
    PROVE  ReminderInv'
  <1>1. ReminderTypes' /\ RunsInHand'
    <2>1. reminderLog' \in [Reminder!Keys -> Reminder!Entries] /\ reminderPushes' \in [Reminder!Saves -> Nat]
      BY DEF ReminderInv, ReminderTypes
    <2>2. QED
      BY <2>1, RunStepTypes
  <1>2. SavesAgree' /\ RowsOwned' /\ PushesSettled'
    BY LetGo
  <1>3. DuesFaced'
    BY DuesKept
  <1>4. QED
    BY <1>1, <1>2, <1>3 DEF ReminderInv

\* The run of container k goes back to its minutes.
WentBack(k) ==
    /\ reminderRun' = [j \in Containers |-> reminderRun'[j]]
    /\ \A j \in Containers \ {k} : reminderRun'[j] = reminderRun[j]
    /\ ReminderRun(reminderRun'[k]) /\ reminderRun'[k].pc = "scan" /\ reminderRun'[k].complete = reminderRun[k].complete
    /\ reminderRun'[k].now = reminderRun[k].now /\ reminderRun'[k].start = reminderRun[k].start
    /\ reminderRun'[k].todo = reminderRun[k].todo

LEMMA GoesBack ==
    ASSUME ReminderInv, NEW k \in Containers, reminderRun[k] # Reminder!Idle,
           reminderRun' = [reminderRun EXCEPT ![k].pc = "scan", ![k].item = Reminder!NoItem]
    PROVE  WentBack(k)
  <1>1. ReminderRun(reminderRun[k])
    BY DEF ReminderInv, RunsInHand
  <1> DEFINE r == [reminderRun[k] EXCEPT !.pc = "scan", !.item = Reminder!NoItem]
  <1>2. reminderRun' = [reminderRun EXCEPT ![k] = r]
    BY DEF ReminderInv, ReminderTypes
  <1>3. RunShape(r)
    <2>1. r = [[reminderRun[k] EXCEPT !.pc = "scan"] EXCEPT !.item = Reminder!NoItem]
      OBVIOUS
    <2>2. RunShape([[reminderRun[k] EXCEPT !.pc = "scan"] EXCEPT !.item = Reminder!NoItem])
      BY <1>1, Reshaped DEF ReminderRun
    <2>3. QED
      BY <2>1, <2>2
  <1>4. /\ r.pc = "scan" /\ r.now = reminderRun[k].now /\ r.start = reminderRun[k].start /\ r.todo = reminderRun[k].todo
        /\ r.complete = reminderRun[k].complete
    BY <1>1 DEF ReminderRun, RunShape
  <1> HIDE DEF r
  <1>5. ReminderRun(r)
    BY <1>1, <1>3, <1>4 DEF ReminderRun, Holding
  <1>6. reminderRun'[k] = r /\ reminderRun' = [j \in Containers |-> reminderRun'[j]]
        /\ \A j \in Containers \ {k} : reminderRun'[j] = reminderRun[j]
    BY <1>2, OneRunMoves
  <1>7. QED
    BY <1>4, <1>5, <1>6 DEF WentBack

\* It has dealt with what it held, or held nothing that is due.
LEMMA BackStillFaces ==
    ASSUME ReminderInv, NEW k \in Containers, WentBack(k), UNCHANGED <<item, served>>,
           NEW d \in due, Faces(k, d),
           reminderRun[k].pc # "serve" \/ d # <<SaveOf(k), reminderRun[k].instant, reminderRun[k].start>>
    PROVE  Faces(k, d)'
  <1>1. d = <<d[1], d[2], d[3]>>
    BY DEF ReminderInv, ReminderTypes
  <1>2. QED
    BY <1>1 DEF Faces, WentBack

LEMMA NotNotifiedKeeps == ASSUME ReminderInv, NEW k \in Containers, Reminder!NotNotified(k) PROVE ReminderInv'
  <1>1. /\ reminderRun[k].pc = "serve"
        /\ reminderRun' = [reminderRun EXCEPT ![k].pc = "scan", ![k].item = Reminder!NoItem]
        /\ due' = due \ {<<SaveOf(k), reminderRun[k].instant, reminderRun[k].start>>}
        /\ UNCHANGED <<reminderClock, reminderLog, entry, item, listing, served, reminderPushes, unsettled, edits, reminderFaults>>
    BY DEF Reminder!NotNotified, Reminder!Back, Reminder!Try, Reminder!stores, SaveOf
  <1>2. reminderRun[k] # Reminder!Idle /\ ~Concluding(k)
    BY <1>1 DEF Reminder!Idle, Concluding
  <1>3. WentBack(k)
    BY <1>1, <1>2, GoesBack
  <1>4. /\ served' \in [Containers -> (0..MaxReminderClock) \cup {Reminder!Never}] /\ due' \subseteq due
        /\ unsettled' \subseteq Reminder!Saves /\ unsettled \subseteq unsettled' /\ reminderFaults' \in 0..MaxReminderFaults
    BY <1>1 DEF ReminderInv, ReminderTypes
  <1>5. \A d \in due' : Faces(k, d) => Faces(k, d)'
    BY <1>1, <1>3, BackStillFaces
  <1>6. reminderRun'[k].pc \notin Holding /\ ReminderRun(reminderRun'[k])
    BY <1>3 DEF Holding, WentBack
  <1>7. QED
    BY <1>1, <1>2, <1>3, <1>4, <1>5, <1>6, GivesUp DEF WentBack

LEMMA LeaveUnservedKeeps == ASSUME ReminderInv, NEW k \in Containers, Reminder!LeaveUnserved(k) PROVE ReminderInv'
  <1>1. /\ reminderRun[k].pc = "serve"
        /\ reminderRun' = [reminderRun EXCEPT ![k].pc = "scan", ![k].item = Reminder!NoItem, ![k].complete = FALSE]
        /\ UNCHANGED <<reminderClock, reminderLog, entry, item, listing, served, reminderPushes, unsettled, due, edits, reminderFaults>>
    BY DEF Reminder!LeaveUnserved, Reminder!stores, Reminder!history
  <1>2. reminderRun[k] # Reminder!Idle /\ ~Concluding(k)
    BY <1>1 DEF Reminder!Idle, Concluding
  <1>3. ReminderRun(reminderRun[k])
    BY <1>2 DEF ReminderInv, RunsInHand
  <1> DEFINE r == [reminderRun[k] EXCEPT !.pc = "scan", !.item = Reminder!NoItem, !.complete = FALSE]
  <1>4. reminderRun' = [reminderRun EXCEPT ![k] = r]
    BY <1>1 DEF ReminderInv, ReminderTypes
  <1>5. RunShape(r)
    <2>1. r = [[[reminderRun[k] EXCEPT !.pc = "scan"] EXCEPT !.item = Reminder!NoItem] EXCEPT !.complete = FALSE]
      OBVIOUS
    <2>2. RunShape([[[reminderRun[k] EXCEPT !.pc = "scan"] EXCEPT !.item = Reminder!NoItem] EXCEPT !.complete = FALSE])
      BY <1>3, Reshaped DEF ReminderRun
    <2>3. QED
      BY <2>1, <2>2
  <1>6. /\ r.pc = "scan" /\ r.now = reminderRun[k].now /\ r.start = reminderRun[k].start /\ r.todo = reminderRun[k].todo
        /\ r.complete = FALSE
    BY <1>3 DEF ReminderRun, RunShape
  <1> HIDE DEF r
  <1>7. ReminderRun(r)
    BY <1>3, <1>5, <1>6 DEF ReminderRun, Holding
  <1>8. reminderRun'[k] = r /\ reminderRun' = [j \in Containers |-> reminderRun'[j]]
        /\ \A j \in Containers \ {k} : reminderRun'[j] = reminderRun[j]
    BY <1>4, OneRunMoves
  <1>9. /\ served' \in [Containers -> (0..MaxReminderClock) \cup {Reminder!Never}] /\ due' \subseteq due
        /\ unsettled' \subseteq Reminder!Saves /\ unsettled \subseteq unsettled' /\ reminderFaults' \in 0..MaxReminderFaults
    BY <1>1 DEF ReminderInv, ReminderTypes
  <1>10. \A d \in due' : Faces(k, d)'
    BY <1>6, <1>8 DEF Faces
  <1>11. reminderRun'[k].pc \notin Holding /\ ReminderRun(reminderRun'[k])
    BY <1>6, <1>7, <1>8 DEF Holding
  <1>12. QED
    BY <1>1, <1>2, <1>8, <1>9, <1>10, <1>11, GivesUp

LEMMA ScanFailsKeeps == ASSUME ReminderInv, NEW k \in Containers, Reminder!ScanFails(k) PROVE ReminderInv'
  <1>1. /\ reminderRun[k].pc = "scan" /\ Reminder!Fails
        /\ reminderRun' = [reminderRun EXCEPT ![k].todo = {}, ![k].complete = FALSE]
        /\ UNCHANGED <<reminderClock, reminderLog, entry, item, listing, served, reminderPushes, unsettled, due, edits>>
    BY DEF Reminder!ScanFails, Reminder!stores, Reminder!history
  <1>2. reminderRun[k] # Reminder!Idle /\ ~Concluding(k)
    BY <1>1 DEF Reminder!Idle, Concluding
  <1>3. ReminderRun(reminderRun[k])
    BY <1>2 DEF ReminderInv, RunsInHand
  <1> DEFINE r == [reminderRun[k] EXCEPT !.todo = {}, !.complete = FALSE]
  <1>4. reminderRun' = [reminderRun EXCEPT ![k] = r]
    BY <1>1 DEF ReminderInv, ReminderTypes
  <1>5. RunShape(r)
    <2>1. r = [[reminderRun[k] EXCEPT !.todo = {}] EXCEPT !.complete = FALSE]
      OBVIOUS
    <2>2. RunShape([[reminderRun[k] EXCEPT !.todo = {}] EXCEPT !.complete = FALSE])
      BY <1>3, Reshaped DEF ReminderRun
    <2>3. QED
      BY <2>1, <2>2
  <1>6. /\ r.pc = "scan" /\ r.now = reminderRun[k].now /\ r.start = reminderRun[k].start /\ r.todo = {}
        /\ r.complete = FALSE
    BY <1>3, <1>1 DEF ReminderRun, RunShape
  <1> HIDE DEF r
  <1>7. ReminderRun(r)
    BY <1>3, <1>5, <1>6 DEF ReminderRun, Holding
  <1>8. reminderRun'[k] = r /\ reminderRun' = [j \in Containers |-> reminderRun'[j]]
        /\ \A j \in Containers \ {k} : reminderRun'[j] = reminderRun[j]
    BY <1>4, OneRunMoves
  <1>9. /\ served' \in [Containers -> (0..MaxReminderClock) \cup {Reminder!Never}] /\ due' \subseteq due
        /\ unsettled' \subseteq Reminder!Saves /\ unsettled \subseteq unsettled' /\ reminderFaults' \in 0..MaxReminderFaults
    BY <1>1, FaultsCounted DEF ReminderInv, ReminderTypes
  <1>10. \A d \in due' : Faces(k, d)'
    BY <1>6, <1>8 DEF Faces
  <1>11. reminderRun'[k].pc \notin Holding /\ ReminderRun(reminderRun'[k])
    BY <1>6, <1>7, <1>8 DEF Holding
  <1>12. QED
    BY <1>1, <1>2, <1>8, <1>9, <1>10, <1>11, GivesUp

LEMMA EndRunKeeps == ASSUME ReminderInv, NEW k \in Containers, Reminder!EndRun(k) PROVE ReminderInv'
  <1>1. /\ reminderRun[k].pc = "scan" /\ reminderRun' = [reminderRun EXCEPT ![k] = Reminder!Idle]
        /\ UNCHANGED <<reminderClock, reminderLog, entry, item, listing, reminderPushes, unsettled, due, edits, reminderFaults>>
        /\ served' = served \/ served' = [served EXCEPT ![k] = Reminder!LargestOf({served[k], reminderRun[k].now})]
    BY DEF Reminder!EndRun, Reminder!stores, Reminder!history
  <1>2. reminderRun[k] # Reminder!Idle /\ ~Concluding(k)
    BY <1>1 DEF Reminder!Idle, Concluding
  <1>3. served \in [Containers -> (0..MaxReminderClock) \cup {Reminder!Never}]
    BY DEF ReminderInv, ReminderTypes
  <1>4. Reminder!LargestOf({served[k], reminderRun[k].now}) \in (0..MaxReminderClock) \cup {Reminder!Never}
    <2>1. reminderRun[k].now \in 0..MaxReminderClock
      BY <1>2, ReminderParameters DEF ReminderInv, ReminderTypes, RunsInHand, ReminderRun
    <2>2. served[k] \in Int /\ reminderRun[k].now \in Int
      BY <1>3, <2>1, ReminderParameters DEF Reminder!Never
    <2>3. Reminder!LargestOf({served[k], reminderRun[k].now}) \in {served[k], reminderRun[k].now}
      BY <2>2, LaterOfTwo
    <2>4. QED
      BY <1>3, <2>1, <2>3
  <1>5. /\ served' \in [Containers -> (0..MaxReminderClock) \cup {Reminder!Never}]
        /\ \A j \in Containers \ {k} : served'[j] = served[j]
    BY <1>1, <1>3, <1>4
  <1>6. reminderRun'[k] = Reminder!Idle /\ reminderRun' = [j \in Containers |-> reminderRun'[j]]
        /\ \A j \in Containers \ {k} : reminderRun'[j] = reminderRun[j]
    BY <1>1, OneRunMoves
  <1>7. reminderRun'[k].pc \notin Holding
    BY <1>6 DEF Holding, Reminder!Idle
  <1>8. due' \subseteq due /\ unsettled' \subseteq Reminder!Saves /\ unsettled \subseteq unsettled'
        /\ reminderFaults' \in 0..MaxReminderFaults
    BY <1>1 DEF ReminderInv, ReminderTypes
  <1>9. QED
    BY <1>1, <1>2, <1>5, <1>6, <1>7, <1>8, GivesUp

LEMMA CrashKeeps == ASSUME ReminderInv, NEW k \in Containers, Reminder!Crash(k) PROVE ReminderInv'
  <1>1. /\ Reminder!Fails \/ Reminder!Works
        /\ reminderRun' = [reminderRun EXCEPT ![k] = Reminder!Idle]
        /\ served' = [served EXCEPT ![k] = Reminder!Never]
        /\ unsettled' = unsettled \cup {s \in {SaveOf(k)} : reminderRun[k].pc \in {"confirm", "consume"}}
        /\ UNCHANGED <<reminderClock, reminderLog, entry, item, listing, reminderPushes, due, edits>>
    BY DEF Reminder!Crash, Reminder!stores, SaveOf
  <1>2. served' \in [Containers -> (0..MaxReminderClock) \cup {Reminder!Never}]
        /\ \A j \in Containers \ {k} : served'[j] = served[j]
    BY <1>1 DEF ReminderInv, ReminderTypes
  <1>3. Concluding(k) => SaveOf(k) \in unsettled'
    BY <1>1 DEF Concluding
  <1>4. unsettled \subseteq unsettled' /\ unsettled' \subseteq Reminder!Saves
    <2>1. reminderRun[k].pc \in {"confirm", "consume"} => SaveOf(k) \in Reminder!Saves
      BY HoldersRun DEF Holds, Holding
    <2>2. QED
      BY <1>1, <2>1 DEF ReminderInv, ReminderTypes
  <1>5. reminderRun'[k] = Reminder!Idle /\ reminderRun' = [j \in Containers |-> reminderRun'[j]]
        /\ \A j \in Containers \ {k} : reminderRun'[j] = reminderRun[j]
    BY <1>1, OneRunMoves
  <1>6. reminderRun'[k].pc \notin Holding
    BY <1>5 DEF Holding, Reminder!Idle
  <1>7. due' \subseteq due /\ reminderFaults' \in 0..MaxReminderFaults
    BY <1>1, FaultsCounted
  <1>8. QED
    BY <1>1, <1>2, <1>3, <1>4, <1>5, <1>6, <1>7, GivesUp

\* The run of container k takes its next step with what it holds.
MovesOn(k) ==
    /\ reminderRun' = [j \in Containers |-> reminderRun'[j]]
    /\ \A j \in Containers \ {k} : reminderRun'[j] = reminderRun[j]
    /\ ReminderRun(reminderRun'[k]) /\ reminderRun'[k].pc \in Holding
    /\ reminderRun'[k].item = reminderRun[k].item /\ reminderRun'[k].complete = reminderRun[k].complete
    /\ reminderRun'[k].now = reminderRun[k].now /\ reminderRun'[k].start = reminderRun[k].start
    /\ reminderRun'[k].todo = reminderRun[k].todo /\ reminderRun'[k].instant = reminderRun[k].instant

LEMMA GoesTo ==
    ASSUME ReminderInv, NEW k \in Containers, Holds(k), NEW pc \in Holding,
           reminderRun' = [reminderRun EXCEPT ![k].pc = pc]
    PROVE  MovesOn(k) /\ reminderRun'[k].pc = pc
  <1>1. ReminderRun(reminderRun[k])
    BY HoldersRun
  <1> DEFINE r == [reminderRun[k] EXCEPT !.pc = pc]
  <1>2. reminderRun' = [reminderRun EXCEPT ![k] = r]
    BY DEF ReminderInv, ReminderTypes
  <1>3. RunShape(r)
    BY <1>1, Reshaped DEF ReminderRun
  <1>4. /\ r.pc = pc /\ r.now = reminderRun[k].now /\ r.start = reminderRun[k].start /\ r.todo = reminderRun[k].todo
        /\ r.complete = reminderRun[k].complete /\ r.item = reminderRun[k].item /\ r.instant = reminderRun[k].instant
    BY <1>1 DEF ReminderRun, RunShape
  <1> HIDE DEF r
  <1>5. ReminderRun(r)
    BY <1>1, <1>3, <1>4 DEF ReminderRun, Holds
  <1>6. reminderRun'[k] = r /\ reminderRun' = [j \in Containers |-> reminderRun'[j]]
        /\ \A j \in Containers \ {k} : reminderRun'[j] = reminderRun[j]
    BY <1>2, OneRunMoves
  <1>7. QED
    BY <1>4, <1>5, <1>6 DEF MovesOn

LEMMA HandsStand ==
    ASSUME NEW k \in Containers, Holds(k), MovesOn(k), NEW j \in Containers
    PROVE  /\ Holds(j)' = Holds(j) /\ SaveOf(j)' = SaveOf(j) /\ Reminder!Key(j)' = Reminder!Key(j)
           /\ reminderRun'[j].item = reminderRun[j].item /\ reminderRun'[j].now = reminderRun[j].now
           /\ j # k => /\ reminderRun'[j] = reminderRun[j]
                       /\ Claiming(j)' = Claiming(j) /\ Concluding(j)' = Concluding(j)
  <1>1. CASE j = k
    BY <1>1 DEF Holds, SaveOf, Reminder!Key, MovesOn
  <1>2. CASE j # k
    BY <1>2, OtherRunStands DEF MovesOn
  <1>3. QED
    BY <1>1, <1>2

LEMMA MovesOnTypes ==
    ASSUME ReminderInv, NEW k \in Containers, MovesOn(k),
           UNCHANGED <<reminderClock, entry, item, listing, edits, served>>,
           reminderLog' \in [Reminder!Keys -> Reminder!Entries], reminderPushes' \in [Reminder!Saves -> Nat],
           unsettled' \subseteq Reminder!Saves, due' \subseteq due, reminderFaults' \in 0..MaxReminderFaults
    PROVE  ReminderTypes' /\ RunsInHand'
  <1>1. served' \in [Containers -> (0..MaxReminderClock) \cup {Reminder!Never}] /\ item' \in {item, Reminder!NoItem}
    BY DEF ReminderInv, ReminderTypes
  <1>2. QED
    BY <1>1, RunStepTypes DEF MovesOn

LEMMA MovesOnAgrees ==
    ASSUME ReminderInv, NEW k \in Containers, Holds(k), MovesOn(k), UNCHANGED <<item, edits>>,
           \A s \in Reminder!Saves : reminderPushes'[s] # 0 => reminderPushes[s] # 0 \/ s = SaveOf(k)
    PROVE  SavesAgree'
  <1>1. \A s \in Reminder!Saves : reminderPushes'[s] # 0 => s <= edits + 1
    BY DEF ReminderInv, SavesAgree
  <1>2. \A j \in Containers : Holds(j)' = Holds(j) /\ SaveOf(j)' = SaveOf(j) /\ reminderRun'[j].item = reminderRun[j].item
    BY HandsStand
  <1>3. QED
    BY <1>1, <1>2 DEF ReminderInv, SavesAgree

LEMMA MovesOnFaces ==
    ASSUME ReminderInv, NEW k \in Containers, Holds(k), MovesOn(k), due' \subseteq due,
           UNCHANGED <<reminderClock, listing, entry, item, served>>,
           \A d \in due' : reminderRun[k].pc # "serve" \/ d # <<SaveOf(k), reminderRun[k].instant, reminderRun[k].start>>
    PROVE  DuesFaced'
  <1>1. SUFFICES ASSUME NEW d \in due', Faces(k, d) PROVE Faces(k, d)'
    BY HoldersRun, DuesKept DEF MovesOn
  <1>2. d = <<d[1], d[2], d[3]>>
    BY DEF ReminderInv, ReminderTypes
  <1>3. reminderRun[k].pc # "serve" \/ d # <<SaveOf(k), reminderRun[k].instant, reminderRun[k].start>>
    OBVIOUS
  <1>4. QED
    BY <1>1, <1>2, <1>3 DEF Faces, MovesOn

\* A row that outlives its run is taken.
LEMMA TakenIsHandled ==
    ASSUME ReminderInv, NEW j \in Containers, Holds(j),
           Row(j).status = "delivered"
              \/ (Row(j).status = "claimed" /\ reminderRun[j].now + LambdaLimit <= Row(j).at + ReminderExpiry)
    PROVE  Reminder!Handled(Reminder!Key(j))
  <1>1. Row(j).at \in Nat
    BY KeyIsKey DEF Reminder!Entries
  <1>2. reminderRun[j].now \in Nat /\ reminderClock \in Nat /\ reminderClock <= reminderRun[j].now + LambdaLimit
    BY HoldersRun, ReminderParameters DEF ReminderRun, ReminderInv, ReminderTypes
  <1>3. Row(j).status = "claimed" => ~(reminderClock - Row(j).at > ReminderExpiry)
    BY <1>1, <1>2, ReminderParameters
  <1>4. QED
    BY <1>3 DEF Reminder!Handled, Reminder!Expired, Row

LEMMA OwnedIsHandled ==
    ASSUME ReminderInv, NEW j \in Containers, Claiming(j) \/ reminderRun[j].pc = "consume" \/ (Holds(j) /\ Blocked(j))
    PROVE  Reminder!Handled(Reminder!Key(j))
  <1>1. Holds(j)
    BY HoldersAre
  <1>2. reminderRun[j].now \in Nat /\ reminderRun[j].now + LambdaLimit <= reminderRun[j].now + ReminderExpiry
    BY <1>1, HoldersRun, ReminderParameters DEF ReminderRun
  <1>3. CASE Claiming(j)
    BY <1>1, <1>2, <1>3, TakenIsHandled DEF ReminderInv, RowsOwned
  <1>4. CASE reminderRun[j].pc = "consume"
    BY <1>1, <1>2, <1>4, TakenIsHandled DEF ReminderInv, RowsOwned
  <1>5. CASE Blocked(j)
    BY <1>1, <1>5, TakenIsHandled DEF Blocked
  <1>6. QED
    BY <1>3, <1>4, <1>5

LEMMA ClaimKeeps == ASSUME ReminderInv, NEW k \in Containers, Reminder!ClaimReminder(k) PROVE ReminderInv'
  <1>1. /\ reminderRun[k].pc = "serve"
        /\ due' = due \ {<<SaveOf(k), reminderRun[k].instant, reminderRun[k].start>>}
        /\ UNCHANGED <<reminderClock, entry, item, listing, served, reminderPushes, unsettled, edits, reminderFaults>>
    BY DEF Reminder!ClaimReminder, Reminder!Try, SaveOf
  <1>2. reminderRun[k] # Reminder!Idle /\ ~Concluding(k) /\ Holds(k) /\ ~Claiming(k)
    BY <1>1 DEF Reminder!Idle, Concluding, Holds, Holding, Claiming
  <1>3. /\ served' \in [Containers -> (0..MaxReminderClock) \cup {Reminder!Never}] /\ due' \subseteq due
        /\ unsettled' \subseteq Reminder!Saves /\ unsettled \subseteq unsettled' /\ reminderFaults' \in 0..MaxReminderFaults
        /\ reminderPushes' \in [Reminder!Saves -> Nat] /\ reminderLog \in [Reminder!Keys -> Reminder!Entries]
    BY <1>1 DEF ReminderInv, ReminderTypes
  <1>4. CASE /\ UNCHANGED reminderLog
             /\ reminderRun' = [reminderRun EXCEPT ![k].pc = "scan", ![k].item = Reminder!NoItem]
    <2>1. WentBack(k)
      BY <1>2, <1>4, GoesBack
    <2>2. \A d \in due' : Faces(k, d) => Faces(k, d)'
      BY <1>1, <2>1, BackStillFaces
    <2>3. reminderRun'[k].pc \notin Holding /\ ReminderRun(reminderRun'[k])
      BY <2>1 DEF Holding, WentBack
    <2>4. QED
      BY <1>1, <1>2, <1>3, <1>4, <2>1, <2>2, <2>3, GivesUp DEF WentBack
  <1>5. CASE /\ ~Reminder!Handled(Reminder!Key(k)) /\ reminderRun' = [reminderRun EXCEPT ![k].pc = "push"]
             /\ reminderLog' = [reminderLog EXCEPT ![Reminder!Key(k)] = [status |-> "claimed", at |-> reminderRun[k].now]]
    <2>1. MovesOn(k) /\ reminderRun'[k].pc = "push"
      BY <1>2, <1>5, GoesTo DEF Holding
    <2>2. Reminder!Key(k) \in Reminder!Keys /\ reminderRun[k].now \in Nat
      BY <1>2, KeyIsKey, HoldersRun DEF ReminderRun
    <2>3. reminderLog' \in [Reminder!Keys -> Reminder!Entries]
      BY <1>3, <1>5, <2>2 DEF Reminder!Entries
    <2>4. ReminderTypes' /\ RunsInHand'
      BY <1>1, <1>3, <2>1, <2>3, MovesOnTypes
    <2>5. SavesAgree'
      BY <1>1, <1>2, <2>1, MovesOnAgrees
    <2>6. DuesFaced'
      BY <1>1, <1>2, <2>1, MovesOnFaces
    <2>7. \A j \in Containers : Claiming(j) \/ reminderRun[j].pc = "consume" \/ (Holds(j) /\ Blocked(j))
                                  => Reminder!Key(j) # Reminder!Key(k)
      BY <1>5, OwnedIsHandled
    <2>8. \A j \in Containers : /\ Holds(j)' = Holds(j) /\ SaveOf(j)' = SaveOf(j) /\ Reminder!Key(j)' = Reminder!Key(j)
                                /\ reminderRun'[j].now = reminderRun[j].now
      BY <1>2, <2>1, HandsStand
    <2>9. \A j \in Containers \ {k} : Claiming(j)' = Claiming(j) /\ Concluding(j)' = Concluding(j) /\ reminderRun'[j] = reminderRun[j]
      BY <1>2, <2>1, HandsStand
    <2>10. Claiming(k)' /\ ~Concluding(k)' /\ Row(k)'.status = "claimed" /\ Row(k)'.at = reminderRun'[k].now
      BY <1>3, <1>5, <2>1, <2>2, <2>8 DEF Claiming, Concluding, Row
    <2>11. ASSUME NEW j \in Containers, Holds(j), Reminder!Key(j) # Reminder!Key(k)
           PROVE  Row(j)' = Row(j) /\ (Unclaimed(j) => Unclaimed(j)')
      <3>1. Row(j)' = Row(j)
        BY <1>3, <1>5, <2>8, <2>11, KeyIsKey DEF Row
      <3>2. QED
        BY <2>8, <2>9, <2>11, <3>1 DEF Unclaimed
    <2>12. RowsOwned'
      <3>1. SUFFICES ASSUME NEW j \in Containers
                     PROVE  /\ Claiming(j)' =>
                                 /\ Row(j)'.status = "claimed" /\ Row(j)'.at = reminderRun'[j].now
                                 /\ \A i \in Containers : Claiming(i)' /\ Reminder!Key(i)' = Reminder!Key(j)' => i = j
                            /\ reminderRun'[j].pc = "consume" =>
                                 /\ Row(j)'.status = "delivered" \/ (Row(j)'.status = "claimed" /\ Row(j)'.at = reminderRun'[j].now)
                                 /\ Unclaimed(j)'
        BY DEF RowsOwned
      <3>2. CASE j = k
        <4>1. \A i \in Containers : Claiming(i)' /\ Reminder!Key(i)' = Reminder!Key(j)' => i = j
          BY <2>7, <2>8, <2>9, <3>2
        <4>2. QED
          BY <2>1, <2>10, <3>2, <4>1
      <3>3. CASE j # k /\ Claiming(j)'
        <4>1. Claiming(j) /\ Holds(j) /\ Reminder!Key(j) # Reminder!Key(k) /\ reminderRun'[j] = reminderRun[j]
          BY <2>7, <2>9, <3>3, HoldersAre
        <4>2. Row(j)' = Row(j)
          BY <2>11, <4>1
        <4>3. \A i \in Containers : Claiming(i)' /\ Reminder!Key(i)' = Reminder!Key(j)' => i = j
          BY <2>8, <2>9, <4>1 DEF ReminderInv, RowsOwned
        <4>4. QED
          BY <3>3, <4>1, <4>2, <4>3 DEF ReminderInv, RowsOwned, Claiming
      <3>4. CASE j # k /\ reminderRun'[j].pc = "consume"
        <4>1. reminderRun[j].pc = "consume" /\ Holds(j) /\ Reminder!Key(j) # Reminder!Key(k) /\ reminderRun'[j] = reminderRun[j]
          BY <2>7, <2>9, <3>4, HoldersAre
        <4>2. Row(j)' = Row(j) /\ (Unclaimed(j) => Unclaimed(j)')
          BY <2>11, <4>1
        <4>3. QED
          BY <3>4, <4>1, <4>2 DEF ReminderInv, RowsOwned, Claiming
      <3>5. QED
        BY <3>2, <3>3, <3>4
    <2>13. PushesSettled'
      <3>1. SUFFICES ASSUME NEW s \in Reminder!Saves, s \notin unsettled' PROVE PushedFor(s)'
        BY DEF PushesSettled
      <3>2. PushedFor(s)
        BY <1>1, <3>1 DEF ReminderInv, PushesSettled
      <3>3. \A j \in Containers : Concluding(j)' <=> Concluding(j)
        BY <1>2, <2>9, <2>10
      <3>4. \A i, j \in Containers : Concluding(i)' /\ Concluding(j)' /\ SaveOf(i)' = s /\ SaveOf(j)' = s => i = j
        BY <2>8, <3>2, <3>3 DEF PushedFor
      <3>5. ASSUME Done(s) PROVE Done(s)'
        <4>1. SUFFICES ASSUME NEW j \in Containers, Holds(j)', SaveOf(j)' = s
                       PROVE  reminderRun'[j].pc = "serve" /\ Blocked(j)'
          BY <1>1, <3>5 DEF Done
        <4>2. Holds(j) /\ reminderRun[j].pc = "serve" /\ Blocked(j)
          BY <2>8, <3>5, <4>1 DEF Done
        <4>3. Reminder!Key(j) # Reminder!Key(k) /\ j # k
          BY <2>7, <4>2
        <4>4. QED
          BY <2>9, <2>11, <4>2, <4>3 DEF Blocked
      <3>6. QED
        BY <1>1, <2>8, <3>2, <3>3, <3>4, <3>5 DEF PushedFor
    <2>14. QED
      BY <2>4, <2>5, <2>6, <2>12, <2>13 DEF ReminderInv
  <1>6. QED
    BY <1>1, <1>4, <1>5, ClaimTest

LEMMA FewerHolders ==
    ASSUME ReminderInv, UNCHANGED <<reminderPushes, edits>>, item' \in {item, Reminder!NoItem},
           \A j \in Containers : Holds(j)' => Holds(j) /\ SaveOf(j)' = SaveOf(j) /\ reminderRun'[j] = reminderRun[j]
    PROVE  SavesAgree'
  <1>1. Reminder!NoItem.save = 0 /\ \A s \in Reminder!Saves : s # 0
    BY ReminderParameters DEF Reminder!NoItem, Reminder!Saves
  <1>2. edits \in Nat
    BY ReminderParameters DEF ReminderInv, ReminderTypes
  <1>3. item'.save <= edits + 1
    BY <1>1, <1>2 DEF ReminderInv, SavesAgree
  <1>4. \A s \in Reminder!Saves : reminderPushes[s] # 0 => s <= edits + 1
    BY DEF ReminderInv, SavesAgree
  <1>5. ASSUME NEW j \in Containers, Holds(j)'
        PROVE  SaveOf(j)' <= edits + 1 /\ (SaveOf(j)' = item'.save => reminderRun'[j].item = item')
    <2>1. SaveOf(j) \in Reminder!Saves
      BY <1>5, HoldersRun
    <2>2. SaveOf(j) <= edits + 1 /\ (SaveOf(j) = item.save => reminderRun[j].item = item)
      BY <1>5 DEF ReminderInv, SavesAgree
    <2>3. QED
      BY <1>1, <1>5, <2>1, <2>2
  <1>6. \A i, j \in Containers : Holds(i)' /\ Holds(j)' /\ SaveOf(i)' = SaveOf(j)' => reminderRun'[i].item = reminderRun'[j].item
    BY DEF ReminderInv, SavesAgree
  <1>7. QED
    BY <1>3, <1>4, <1>5, <1>6 DEF SavesAgree

\* A run that sends, or has sent, holds the only claim of its row.
LEMMA ClaimIsAlone ==
    ASSUME ReminderInv, NEW k \in Containers, Claiming(k), NEW j \in Containers, j # k, Holds(j)
    PROVE  /\ Claiming(j) \/ Concluding(j) \/ Unclaimed(j) => Reminder!Key(j) # Reminder!Key(k)
  <1>1. Claiming(j) => Reminder!Key(j) # Reminder!Key(k)
    BY DEF ReminderInv, RowsOwned
  <1>2. Unclaimed(j) => Reminder!Key(j) # Reminder!Key(k)
    BY DEF Unclaimed
  <1>3. Concluding(j) => Claiming(j) \/ Unclaimed(j)
    BY HoldersAre DEF ReminderInv, RowsOwned, Claiming
  <1>4. QED
    BY <1>1, <1>2, <1>3

\* A run that lets its claim be, or writes its row: the rows of the others stand.
LEMMA RowWritten ==
    ASSUME ReminderInv, NEW k \in Containers, Claiming(k), NEW row,
           reminderLog' \in {reminderLog, [reminderLog EXCEPT ![Reminder!Key(k)] = row]},
           NEW j \in Containers, j # k, Holds(j), Claiming(j) \/ Concluding(j) \/ Unclaimed(j), Reminder!Key(j)' = Reminder!Key(j)
    PROVE  Row(j)' = Row(j)
  <1>1. Reminder!Key(j) # Reminder!Key(k)
    BY ClaimIsAlone
  <1>2. Reminder!Key(j) \in Reminder!Keys /\ reminderLog \in [Reminder!Keys -> Reminder!Entries]
    BY KeyIsKey DEF ReminderInv, ReminderTypes
  <1>3. reminderLog'[Reminder!Key(j)] = reminderLog[Reminder!Key(j)]
    BY <1>1, <1>2
  <1>4. QED
    BY <1>3 DEF Row

\* The run of container k goes on from a claim of its own.
LEMMA OwnerMovesOn ==
    ASSUME ReminderInv, NEW k \in Containers, Claiming(k), MovesOn(k), NEW row,
           reminderLog' \in {reminderLog, [reminderLog EXCEPT ![Reminder!Key(k)] = row]},
           /\ Claiming(k)' /\ Row(k)' = Row(k)
           \/ /\ reminderRun'[k].pc = "consume"
              /\ Row(k)'.status = "delivered" \/ (Row(k)'.status = "claimed" /\ Row(k)'.at = reminderRun[k].now)
    PROVE  RowsOwned'
  <1>1. Holds(k)
    BY HoldersAre
  <1>2. \A j \in Containers : /\ Holds(j)' = Holds(j) /\ SaveOf(j)' = SaveOf(j) /\ Reminder!Key(j)' = Reminder!Key(j)
                              /\ reminderRun'[j].now = reminderRun[j].now
    BY <1>1, HandsStand
  <1>3. \A j \in Containers \ {k} : Claiming(j)' = Claiming(j) /\ reminderRun'[j] = reminderRun[j]
    BY <1>1, HandsStand
  <1>4. \A j \in Containers : Claiming(j)' => Claiming(j)
    BY <1>3
  <1>5. ASSUME NEW j \in Containers PROVE Unclaimed(j) => Unclaimed(j)'
    BY <1>2, <1>4 DEF Unclaimed
  <1>6. SUFFICES ASSUME NEW j \in Containers
                 PROVE  /\ Claiming(j)' =>
                             /\ Row(j)'.status = "claimed" /\ Row(j)'.at = reminderRun'[j].now
                             /\ \A i \in Containers : Claiming(i)' /\ Reminder!Key(i)' = Reminder!Key(j)' => i = j
                        /\ reminderRun'[j].pc = "consume" =>
                             /\ Row(j)'.status = "delivered" \/ (Row(j)'.status = "claimed" /\ Row(j)'.at = reminderRun'[j].now)
                             /\ Unclaimed(j)'
    BY DEF RowsOwned
  <1>7. CASE Claiming(j)'
    <2>1. Claiming(j) /\ Holds(j)
      BY <1>4, <1>7, HoldersAre
    <2>2. Row(j)' = Row(j)
      <3>1. CASE j = k
        BY <1>7, <3>1 DEF Claiming
      <3>2. CASE j # k
        BY <1>2, <2>1, <3>2, RowWritten
      <3>3. QED
        BY <3>1, <3>2
    <2>3. \A i \in Containers : Claiming(i)' /\ Reminder!Key(i)' = Reminder!Key(j)' => i = j
      BY <1>2, <1>4, <2>1 DEF ReminderInv, RowsOwned
    <2>4. reminderRun'[j].pc # "consume"
      BY <1>7 DEF Claiming
    <2>5. QED
      BY <1>2, <2>1, <2>2, <2>3, <2>4 DEF ReminderInv, RowsOwned
  <1>8. CASE j = k /\ reminderRun'[k].pc = "consume"
    <2>1. ~Claiming(k)'
      BY <1>8 DEF Claiming
    <2>2. \A i \in Containers : Claiming(i)' => Reminder!Key(i)' # Reminder!Key(k)'
      BY <1>2, <1>3, <1>4, <2>1 DEF ReminderInv, RowsOwned
    <2>3. Unclaimed(k)'
      BY <2>2 DEF Unclaimed
    <2>4. QED
      BY <1>2, <1>8, <2>1, <2>3
  <1>9. CASE j # k /\ reminderRun'[j].pc = "consume"
    <2>1. reminderRun[j].pc = "consume" /\ Holds(j) /\ Concluding(j) /\ reminderRun'[j] = reminderRun[j]
      BY <1>3, <1>9, HoldersAre
    <2>2. Row(j)' = Row(j)
      BY <1>2, <1>9, <2>1, RowWritten
    <2>3. Unclaimed(j)'
      BY <1>5, <2>1 DEF ReminderInv, RowsOwned
    <2>4. ~Claiming(j)'
      BY <1>9 DEF Claiming
    <2>5. QED
      BY <1>2, <2>1, <2>2, <2>3, <2>4 DEF ReminderInv, RowsOwned
  <1>10. QED
    BY <1>7, <1>8, <1>9

\* Who waits for a row that is taken still waits.
LEMMA StillDone ==
    ASSUME ReminderInv, NEW k \in Containers, Claiming(k), MovesOn(k), NEW row,
           reminderLog' \in {reminderLog, [reminderLog EXCEPT ![Reminder!Key(k)] = row]},
           item' \in {item, Reminder!NoItem}, NEW s \in Reminder!Saves, Done(s), SaveOf(k) # s
    PROVE  Done(s)'
  <1>1. Holds(k)
    BY HoldersAre
  <1>2. \A j \in Containers : /\ Holds(j)' = Holds(j) /\ SaveOf(j)' = SaveOf(j) /\ Reminder!Key(j)' = Reminder!Key(j)
    BY <1>1, HandsStand
  <1>3. \A j \in Containers \ {k} : Claiming(j)' = Claiming(j) /\ reminderRun'[j] = reminderRun[j]
    BY <1>1, HandsStand
  <1>4. \A j \in Containers : Claiming(j)' => Claiming(j)
    BY <1>3
  <1>5. item'.save # s
    BY ReminderParameters DEF Done, Reminder!NoItem, Reminder!Saves
  <1>6. SUFFICES ASSUME NEW j \in Containers, Holds(j)', SaveOf(j)' = s
                 PROVE  reminderRun'[j].pc = "serve" /\ Blocked(j)'
    BY <1>5 DEF Done
  <1>7. j # k /\ Holds(j) /\ reminderRun[j].pc = "serve" /\ Blocked(j)
    BY <1>2, <1>6 DEF Done
  <1>8. Row(j)' = Row(j)
    BY <1>2, <1>7, RowWritten DEF Blocked
  <1>9. Unclaimed(j)'
    BY <1>2, <1>4, <1>7 DEF Unclaimed, Blocked
  <1>10. QED
    BY <1>3, <1>7, <1>8, <1>9 DEF Blocked

LEMMA ConfirmKeeps == ASSUME ReminderInv, NEW k \in Containers, Reminder!ConfirmReminder(k) PROVE ReminderInv'
  <1> DEFINE row == [status |-> "delivered", at |-> reminderRun[k].now]
  <1>1. /\ reminderRun[k].pc = "confirm" /\ reminderRun' = [reminderRun EXCEPT ![k].pc = "consume"]
        /\ UNCHANGED <<reminderClock, entry, item, listing, served, reminderPushes, unsettled, due, edits>>
        /\ Reminder!Fails \/ Reminder!Works
        /\ reminderLog' = reminderLog \/ reminderLog' = [reminderLog EXCEPT ![Reminder!Key(k)] = row]
    BY DEF Reminder!ConfirmReminder, Reminder!Goto, Reminder!history, Reminder!Confirm
  <1>2. Holds(k) /\ Claiming(k) /\ Concluding(k)
    BY <1>1 DEF Concluding, Holds, Holding, Claiming
  <1>3. MovesOn(k) /\ reminderRun'[k].pc = "consume"
    BY <1>1, <1>2, GoesTo DEF Holding
  <1>4. Reminder!Key(k) \in Reminder!Keys /\ reminderRun[k].now \in Nat /\ reminderLog \in [Reminder!Keys -> Reminder!Entries]
    BY <1>2, KeyIsKey, HoldersRun DEF ReminderRun, ReminderInv, ReminderTypes
  <1>5. row \in Reminder!Entries /\ row.status = "delivered"
    BY <1>4 DEF Reminder!Entries
  <1> HIDE DEF row
  <1>6. reminderLog' \in [Reminder!Keys -> Reminder!Entries]
    BY <1>1, <1>4, <1>5
  <1>7. /\ reminderPushes' \in [Reminder!Saves -> Nat] /\ unsettled' \subseteq Reminder!Saves
        /\ due' \subseteq due /\ reminderFaults' \in 0..MaxReminderFaults
    BY <1>1, FaultsCounted DEF ReminderInv, ReminderTypes
  <1>8. ReminderTypes' /\ RunsInHand'
    BY <1>1, <1>3, <1>6, <1>7, MovesOnTypes
  <1>9. SavesAgree'
    BY <1>1, <1>2, <1>3, MovesOnAgrees
  <1>10. DuesFaced'
    BY <1>1, <1>2, <1>3, MovesOnFaces
  <1>11. \A j \in Containers : /\ Holds(j)' = Holds(j) /\ SaveOf(j)' = SaveOf(j) /\ Reminder!Key(j)' = Reminder!Key(j)
                               /\ (j # k => Concluding(j)' = Concluding(j))
    BY <1>2, <1>3, HandsStand
  <1>12. reminderLog' \in {reminderLog, [reminderLog EXCEPT ![Reminder!Key(k)] = row]}
    BY <1>1
  <1>13. Row(k)'.status = "delivered" \/ (Row(k)'.status = "claimed" /\ Row(k)'.at = reminderRun[k].now)
    <2>1. CASE reminderLog' = reminderLog
      BY <1>2, <1>11, <2>1 DEF ReminderInv, RowsOwned, Row
    <2>2. CASE reminderLog' = [reminderLog EXCEPT ![Reminder!Key(k)] = row]
      BY <1>4, <1>5, <1>11, <2>2 DEF Row
    <2>3. QED
      BY <1>1, <2>1, <2>2
  <1>14. RowsOwned'
    BY <1>2, <1>3, <1>12, <1>13, OwnerMovesOn
  <1>15. PushesSettled'
    <2>1. SUFFICES ASSUME NEW s \in Reminder!Saves, s \notin unsettled PROVE PushedFor(s)'
      BY <1>1 DEF PushesSettled
    <2>2. PushedFor(s)
      BY <2>1 DEF ReminderInv, PushesSettled
    <2>3. \A j \in Containers : Concluding(j)' <=> Concluding(j)
      BY <1>2, <1>3, <1>11 DEF Concluding
    <2>4. \A i, j \in Containers : Concluding(i)' /\ Concluding(j)' /\ SaveOf(i)' = s /\ SaveOf(j)' = s => i = j
      BY <1>11, <2>2, <2>3 DEF PushedFor
    <2>5. Done(s) => SaveOf(k) # s
      BY <1>1, <1>2 DEF Done
    <2>6. Done(s) => Done(s)'
      BY <1>1, <1>2, <1>3, <1>12, <2>5, StillDone
    <2>7. QED
      BY <1>1, <1>11, <2>2, <2>3, <2>4, <2>6 DEF PushedFor
  <1>16. QED
    BY <1>8, <1>9, <1>10, <1>14, <1>15 DEF ReminderInv

LEMMA ReleaseKeeps == ASSUME ReminderInv, NEW k \in Containers, Reminder!ReleaseReminder(k) PROVE ReminderInv'
  <1>1. /\ reminderRun[k].pc = "release"
        /\ reminderRun' = [reminderRun EXCEPT ![k].pc = "scan", ![k].item = Reminder!NoItem]
        /\ UNCHANGED <<reminderClock, entry, item, listing, served, reminderPushes, unsettled, due, edits>>
        /\ Reminder!Fails \/ Reminder!Works
        /\ reminderLog' = reminderLog \/ reminderLog' = [reminderLog EXCEPT ![Reminder!Key(k)] = Reminder!NoEntry]
    BY DEF Reminder!ReleaseReminder, Reminder!Back, Reminder!history, Reminder!Release
  <1>2. Holds(k) /\ Claiming(k) /\ ~Concluding(k) /\ reminderRun[k] # Reminder!Idle
    BY <1>1 DEF Concluding, Holds, Holding, Claiming, Reminder!Idle
  <1>3. WentBack(k)
    BY <1>1, <1>2, GoesBack
  <1>4. Reminder!Key(k) \in Reminder!Keys /\ reminderLog \in [Reminder!Keys -> Reminder!Entries]
        /\ Reminder!NoEntry \in Reminder!Entries
    BY <1>2, KeyIsKey DEF ReminderInv, ReminderTypes, Reminder!NoEntry, Reminder!Entries
  <1>5. /\ reminderLog' \in [Reminder!Keys -> Reminder!Entries] /\ item' \in {item, Reminder!NoItem}
        /\ reminderPushes' \in [Reminder!Saves -> Nat] /\ unsettled' \subseteq Reminder!Saves
        /\ served' \in [Containers -> (0..MaxReminderClock) \cup {Reminder!Never}]
        /\ due' \subseteq due /\ reminderFaults' \in 0..MaxReminderFaults
    BY <1>1, <1>4, FaultsCounted DEF ReminderInv, ReminderTypes
  <1>6. ReminderTypes' /\ RunsInHand'
    BY <1>1, <1>3, <1>5, RunStepTypes DEF WentBack
  <1>7. DuesFaced'
    <2>1. \A d \in due' : Faces(k, d) => Faces(k, d)'
      BY <1>1, <1>3, BackStillFaces
    <2>2. QED
      BY <1>1, <1>2, <1>3, <2>1, DuesKept DEF WentBack
  <1>8. ~Holds(k)' /\ ~Claiming(k)' /\ ~Concluding(k)' /\ reminderRun'[k].pc = "scan"
    BY <1>3 DEF WentBack, Holds, Holding, Claiming, Concluding
  <1>9. \A j \in Containers \ {k} :
           /\ Holds(j)' = Holds(j) /\ SaveOf(j)' = SaveOf(j) /\ Reminder!Key(j)' = Reminder!Key(j)
           /\ Claiming(j)' = Claiming(j) /\ Concluding(j)' = Concluding(j) /\ reminderRun'[j] = reminderRun[j]
    BY <1>3, OtherRunStands DEF WentBack
  <1>10. ASSUME NEW j \in Containers, j # k, Holds(j), Claiming(j) \/ Concluding(j) \/ Unclaimed(j)
         PROVE  Row(j)' = Row(j) /\ (Unclaimed(j) => Unclaimed(j)')
    <2>1. Row(j)' = Row(j)
      BY <1>1, <1>2, <1>9, <1>10, RowWritten
    <2>2. QED
      BY <1>8, <1>9, <1>10, <2>1 DEF Unclaimed
  <1>11. SavesAgree'
    <2>1. \A j \in Containers : Holds(j)' => Holds(j) /\ SaveOf(j)' = SaveOf(j) /\ reminderRun'[j] = reminderRun[j]
      BY <1>8, <1>9
    <2>2. QED
      BY <1>1, <2>1, FewerHolders
  <1>12. RowsOwned'
    <2>1. SUFFICES ASSUME NEW j \in Containers, j # k
                   PROVE  /\ Claiming(j) =>
                               /\ Row(j)'.status = "claimed" /\ Row(j)'.at = reminderRun[j].now
                               /\ \A i \in Containers : Claiming(i)' /\ Reminder!Key(i)' = Reminder!Key(j)' => i = j
                          /\ reminderRun[j].pc = "consume" =>
                               /\ Row(j)'.status = "delivered" \/ (Row(j)'.status = "claimed" /\ Row(j)'.at = reminderRun[j].now)
                               /\ Unclaimed(j)'
      BY <1>8, <1>9 DEF RowsOwned
    <2>2. CASE Claiming(j)
      <3>1. Row(j)' = Row(j) /\ reminderRun[j].pc # "consume"
        BY <1>10, <2>1, <2>2, HoldersAre DEF Claiming
      <3>2. \A i \in Containers : Claiming(i)' /\ Reminder!Key(i)' = Reminder!Key(j)' => i = j
        BY <1>8, <1>9, <2>1, <2>2 DEF ReminderInv, RowsOwned
      <3>3. QED
        BY <2>2, <3>1, <3>2 DEF ReminderInv, RowsOwned
    <2>3. CASE reminderRun[j].pc = "consume"
      <3>1. Holds(j) /\ Concluding(j) /\ ~Claiming(j)
        BY <2>3, HoldersAre DEF Claiming
      <3>2. Row(j)' = Row(j) /\ (Unclaimed(j) => Unclaimed(j)')
        BY <1>10, <2>1, <3>1
      <3>3. QED
        BY <2>3, <3>1, <3>2 DEF ReminderInv, RowsOwned
    <2>4. QED
      BY <2>2, <2>3
  <1>13. PushesSettled'
    <2>1. SUFFICES ASSUME NEW s \in Reminder!Saves, s \notin unsettled PROVE PushedFor(s)'
      BY <1>1 DEF PushesSettled
    <2>2. PushedFor(s)
      BY <2>1 DEF ReminderInv, PushesSettled
    <2>3. \A j \in Containers : (Concluding(j)' <=> Concluding(j)) /\ (Concluding(j) => SaveOf(j)' = SaveOf(j))
      BY <1>2, <1>8, <1>9
    <2>4. \A i, j \in Containers : Concluding(i)' /\ Concluding(j)' /\ SaveOf(i)' = s /\ SaveOf(j)' = s => i = j
      BY <2>2, <2>3 DEF PushedFor
    <2>5. ASSUME Done(s) PROVE Done(s)'
      <3>1. SUFFICES ASSUME NEW j \in Containers, Holds(j)', SaveOf(j)' = s
                     PROVE  reminderRun'[j].pc = "serve" /\ Blocked(j)'
        BY <1>1, <2>5 DEF Done
      <3>2. j # k /\ Holds(j) /\ reminderRun[j].pc = "serve" /\ Blocked(j) /\ reminderRun'[j] = reminderRun[j]
        BY <1>8, <1>9, <2>5, <3>1 DEF Done
      <3>3. Row(j)' = Row(j) /\ Unclaimed(j)'
        BY <1>10, <3>2 DEF Blocked
      <3>4. QED
        BY <3>2, <3>3 DEF Blocked
    <2>6. QED
      BY <1>1, <2>2, <2>3, <2>4, <2>5 DEF PushedFor
  <1>14. QED
    BY <1>6, <1>7, <1>11, <1>12, <1>13 DEF ReminderInv

LEMMA HeldIsSame ==
    ASSUME ReminderInv, NEW k \in Containers, Holds(k), ~Reminder!HeldElsewhere(k),
           NEW j \in Containers, j # k, Holds(j), SaveOf(j) = SaveOf(k)
    PROVE  reminderRun[j].item = reminderRun[k].item /\ Reminder!Key(j) = Reminder!Key(k)
  <1>1. reminderRun[j].item = reminderRun[k].item
    BY DEF ReminderInv, SavesAgree
  <1>2. reminderRun[j].start = reminderRun[k].start
    BY <1>1, HoldersRun DEF Reminder!HeldElsewhere
  <1>3. QED
    BY <1>1, <1>2 DEF Reminder!Key

LEMMA PushKeeps == ASSUME ReminderInv, NEW k \in Containers, Reminder!Push(k) PROVE ReminderInv'
  <1>1. PICK accepted \in BOOLEAN, sent \in BOOLEAN :
          /\ sent => accepted
          /\ Reminder!Works \/ Reminder!Fails
          /\ reminderPushes' = [reminderPushes EXCEPT ![SaveOf(k)] = IF accepted THEN @ + 1 ELSE @]
          /\ unsettled' = IF sent = accepted /\ ~Reminder!HeldElsewhere(k) THEN unsettled ELSE unsettled \cup {SaveOf(k)}
          /\ reminderRun' = [reminderRun EXCEPT ![k].pc = IF sent THEN "confirm" ELSE "release"]
    BY DEF Reminder!Push, Reminder!Goto, SaveOf
  <1>2. /\ reminderRun[k].pc = "push"
        /\ UNCHANGED <<reminderClock, reminderLog, entry, item, listing, served, due, edits>>
    BY DEF Reminder!Push, Reminder!stores
  <1>3. Holds(k) /\ Claiming(k) /\ ~Concluding(k) /\ SaveOf(k) \in Reminder!Saves
    BY <1>2, HoldersRun DEF Concluding, Holds, Holding, Claiming
  <1>4. MovesOn(k) /\ reminderRun'[k].pc \in {"confirm", "release"} /\ reminderRun'[k].pc = IF sent THEN "confirm" ELSE "release"
    BY <1>1, <1>3, GoesTo DEF Holding
  <1>5. reminderPushes \in [Reminder!Saves -> Nat] /\ unsettled \subseteq Reminder!Saves
    BY DEF ReminderInv, ReminderTypes
  <1>6. reminderPushes' \in [Reminder!Saves -> Nat]
    <2>1. reminderPushes[SaveOf(k)] \in Nat
      BY <1>3, <1>5
    <2>2. (IF accepted THEN reminderPushes[SaveOf(k)] + 1 ELSE reminderPushes[SaveOf(k)]) \in Nat
      BY <2>1
    <2>3. QED
      BY <1>1, <1>5, <2>2
  <1>7. unsettled' \subseteq Reminder!Saves /\ unsettled \subseteq unsettled'
    BY <1>1, <1>3, <1>5
  <1>8. ReminderTypes' /\ RunsInHand'
    <2>1. reminderLog' \in [Reminder!Keys -> Reminder!Entries] /\ due' \subseteq due /\ reminderFaults' \in 0..MaxReminderFaults
      BY <1>1, <1>2, FaultsCounted DEF ReminderInv, ReminderTypes
    <2>2. QED
      BY <1>2, <1>4, <1>6, <1>7, <2>1, MovesOnTypes
  <1>9. \A s \in Reminder!Saves : s # SaveOf(k) \/ ~accepted => reminderPushes'[s] = reminderPushes[s]
    BY <1>1, <1>3, <1>5
  <1>10. SavesAgree'
    BY <1>2, <1>3, <1>4, <1>9, MovesOnAgrees
  <1>11. DuesFaced'
    BY <1>2, <1>3, <1>4, MovesOnFaces
  <1>12. \A j \in Containers : /\ Holds(j)' = Holds(j) /\ SaveOf(j)' = SaveOf(j) /\ Reminder!Key(j)' = Reminder!Key(j)
                               /\ (j # k => Concluding(j)' = Concluding(j))
    BY <1>3, <1>4, HandsStand
  <1>13. Concluding(k)' => sent
    BY <1>4 DEF Concluding
  <1>14. RowsOwned'
    <2>1. Claiming(k)' /\ Row(k)' = Row(k)
      BY <1>2, <1>4, <1>12 DEF Claiming, Row
    <2>2. QED
      BY <1>2, <1>3, <1>4, <2>1, OwnerMovesOn
  <1>15. PushesSettled'
    <2>1. SUFFICES ASSUME NEW s \in Reminder!Saves, s \notin unsettled' PROVE PushedFor(s)'
      BY DEF PushesSettled
    <2>2. PushedFor(s)
      BY <1>7, <2>1 DEF ReminderInv, PushesSettled
    <2>3. CASE SaveOf(k) # s \/ ~accepted
      <3>1. reminderPushes'[s] = reminderPushes[s]
        BY <1>9, <2>3
      <3>2. \A j \in Containers : SaveOf(j) = s => (Concluding(j)' <=> Concluding(j))
        BY <1>1, <1>3, <1>12, <1>13, <2>3
      <3>3. \A i, j \in Containers : Concluding(i)' /\ Concluding(j)' /\ SaveOf(i)' = s /\ SaveOf(j)' = s => i = j
        BY <1>12, <2>2, <3>2 DEF PushedFor
      <3>4. Done(s) => SaveOf(k) # s
        BY <1>2, <1>3 DEF Done
      <3>5. Done(s) => Done(s)'
        BY <1>2, <1>3, <1>4, <3>4, StillDone
      <3>6. QED
        BY <1>12, <2>2, <3>1, <3>2, <3>3, <3>5 DEF PushedFor
    <2>4. CASE SaveOf(k) = s /\ accepted
      <3>1. sent /\ ~Reminder!HeldElsewhere(k)
        BY <1>1, <2>1, <2>4
      <3>2. \A j \in Containers : Concluding(j) => SaveOf(j) # s
        <4>1. SUFFICES ASSUME NEW j \in Containers, Concluding(j), SaveOf(j) = s PROVE FALSE
          OBVIOUS
        <4>2. j # k /\ Holds(j)
          BY <1>3, <4>1, HoldersAre
        <4>3. Reminder!Key(j) = Reminder!Key(k)
          BY <1>3, <2>4, <3>1, <4>1, <4>2, HeldIsSame
        <4>4. QED
          BY <1>3, <4>1, <4>2, <4>3, ClaimIsAlone
      <3>3. ~Done(s)
        BY <1>2, <1>3, <2>4 DEF Done
      <3>4. reminderPushes[s] = 0
        BY <2>2, <3>2, <3>3 DEF PushedFor
      <3>5. reminderPushes'[s] = 1
        BY <1>1, <1>3, <1>5, <2>4, <3>4
      <3>6. Concluding(k)' /\ SaveOf(k)' = s
        BY <1>4, <1>12, <2>4, <3>1 DEF Concluding
      <3>7. \A i \in Containers : Concluding(i)' /\ SaveOf(i)' = s => i = k
        BY <1>12, <3>2
      <3>8. QED
        BY <3>5, <3>6, <3>7 DEF PushedFor
    <2>5. QED
      BY <2>3, <2>4
  <1>16. QED
    BY <1>8, <1>10, <1>11, <1>14, <1>15 DEF ReminderInv

LEMMA ConsumeKeeps == ASSUME ReminderInv, NEW k \in Containers, Reminder!ConsumeReminder(k) PROVE ReminderInv'
  <1>1. /\ reminderRun[k].pc = "consume"
        /\ reminderRun' = [reminderRun EXCEPT ![k].pc = "scan", ![k].item = Reminder!NoItem]
        /\ UNCHANGED <<reminderClock, reminderLog, entry, listing, served, reminderPushes, due, edits>>
        /\ \/ /\ Reminder!Works /\ item' = Reminder!NoItem
              /\ unsettled' = unsettled \cup {s \in {SaveOf(k)} : Reminder!HeldElsewhere(k)}
           \/ Reminder!Fails /\ UNCHANGED item /\ unsettled' = unsettled \cup {SaveOf(k)}
    BY DEF Reminder!ConsumeReminder, Reminder!Back, Reminder!Consumes, SaveOf
  <1>2. Holds(k) /\ ~Claiming(k) /\ Concluding(k) /\ reminderRun[k] # Reminder!Idle /\ SaveOf(k) \in Reminder!Saves
    BY <1>1, HoldersRun DEF Concluding, Holds, Holding, Claiming, Reminder!Idle
  <1>3. WentBack(k)
    BY <1>1, <1>2, GoesBack
  <1>4. unsettled \subseteq unsettled' /\ unsettled' \subseteq Reminder!Saves
    BY <1>1, <1>2 DEF ReminderInv, ReminderTypes
  <1>5. reminderRun'[k].pc \notin Holding /\ ReminderRun(reminderRun'[k])
    BY <1>3 DEF Holding, WentBack
  <1>6. /\ reminderLog' \in [Reminder!Keys -> Reminder!Entries] /\ item' \in {item, Reminder!NoItem}
        /\ reminderPushes' \in [Reminder!Saves -> Nat] /\ due' \subseteq due /\ reminderFaults' \in 0..MaxReminderFaults
        /\ served' \in [Containers -> (0..MaxReminderClock) \cup {Reminder!Never}]
    BY <1>1, FaultsCounted DEF ReminderInv, ReminderTypes
  <1>7. CASE UNCHANGED item /\ unsettled' = unsettled \cup {SaveOf(k)}
    <2>1. \A d \in due' : Faces(k, d) => Faces(k, d)'
      BY <1>1, <1>3, <1>7, BackStillFaces
    <2>2. Concluding(k) => SaveOf(k) \in unsettled'
      BY <1>7
    <2>3. /\ reminderRun' = [j \in Containers |-> reminderRun'[j]]
          /\ \A j \in Containers \ {k} : reminderRun'[j] = reminderRun[j]
      BY <1>3 DEF WentBack
    <2>4. UNCHANGED <<reminderClock, reminderLog, entry, item, listing, reminderPushes, edits, served>>
      BY <1>1, <1>7
    <2>5. QED
      BY <1>2, <1>4, <1>5, <1>6, <2>1, <2>2, <2>3, <2>4, GivesUp
  <1>8. CASE item' = Reminder!NoItem /\ unsettled' = unsettled \cup {s \in {SaveOf(k)} : Reminder!HeldElsewhere(k)}
    <2>1. ReminderTypes' /\ RunsInHand'
      BY <1>1, <1>3, <1>4, <1>5, <1>6, RunStepTypes DEF WentBack
    <2>2. \A j \in Containers \ {k} :
             /\ Holds(j)' = Holds(j) /\ SaveOf(j)' = SaveOf(j) /\ Reminder!Key(j)' = Reminder!Key(j)
             /\ Claiming(j)' = Claiming(j) /\ Concluding(j)' = Concluding(j) /\ reminderRun'[j] = reminderRun[j]
      BY <1>3, OtherRunStands DEF WentBack
    <2>3. ~Holds(k)' /\ ~Claiming(k)' /\ ~Concluding(k)'
      BY <1>3 DEF WentBack, Holds, Holding, Claiming, Concluding
    <2>4. \A j \in Containers : Holds(j)' => /\ j # k /\ Holds(j) /\ SaveOf(j)' = SaveOf(j) /\ reminderRun'[j] = reminderRun[j]
                                             /\ SaveOf(j) \in Reminder!Saves /\ Row(j)' = Row(j)
      BY <1>1, <2>2, <2>3, HoldersRun DEF Row
    <2>5. item'.save = 0 /\ \A s \in Reminder!Saves : s # 0
      BY <1>8, ReminderParameters DEF Reminder!NoItem, Reminder!Saves
    <2>6. ASSUME NEW j \in Containers, j # k PROVE Unclaimed(j) => Unclaimed(j)'
      BY <2>2, <2>3, <2>6 DEF Unclaimed
    <2>7. SavesAgree'
      BY <1>1, <1>8, <2>4, FewerHolders
    <2>8. RowsOwned'
      <3>1. SUFFICES ASSUME NEW j \in Containers, j # k
                     PROVE  /\ Claiming(j) =>
                                 /\ Row(j)'.status = "claimed" /\ Row(j)'.at = reminderRun[j].now
                                 /\ \A i \in Containers : Claiming(i)' /\ Reminder!Key(i)' = Reminder!Key(j)' => i = j
                            /\ reminderRun[j].pc = "consume" =>
                                 /\ Row(j)'.status = "delivered" \/ (Row(j)'.status = "claimed" /\ Row(j)'.at = reminderRun[j].now)
                                 /\ Unclaimed(j)'
        BY <1>3, <2>2, <2>3 DEF RowsOwned, WentBack
      <3>2. Row(j)' = Row(j)
        BY <1>1, <2>2, <3>1 DEF Row
      <3>3. \A i \in Containers : Claiming(i)' => Claiming(i) /\ Reminder!Key(i)' = Reminder!Key(i)
        BY <2>2, <2>3
      <3>4. QED
        BY <2>2, <2>6, <3>1, <3>2, <3>3 DEF ReminderInv, RowsOwned
    <2>9. PushesSettled'
      <3>1. SUFFICES ASSUME NEW s \in Reminder!Saves, s \notin unsettled' PROVE PushedFor(s)'
        BY DEF PushesSettled
      <3>2. PushedFor(s)
        BY <1>4, <3>1 DEF ReminderInv, PushesSettled
      <3>3. \A i, j \in Containers : Concluding(i)' /\ Concluding(j)' /\ SaveOf(i)' = s /\ SaveOf(j)' = s => i = j
        BY <2>2, <2>3, <3>2 DEF PushedFor
      <3>4. CASE SaveOf(k) # s
        <4>1. ASSUME Done(s) PROVE Done(s)'
          <5>1. SUFFICES ASSUME NEW j \in Containers, Holds(j)', SaveOf(j)' = s
                         PROVE  reminderRun'[j].pc = "serve" /\ Blocked(j)'
            BY <2>5 DEF Done
          <5>2. j # k /\ reminderRun[j].pc = "serve" /\ Blocked(j) /\ Row(j)' = Row(j) /\ reminderRun'[j] = reminderRun[j]
            BY <2>4, <4>1, <5>1 DEF Done
          <5>3. QED
            BY <2>6, <5>2 DEF Blocked
        <4>2. ASSUME NEW j \in Containers, Concluding(j), SaveOf(j) = s PROVE Concluding(j)' /\ SaveOf(j)' = s
          BY <2>2, <3>4, <4>2
        <4>3. QED
          BY <1>1, <3>2, <3>3, <4>1, <4>2 DEF PushedFor
      <3>5. CASE SaveOf(k) = s
        <4>1. ~Reminder!HeldElsewhere(k)
          BY <1>8, <3>1, <3>5
        <4>2. Done(s)'
          <5>1. SUFFICES ASSUME NEW j \in Containers, Holds(j)', SaveOf(j)' = s
                         PROVE  reminderRun'[j].pc = "serve" /\ Blocked(j)'
            BY <2>5 DEF Done
          <5>2. j # k /\ Holds(j) /\ SaveOf(j) = s /\ reminderRun'[j] = reminderRun[j] /\ Row(j)' = Row(j)
            BY <2>4, <5>1
          <5>3. Reminder!Key(j) = Reminder!Key(k) /\ Row(j) = Row(k)
            BY <1>2, <3>5, <4>1, <5>2, HeldIsSame DEF Row
          <5>4. /\ Row(k).status = "delivered" \/ (Row(k).status = "claimed" /\ Row(k).at = reminderRun[k].now)
                /\ Unclaimed(k)
            BY <1>1 DEF ReminderInv, RowsOwned
          <5>5. ~Claiming(j) /\ Unclaimed(j)
            BY <5>3, <5>4 DEF Unclaimed
          <5>6. ~Concluding(j)
            BY <1>2, <3>2, <3>5, <5>2 DEF PushedFor
          <5>7. reminderRun[j].pc = "serve"
            BY <5>2, <5>5, <5>6, HoldersAre
          <5>8. reminderRun[j].now + LambdaLimit <= reminderRun[k].now + ReminderExpiry
            <6>1. /\ reminderRun[j].now \in Nat /\ reminderRun[j].now <= reminderClock
                  /\ reminderRun[k].now \in Nat /\ reminderClock <= reminderRun[k].now + LambdaLimit
                  /\ reminderClock \in Nat
              BY <1>2, <5>2, HoldersRun, ReminderParameters DEF ReminderRun, ReminderInv, ReminderTypes
            <6>2. QED
              BY <6>1, ReminderParameters
          <5>9. Blocked(j)
            BY <5>3, <5>4, <5>5, <5>8 DEF Blocked
          <5>10. QED
            BY <2>6, <5>2, <5>7, <5>9 DEF Blocked
        <4>3. reminderPushes'[s] <= 1
          BY <1>1, <3>2 DEF PushedFor
        <4>4. QED
          BY <3>3, <4>2, <4>3 DEF PushedFor
      <3>6. QED
        BY <3>4, <3>5
    <2>10. DuesFaced'
      <3>1. \A d \in due' : d[1] # item'.save
        BY <1>1, <2>5 DEF ReminderInv, ReminderTypes
      <3>2. QED
        BY <3>1 DEF DuesFaced
    <2>11. QED
      BY <2>1, <2>7, <2>8, <2>9, <2>10 DEF ReminderInv
  <1>9. QED
    BY <1>1, <1>7, <1>8

LEMMA ScanKeeps == ASSUME ReminderInv, NEW k \in Containers, Reminder!Scan(k) PROVE ReminderInv'
  <1> DEFINE instant == CHOOSE i \in reminderRun[k].todo : \A j \in reminderRun[k].todo : i <= j
             fewer == reminderRun[k].todo \ {instant}
  <1>1. /\ reminderRun[k].pc = "scan" /\ reminderRun[k].todo # {}
        /\ reminderRun' = [reminderRun EXCEPT ![k] =
              IF Reminder!Wanted(reminderRun[k], instant)
                THEN [reminderRun[k] EXCEPT !.todo = fewer, !.instant = instant, !.item = item, !.pc = "serve"]
                ELSE [reminderRun[k] EXCEPT !.todo = fewer]]
        /\ UNCHANGED <<reminderClock, reminderLog, entry, item, listing, served, reminderPushes, unsettled, due, edits, reminderFaults>>
    BY DEF Reminder!Scan, Reminder!stores, Reminder!history
  <1> HIDE DEF instant
  <1>2. reminderRun[k] # Reminder!Idle /\ ~Concluding(k) /\ ~Holds(k) /\ ~Claiming(k)
    BY <1>1 DEF Reminder!Idle, Concluding, Holds, Holding, Claiming
  <1>3. ReminderRun(reminderRun[k])
    BY <1>2 DEF ReminderInv, RunsInHand
  <1>4. reminderRun[k].start \in Starts /\ fewer \subseteq Minutes(reminderRun[k].start)
    BY <1>1, <1>3 DEF ReminderRun, Minutes
  <1>5. /\ reminderLog' \in [Reminder!Keys -> Reminder!Entries] /\ item' \in {item, Reminder!NoItem}
        /\ reminderPushes' \in [Reminder!Saves -> Nat] /\ due' \subseteq due /\ reminderFaults' \in 0..MaxReminderFaults
        /\ served' \in [Containers -> (0..MaxReminderClock) \cup {Reminder!Never}]
        /\ unsettled' \subseteq Reminder!Saves /\ unsettled \subseteq unsettled'
    BY <1>1 DEF ReminderInv, ReminderTypes
  <1>6. CASE ~Reminder!Wanted(reminderRun[k], instant)
    <2> DEFINE r == [reminderRun[k] EXCEPT !.todo = fewer]
    <2>1. reminderRun' = [reminderRun EXCEPT ![k] = r]
      BY <1>1, <1>6
    <2> HIDE DEF fewer
    <2>2. RunShape(r)
      BY <1>3, Reshaped DEF ReminderRun
    <2>3. /\ r.pc = "scan" /\ r.now = reminderRun[k].now /\ r.start = reminderRun[k].start /\ r.todo = fewer
          /\ r.complete = reminderRun[k].complete
      BY <1>1, <1>3 DEF ReminderRun, RunShape
    <2> HIDE DEF r
    <2>4. ReminderRun(r)
      BY <1>3, <1>4, <2>2, <2>3 DEF ReminderRun, Holding
    <2>5. reminderRun'[k] = r /\ reminderRun' = [j \in Containers |-> reminderRun'[j]]
          /\ \A j \in Containers \ {k} : reminderRun'[j] = reminderRun[j]
      BY <2>1, OneRunMoves
    <2>6. reminderRun'[k].pc \notin Holding /\ ReminderRun(reminderRun'[k])
      BY <2>3, <2>4, <2>5 DEF Holding
    <2>7. ASSUME NEW d \in due, d[1] = item.save, Faces(k, d) PROVE Faces(k, d)'
      <3>1. SUFFICES ASSUME served[k] # Reminder!Never, reminderRun[k].complete,
                            Reminder!LargestOf({served[k], reminderRun[k].now - Lookback}) < d[2], d[2] <= reminderRun[k].now,
                            Reminder!RecoveryAllows(item, d[3], reminderRun[k].now)
                     PROVE  reminderRun[k].start = d[3] /\ d[2] \in fewer
        BY <1>1, <2>3, <2>5 DEF Faces
      <3>2. reminderRun[k].start = d[3] /\ d[2] \in reminderRun[k].todo
        BY <1>1, <2>7, <3>1 DEF Faces
      <3>3. item # Reminder!NoItem
        BY <2>7, ItemFacts DEF ReminderInv, ReminderTypes
      <3>4. d[2] = Reminder!FireAt(item.choice, d[3])
        BY <2>7 DEF ReminderInv, DuesFaced, StillDue
      <3>5. instant # d[2]
        BY <1>6, <3>1, <3>2, <3>3, <3>4 DEF Reminder!Wanted
      <3>6. QED
        BY <3>2, <3>5 DEF fewer
    <2>8. QED
      BY <1>1, <1>2, <1>5, <2>5, <2>6, <2>7, GivesUp
  <1>7. CASE Reminder!Wanted(reminderRun[k], instant)
    <2> DEFINE r1 == [reminderRun[k] EXCEPT !.todo = fewer]
               r2 == [r1 EXCEPT !.instant = instant]
               r3 == [r2 EXCEPT !.item = item]
               r == [r3 EXCEPT !.pc = "serve"]
    <2>1. reminderRun' = [reminderRun EXCEPT ![k] =
                [reminderRun[k] EXCEPT !.todo = fewer, !.instant = instant, !.item = item, !.pc = "serve"]]
      BY <1>1, <1>7
    <2> HIDE DEF fewer
    <2>2. r = [reminderRun[k] EXCEPT !.todo = fewer, !.instant = instant, !.item = item, !.pc = "serve"]
      OBVIOUS
    <2>3. /\ r.pc = "serve" /\ r.now = reminderRun[k].now /\ r.start = reminderRun[k].start /\ r.todo = fewer
          /\ r.complete = reminderRun[k].complete /\ r.item = item /\ r.instant = instant
      <3>1. RunShape(reminderRun[k])
        BY <1>3 DEF ReminderRun
      <3>2. QED
        BY <2>2, <3>1 DEF RunShape
    <2>4. RunShape(r)
      <3>1. RunShape(r1)
        BY <1>3, Reshaped DEF ReminderRun
      <3> HIDE DEF r1
      <3>2. RunShape(r2)
        BY <3>1, Reshaped
      <3> HIDE DEF r2
      <3>3. RunShape(r3)
        BY <3>2, Reshaped
      <3> HIDE DEF r3
      <3>4. QED
        BY <3>3, Reshaped
    <2>5. reminderRun' = [reminderRun EXCEPT ![k] = r]
      BY <2>1, <2>2
    <2> HIDE DEF r
    <2>6. item \in ReminderItems
      BY <1>7 DEF ReminderInv, ReminderTypes, Reminder!Wanted
    <2>7. ReminderRun(r)
      BY <1>3, <1>4, <2>3, <2>4, <2>6 DEF ReminderRun, Holding
    <2>8. reminderRun'[k] = r /\ reminderRun' = [j \in Containers |-> reminderRun'[j]]
          /\ \A j \in Containers \ {k} : reminderRun'[j] = reminderRun[j]
      BY <2>5, OneRunMoves
    <2>9. ReminderTypes' /\ RunsInHand'
      BY <1>1, <1>5, <2>7, <2>8, RunStepTypes
    <2>10. /\ Holds(k)' /\ ~Claiming(k)' /\ ~Concluding(k)' /\ SaveOf(k)' = item.save
           /\ reminderRun'[k].item = item /\ reminderRun'[k].pc = "serve"
      BY <2>3, <2>8 DEF Holds, Holding, Claiming, Concluding, SaveOf
    <2>11. \A j \in Containers \ {k} :
             /\ Holds(j)' = Holds(j) /\ SaveOf(j)' = SaveOf(j) /\ Reminder!Key(j)' = Reminder!Key(j) /\ Row(j)' = Row(j)
             /\ Claiming(j)' = Claiming(j) /\ Concluding(j)' = Concluding(j) /\ reminderRun'[j] = reminderRun[j]
      BY <1>1, <2>8, OtherRunStands DEF Row
    <2>12. \A j \in Containers : (Claiming(j)' <=> Claiming(j)) /\ (Concluding(j)' <=> Concluding(j))
      BY <1>2, <2>10, <2>11
    <2>13. ASSUME NEW j \in Containers, j # k PROVE Unclaimed(j) => Unclaimed(j)'
      BY <1>2, <2>11, <2>12, <2>13 DEF Unclaimed
    <2>14. SavesAgree'
      <3>1. ASSUME NEW j \in Containers, Holds(j)'
            PROVE  SaveOf(j)' <= edits + 1 /\ (SaveOf(j)' = item.save => reminderRun'[j].item = item)
        BY <2>10, <2>11, <3>1 DEF ReminderInv, SavesAgree
      <3>2. ASSUME NEW i \in Containers, NEW j \in Containers, Holds(i)', Holds(j)', SaveOf(i)' = SaveOf(j)'
            PROVE  reminderRun'[i].item = reminderRun'[j].item
        <4>1. CASE i = k \/ j = k
          BY <2>10, <3>1, <3>2, <4>1
        <4>2. CASE i # k /\ j # k
          BY <2>11, <3>2, <4>2 DEF ReminderInv, SavesAgree
        <4>3. QED
          BY <4>1, <4>2
      <3>3. item'.save <= edits' + 1 /\ \A s \in Reminder!Saves : reminderPushes'[s] # 0 => s <= edits' + 1
        BY <1>1 DEF ReminderInv, SavesAgree
      <3>4. QED
        BY <1>1, <3>1, <3>2, <3>3 DEF SavesAgree
    <2>15. RowsOwned'
      <3>1. SUFFICES ASSUME NEW j \in Containers, j # k
                     PROVE  /\ Claiming(j) =>
                                 /\ Row(j)'.status = "claimed" /\ Row(j)'.at = reminderRun[j].now
                                 /\ \A i \in Containers : Claiming(i)' /\ Reminder!Key(i)' = Reminder!Key(j)' => i = j
                            /\ reminderRun[j].pc = "consume" =>
                                 /\ Row(j)'.status = "delivered" \/ (Row(j)'.status = "claimed" /\ Row(j)'.at = reminderRun[j].now)
                                 /\ Unclaimed(j)'
        BY <2>10, <2>11 DEF RowsOwned
      <3>2. \A i \in Containers : Claiming(i)' => Claiming(i) /\ Reminder!Key(i)' = Reminder!Key(i)
        BY <2>10, <2>11
      <3>3. QED
        BY <2>11, <2>13, <3>1, <3>2 DEF ReminderInv, RowsOwned
    <2>16. PushesSettled'
      <3>1. SUFFICES ASSUME NEW s \in Reminder!Saves, s \notin unsettled PROVE PushedFor(s)'
        BY <1>1 DEF PushesSettled
      <3>2. PushedFor(s)
        BY <3>1 DEF ReminderInv, PushesSettled
      <3>3. \A j \in Containers : (Concluding(j)' <=> Concluding(j)) /\ (Concluding(j) => SaveOf(j)' = SaveOf(j))
        BY <1>2, <2>11, <2>12
      <3>4. \A i, j \in Containers : Concluding(i)' /\ Concluding(j)' /\ SaveOf(i)' = s /\ SaveOf(j)' = s => i = j
        BY <3>2, <3>3 DEF PushedFor
      <3>5. ASSUME Done(s) PROVE Done(s)'
        <4>1. item.save # s
          BY <3>5 DEF Done
        <4>2. SUFFICES ASSUME NEW j \in Containers, Holds(j)', SaveOf(j)' = s
                       PROVE  reminderRun'[j].pc = "serve" /\ Blocked(j)'
          BY <1>1, <4>1 DEF Done
        <4>3. j # k
          BY <2>10, <4>1, <4>2
        <4>4. reminderRun[j].pc = "serve" /\ Blocked(j) /\ Row(j)' = Row(j) /\ reminderRun'[j] = reminderRun[j]
          BY <2>11, <3>5, <4>2, <4>3 DEF Done
        <4>5. QED
          BY <2>13, <4>3, <4>4 DEF Blocked
      <3>6. QED
        BY <1>1, <3>2, <3>3, <3>4, <3>5 DEF PushedFor
    <2>17. DuesFaced'
      <3>1. ASSUME NEW d \in due, d[1] = item.save, Faces(k, d) PROVE Faces(k, d)'
        <4>1. SUFFICES ASSUME served[k] # Reminder!Never, reminderRun[k].complete,
                            Reminder!LargestOf({served[k], reminderRun[k].now - Lookback}) < d[2], d[2] <= reminderRun[k].now,
                            Reminder!RecoveryAllows(item, d[3], reminderRun[k].now)
                     PROVE  reminderRun[k].start = d[3] /\ (d[2] \in fewer \/ instant = d[2])
          BY <1>1, <2>3, <2>8, <2>10, <3>1 DEF Faces
        <4>2. reminderRun[k].start = d[3] /\ d[2] \in reminderRun[k].todo
          BY <1>1, <3>1, <4>1 DEF Faces
        <4>3. QED
          BY <4>2 DEF fewer
      <3>2. QED
        BY <1>1, <1>2, <2>8, <3>1, DuesKept
    <2>18. QED
      BY <2>9, <2>14, <2>15, <2>16, <2>17 DEF ReminderInv
  <1>8. QED
    BY <1>6, <1>7

LEMMA StepReminder == ASSUME ReminderInv, [Reminder!Next]_reminderVars PROVE ReminderInv'
  <1>1. CASE Reminder!Next
    <2>1. CASE Reminder!Tick
      BY <2>1, TickKeeps
    <2>2. CASE \E status \in {"premiere", "other", "gone"}, start \in Starts : Reminder!Relist(status, start)
      BY <2>2, RelistKeeps
    <2>3. CASE \E choice \in Reminder!Choices : Reminder!Save(choice)
      BY <2>3, SaveKeeps
    <2>4. CASE Reminder!Delete
      BY <2>4, DeleteKeeps
    <2>5. ASSUME NEW k \in Containers,
                 \/ Reminder!StartRun(k) \/ Reminder!Scan(k) \/ Reminder!ScanFails(k) \/ Reminder!EndRun(k) \/ Reminder!Crash(k)
                 \/ Reminder!LeaveUnserved(k) \/ Reminder!NotNotified(k) \/ Reminder!ClaimReminder(k) \/ Reminder!Push(k)
                 \/ Reminder!ConfirmReminder(k) \/ Reminder!ReleaseReminder(k) \/ Reminder!ConsumeReminder(k)
          PROVE  ReminderInv'
      BY <2>5, StartRunKeeps, ScanKeeps, ScanFailsKeeps, EndRunKeeps, CrashKeeps, LeaveUnservedKeeps, NotNotifiedKeeps,
         ClaimKeeps, PushKeeps, ConfirmKeeps, ReleaseKeeps, ConsumeKeeps
    <2>6. QED
      BY <1>1, <2>1, <2>2, <2>3, <2>4, <2>5 DEF Reminder!Next
  <1>2. CASE UNCHANGED reminderVars
    <2>1. UNCHANGED <<reminderClock, reminderLog, listing, entry, item, served, reminderRun,
                      reminderPushes, unsettled, due, edits, reminderFaults>>
      BY <1>2 DEF reminderVars
    <2>2. ReminderTypes'
      BY <2>1 DEF ReminderInv, ReminderTypes
    <2>3. RunsInHand'
      BY <2>1, NoRunMoves
    <2>4. SavesAgree' /\ RowsOwned' /\ PushesSettled'
      <3>1. edits \in Nat
        BY ReminderParameters DEF ReminderInv, ReminderTypes
      <3>2. QED
        BY <2>1, <3>1, StoreChanges DEF Restored
    <2>5. DuesFaced'
      <3>1. \A d, k : (StillDue(d)' <=> StillDue(d)) /\ (Faces(k, d)' <=> Faces(k, d))
        BY <2>1 DEF StillDue, Faces, SaveOf
      <3>2. QED
        BY <2>1, <3>1 DEF ReminderInv, DuesFaced
    <2>6. QED
      BY <2>2, <2>3, <2>4, <2>5 DEF ReminderInv
  <1>3. QED
    BY <1>1, <1>2

LEMMA InitReminder == ASSUME Reminder!Init PROVE ReminderInv
  <1>1. /\ reminderClock = 0 /\ reminderLog = [key \in Reminder!Keys |-> Reminder!NoEntry]
        /\ listing \in [status : {"premiere"}, start : Starts] /\ entry = Reminder!Never
        /\ item \in {Reminder!NoItem} \cup [save : {1}, choice : Reminder!Choices, at : {0}]
        /\ served = [k \in Containers |-> Reminder!Never] /\ reminderRun = [k \in Containers |-> Reminder!Idle]
        /\ reminderPushes = [s \in Reminder!Saves |-> 0] /\ unsettled = {} /\ due = {} /\ edits = 0 /\ reminderFaults = 0
    BY DEF Reminder!Init
  <1>2. \A k \in Containers : reminderRun[k] = Reminder!Idle /\ ~Holds(k) /\ ~Claiming(k) /\ ~Concluding(k)
                              /\ reminderRun[k].pc # "consume"
    BY <1>1 DEF Holds, Holding, Claiming, Concluding, Reminder!Idle
  <1>3. 1 \in Reminder!Saves /\ Reminder!NoItem.save = 0
    BY ReminderParameters DEF Reminder!Saves, Reminder!NoItem
  <1>4. item \in {Reminder!NoItem} \cup ReminderItems /\ (item # Reminder!NoItem => item.at <= reminderClock) /\ item.save <= 1
    BY <1>1, <1>3 DEF ReminderItems
  <1>5. ReminderTypes
    <2>1. reminderLog \in [Reminder!Keys -> Reminder!Entries]
      BY <1>1 DEF Reminder!NoEntry, Reminder!Entries
    <2>2. listing \in [status : {"premiere", "other", "gone"}, start : Starts]
      BY <1>1
    <2>3. QED
      BY <1>1, <1>4, <2>1, <2>2, ReminderParameters DEF ReminderTypes
  <1>6. RunsInHand
    BY <1>2 DEF RunsInHand
  <1>7. SavesAgree
    BY <1>1, <1>2, <1>4 DEF SavesAgree
  <1>8. RowsOwned
    BY <1>2 DEF RowsOwned
  <1>9. PushesSettled
    BY <1>1, <1>2 DEF PushesSettled, PushedFor
  <1>10. DuesFaced
    BY <1>1 DEF DuesFaced
  <1>11. QED
    BY <1>5, <1>6, <1>7, <1>8, <1>9, <1>10 DEF ReminderInv

LEMMA SentOnceNow == ASSUME ReminderInv PROVE Reminder!SentOnce
  <1>1. Reminder!TypeOK
    BY DEF ReminderInv, ReminderTypes, Reminder!TypeOK, ReminderItems, Reminder!NoItem
  <1>2. \A s \in Reminder!Saves : reminderPushes[s] <= 1 \/ s \in unsettled
    BY DEF ReminderInv, PushesSettled, PushedFor
  <1>3. QED
    BY <1>1, <1>2 DEF Reminder!SentOnce

\* Only a run that ends moves the marker of its container, and then it has
\* nothing left before it.
LEMMA MarkerStep ==
    ASSUME ReminderInv, [Reminder!Next]_reminderVars, NEW k \in Containers, served'[k] \notin {served[k], Reminder!Never},
           served[k] # Reminder!Never, NEW d \in due, item.save = d[1],
           Reminder!LargestOf({served[k], reminderRun[k].now - Lookback}) < d[2], d[2] <= reminderRun[k].now,
           Reminder!RecoveryAllows(item, d[3], reminderRun[k].now)
    PROVE  FALSE
  <1>1. served \in [Containers -> (0..MaxReminderClock) \cup {Reminder!Never}]
    BY DEF ReminderInv, ReminderTypes
  <1>2. ASSUME NEW j \in Containers, Reminder!EndRun(j) PROVE FALSE
    <2>1. /\ reminderRun[j].pc = "scan" /\ reminderRun[j].todo = {}
          /\ served' = served \/ (reminderRun[j].complete /\ served' = [served EXCEPT ![j] = Reminder!LargestOf({@, reminderRun[j].now})])
      BY <1>2 DEF Reminder!EndRun
    <2>2. j = k /\ reminderRun[j].complete
      BY <1>1, <2>1
    <2>3. reminderRun[k] # Reminder!Idle
      BY <2>1, <2>2 DEF Reminder!Idle
    <2>4. Faces(k, d)
      BY <2>3 DEF ReminderInv, DuesFaced
    <2>5. QED
      BY <2>1, <2>2, <2>4 DEF Faces
  <1>3. ASSUME NEW j \in Containers, Reminder!Crash(j) PROVE FALSE
    BY <1>1, <1>3 DEF Reminder!Crash
  <1>4. UNCHANGED served \/ \E j \in Containers : Reminder!EndRun(j) \/ Reminder!Crash(j)
    BY DEF Reminder!Next, reminderVars, Reminder!Tick, Reminder!Relist, Reminder!Save, Reminder!Delete, Reminder!StartRun,
           Reminder!Scan, Reminder!ScanFails, Reminder!LeaveUnserved, Reminder!NotNotified, Reminder!ClaimReminder,
           Reminder!Push, Reminder!ConfirmReminder, Reminder!ReleaseReminder, Reminder!ConsumeReminder
  <1>5. QED
    BY <1>2, <1>3, <1>4

-----------------------------------------------------------------------------
(* The parts together *)

MCvars == <<part, vars, reminderVars, settingVars>>

LEMMA PartsStart == MCInit => Init /\ ReminderInv /\ SettingsInv
  BY InitReminder, InitSettings DEF MCInit

LEMMA PartsStep == [MCNext]_MCvars => [Next]_vars /\ [Reminder!Next]_reminderVars /\ [Setting!Next]_settingVars
  BY DEF MCNext, MCvars

LEMMA SlotsPart == MCSpec => Spec
  <1>1. QED
    BY PartsStart, PartsStep, PTL DEF MCSpec, MCvars, Spec

LEMMA ReminderPart == MCSpec => []ReminderInv
  <1>1. QED
    BY PartsStart, PartsStep, StepReminder, PTL DEF MCSpec, MCvars

LEMMA SettingsPart == MCSpec => []SettingsInv
  <1>1. SettingsInv /\ [Setting!Next]_settingVars => SettingsInv'
    BY StepSettings
  <1>2. QED
    BY <1>1, PartsStart, PartsStep, PTL DEF MCSpec, MCvars

\* No video is lost on the way to the client, when no run serves it later than a
\* claim lasts: a PUT that fails part-way costs it no slot, an edit of the slots skips
\* no recent video, and what a warm container remembers as settled is settled.
THEOREM VideosReachTheClient == ASSUME MaxLag <= ClaimExpiry PROVE MCSpec => []NoVideoIsLost
  <1>1. TypeOK /\ SyncKeepsSlots /\ NothingLostByEdits /\ RememberedIsSettled => NoVideoIsLost
    BY DEF NoVideoIsLost
  <1>2. QED
    BY <1>1, SlotsPart, NewsTypesHold, NoEditLosesVideos, CacheIsSettled, PTL

\* A Premiere reminder that was saved once is pushed once (consume_reminder), unless
\* the outcome of the push or of the consume was lost or two runs held it for
\* different starts; a secret is never replaced, and the lookup of a stream finds
\* what resolve finds in all the settings.
THEOREM RemindersHold == MCSpec => []RemindersAreSound
  <1>1. SettingsInv => Setting!SettingsAreSound
    BY LookupIsExactNow DEF SettingsInv, Setting!SettingsAreSound
  <1>2. ReminderInv /\ SettingsInv => RemindersAreSound
    BY <1>1, SentOnceNow DEF RemindersAreSound
  <1>3. QED
    BY <1>2, ReminderPart, SettingsPart, PTL

\* The marker of a warm container never passes the minute of a Premiere reminder
\* that came due and may still be sent, before a run dealt with it (_last_served_ms).
THEOREM NoMarkerSkipsAPremiere == MCSpec => MarkerPassesPremieres
  <1> DEFINE NonePassed ==
        \A k \in Containers : served'[k] \notin {served[k], Reminder!Never} /\ served[k] # Reminder!Never =>
            \A d \in due :
                /\ item.save = d[1]
                /\ Reminder!LargestOf({served[k], reminderRun[k].now - Lookback}) < d[2] /\ d[2] <= reminderRun[k].now
                /\ Reminder!RecoveryAllows(item, d[3], reminderRun[k].now)
                => FALSE
  <1>1. ReminderInv /\ [MCNext]_MCvars => [NonePassed]_(Reminder!vars)
    BY PartsStep, MarkerStep
  <1>2. MarkerPassesPremieres <=> [][NonePassed]_(Reminder!vars)
    BY PTL DEF MarkerPassesPremieres, Reminder!MarkerPassesPremieres
  <1>3. QED
    BY <1>1, <1>2, ReminderPart, PTL DEF MCSpec, MCvars
=============================================================================
