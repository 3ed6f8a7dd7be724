------------------------ MODULE VideoClassification ------------------------
(***************************************************************************)
(* Who writes contentType and liveStatus of a video, into Video Master and *)
(* into its entry of the tracking manifest: the classification backfill    *)
(* and the Shorts backfill (scripts/backfill), the requests and the        *)
(* livestream lifecycle that fill in or complete a classification, and the *)
(* history worker, which observes a video and writes both.                 *)
(***************************************************************************)
EXTENDS Integers, YoutubeClient

CONSTANTS
    Videos,         \* the videos of one shard, numbered in the order of their ids
    Kind,           \* what each video is
    MasterAtFirst,  \* what Video Master may hold of each before the backfills, "gone" for nothing
    ManifestAtFirst,\* what its manifest entry may hold
    Runs,           \* runs of the classification backfill
    ShortsRuns,     \* runs of the Shorts backfill
    MaxRetries,
    BatchSize,      \* MAX_IDS_PER_REQUEST
    MaxObserved,    \* observations of the history worker
    MaxFaults       \* lost writes, failed reads, crashes

VARIABLES
    phase,          \* how far each broadcast has come
    master,         \* Video Master
    manifest,       \* the entries of the shard
    run,            \* a classification backfill
    shorts,         \* a Shorts backfill
    worker,         \* the history worker, per video
    unsettled,      \* history: videos a dead or failed writer, or the lifecycle, may have left apart
    observed,
    faults

vars == <<phase, master, manifest, run, shorts, worker, unsettled, observed, faults>>
others == <<phase, worker, observed>>

\* A backfill runs in a maintenance window: its operator starts it while no history worker
\* is at work, and the scheduled worker comes after it.
BackfillInFlight == \/ \E r \in Runs : run[r].at \notin {"start", "over"}
                    \/ \E s \in ShortsRuns : shorts[s].at \notin {"start", "over"}
WorkerInFlight == \E v \in Videos : worker[v].at # "idle"

\* contentType and liveStatus in one value; "bare" is "live" without a liveStatus.
Statuses == {"upcoming", "live", "completed"}
Classified == {"upload", "short"} \cup Statuses
Classes == Classified \cup {"none", "bare"}
IsClassificationIncomplete(class) == class \in {"none", "bare"}

Now(v) == Classification(Item(Kind[v], phase[v]))

\* What a video of its kind may be filed as: a running Premiere may pass for a livestream.
CanBe(v, class) ==
    /\ Kind[v] = "stream" => class \notin {"upload", "short"}
    /\ Kind[v] \in {"upload", "short"} => class \notin Statuses \cup {"bare"}
    /\ Kind[v] = "premiere" => class \notin {"short", "completed"}

\* The backfills fill in what is missing; they are not there to settle a disagreement.
ClassificationAssumption ==
    /\ Videos \subseteq Int /\ Kind \in [Videos -> Kinds]
    /\ \A v \in Videos : \A class \in MasterAtFirst[v], entry \in ManifestAtFirst[v] :
         /\ CanBe(v, class) /\ CanBe(v, entry)
         /\ class # "gone" /\ ~IsClassificationIncomplete(class) /\ ~IsClassificationIncomplete(entry)
            => class = entry

Idle == [at |-> "start", seen |-> <<>>, todo |-> {}, writes |-> <<>>, targets |-> <<>>, ahead |-> {},
         planned |-> {}, excused |-> {}, reread |-> {}, trouble |-> FALSE, end |-> "none"]
IdleShorts == [at |-> "start", todo |-> {}, ids |-> {}, trouble |-> FALSE, end |-> "none"]

Init ==
    /\ phase \in [Videos -> {"upcoming", "running"}]
    /\ \A v \in Videos : Kind[v] \in {"upload", "short"} => phase[v] = "upcoming"
    /\ master \in {f \in [Videos -> Classes \cup {"gone"}] : \A v \in Videos : f[v] \in MasterAtFirst[v]}
    /\ manifest \in {f \in [Videos -> Classes] : \A v \in Videos : f[v] \in ManifestAtFirst[v]}
    /\ run = [r \in Runs |-> Idle]
    /\ shorts = [s \in ShortsRuns |-> IdleShorts]
    /\ worker = [v \in Videos |-> [at |-> "idle", row |-> "none", old |-> "none"]]
    /\ unsettled = {}
    /\ observed = 0
    /\ faults = 0

Fails == faults < MaxFaults /\ faults' = faults + 1
Works == faults' = faults

(***************************************************************************)
(* Video Master's conditional writes: the record as it is afterwards, and  *)
(* whether the condition held.                                             *)
(***************************************************************************)
Fillable(v) == master[v] # "gone" /\ IsClassificationIncomplete(master[v])
Shortable(v) == master[v] \in {"none", "upload"}
Completable(v) == master[v] \in Statuses \cup {"bare"}

(***************************************************************************)
(* The classification backfill: it scans Video Master, reads the manifest, *)
(* and sorts the entries.                                                  *)
(***************************************************************************)
Scan(r) ==
    /\ run[r].at = "start" /\ ~WorkerInFlight
    /\ run' = [run EXCEPT ![r].at = "plan", ![r].seen = master]
    /\ Works
    /\ UNCHANGED <<others, master, manifest, shorts, unsettled>>

PlanShard(seen) ==
    LET known == {v \in Videos : seen[v] # "gone"}
        behind(class) == {v \in known : IsClassificationIncomplete(class[v])}
    IN [observe |-> behind(seen) \cap behind(manifest),
        sync    |-> behind(manifest) \ behind(seen),
        heal    |-> behind(seen) \ behind(manifest)]

Plan(r) ==
    /\ run[r].at = "plan"
    /\ LET plan == PlanShard(run[r].seen) IN
        run' = [run EXCEPT ![r] = [@ EXCEPT
            !.at = "fetch", !.todo = plan.observe, !.ahead = plan.heal,
            !.writes = [v \in plan.heal |-> manifest[v]],
            !.targets = [v \in plan.sync |-> run[r].seen[v]],
            !.planned = plan.observe \cup plan.sync \cup plan.heal]]
    /\ Works
    /\ UNCHANGED <<others, master, manifest, shorts, unsettled>>

(***************************************************************************)
(* Observing on YouTube, batch by batch.  Time being up, a spent quota and *)
(* an API error leave what was not answered for another run.               *)
(***************************************************************************)
CallOutcomes == {CallYoutubeApi(answers) : answers \in [1..MaxRetries -> Answers]}
Batch(todo) == {v \in todo : Cardinality({x \in todo : x < v}) < BatchSize}

Deferred(s) == [s EXCEPT !.todo = {}, !.trouble = TRUE, !.at = "master"]
Unanswered(s) == [s EXCEPT !.todo = @ \ Batch(@), !.trouble = TRUE]
Observed(s, skipped) ==
    LET got == FetchBatch(Batch(s.todo), skipped, {}) IN
    [s EXCEPT !.todo = @ \ Batch(@),
              !.excused = @ \cup DOMAIN got.reasons,
              !.writes = [v \in DOMAIN @ \cup got.results |-> IF v \in got.results THEN Now(v) ELSE @[v]]]

FetchShard(r) ==
    /\ run[r].at = "fetch"
    /\ \/ /\ run[r].todo = {}
          /\ run' = [run EXCEPT ![r].at = "master"]
       \/ /\ run[r].todo # {}       \* --stop-at is near
          /\ run' = [run EXCEPT ![r] = Deferred(run[r])]
       \/ /\ run[r].todo # {}
          /\ \E outcome \in CallOutcomes \ {"response"} :
               run' = [run EXCEPT ![r] = IF outcome = "QuotaExhaustedError" THEN Deferred(run[r])
                                         ELSE Unanswered(run[r])]
       \/ /\ run[r].todo # {}
          /\ \E skipped \in SUBSET Batch(run[r].todo) : run' = [run EXCEPT ![r] = Observed(run[r], skipped)]
    /\ Works
    /\ UNCHANGED <<others, master, manifest, shorts, unsettled>>

(***************************************************************************)
(* Video Master first.  The writes of a shard run in parallel, one by one  *)
(* here; a rejected one means another writer was first, and the manifest   *)
(* is to follow that one.                                                  *)
(***************************************************************************)
Pending(r) == DOMAIN run[r].writes
Without(f, v) == [w \in DOMAIN f \ {v} |-> f[w]]
With(f, v, class) == [w \in DOMAIN f \cup {v} |-> IF w = v THEN class ELSE f[w]]

SetVideoClassification(v, class) == [master EXCEPT ![v] = IF Fillable(v) THEN class ELSE @]

WriteMaster(r) ==
    /\ run[r].at = "master"
    /\ \E v \in Pending(r) :
        LET class == run[r].writes[v]
            rest == [run[r] EXCEPT !.writes = Without(@, v)]
        IN \/ /\ Works
              /\ master' = SetVideoClassification(v, class)
              /\ run' = [run EXCEPT ![r] =
                   IF Fillable(v) THEN [rest EXCEPT !.targets = With(@, v, class)]
                   ELSE [rest EXCEPT !.reread = @ \cup {v}]]
              /\ UNCHANGED unsettled
           \/ /\ Fails
              /\ master' \in {master, SetVideoClassification(v, class)}
              /\ run' = [run EXCEPT ![r] = [rest EXCEPT !.trouble = TRUE]]
              /\ unsettled' = unsettled \cup {v}
    /\ UNCHANGED <<others, manifest, shorts>>

\* _manifest_targets: what Video Master says of a video whose write it rejected.
ReadMaster(r) ==
    /\ run[r].at = "master" /\ Pending(r) = {}
    /\ \E v \in run[r].reread :
        LET rest == [run[r] EXCEPT !.reread = @ \ {v}] IN
        \/ /\ Works
           /\ run' = [run EXCEPT ![r] =
                IF master[v] = "gone" THEN [rest EXCEPT !.trouble = TRUE]
                ELSE IF IsClassificationIncomplete(master[v]) THEN rest
                ELSE [rest EXCEPT !.targets = With(@, v, master[v])]]
        \/ /\ Fails
           /\ run' = [run EXCEPT ![r] = [rest EXCEPT !.trouble = TRUE]]
    /\ UNCHANGED <<others, master, manifest, shorts, unsettled>>

Filled(targets) == [v \in Videos |-> IF v \in DOMAIN targets /\ IsClassificationIncomplete(manifest[v])
                                     THEN targets[v] ELSE manifest[v]]

ToPatch(s) == [v \in DOMAIN s.targets \ s.ahead |-> s.targets[v]]

PatchManifestShard(r) ==
    /\ run[r].at = "master" /\ Pending(r) = {} /\ run[r].reread = {}
    /\ \/ /\ Works
          /\ manifest' = Filled(ToPatch(run[r]))
          /\ run' = [run EXCEPT ![r].at = "verify"]
       \/ /\ Fails
          /\ manifest' \in {manifest, Filled(ToPatch(run[r]))}
          /\ run' = [run EXCEPT ![r].at = "verify", ![r].trouble = TRUE]
    /\ unsettled' = IF run'[r].trouble THEN unsettled \cup run[r].planned ELSE unsettled
    /\ UNCHANGED <<others, master, shorts>>

FinalStatus(s, remaining) == IF s.trouble \/ remaining # {} THEN "PARTIAL" ELSE "COMPLETE"

Verify(r) ==
    /\ run[r].at = "verify"
    /\ LET remaining == {v \in DOMAIN ToPatch(run[r]) : IsClassificationIncomplete(manifest[v])} IN
        \/ Works /\ run' = [run EXCEPT ![r].at = "over", ![r].end = FinalStatus(run[r], remaining)]
        \/ Fails /\ run' = [run EXCEPT ![r].at = "over", ![r].end = "PARTIAL"]
    /\ UNCHANGED <<others, master, manifest, shorts, unsettled>>

Interrupted(r) ==
    /\ run[r].at \notin {"start", "over"}
    /\ Fails
    /\ run' = [run EXCEPT ![r].at = "over", ![r].end = "FAILED"]
    /\ unsettled' = unsettled \cup run[r].planned
    /\ UNCHANGED <<others, master, manifest, shorts>>

(***************************************************************************)
(* The Shorts backfill: a stored video that is on the Shorts shelf becomes *)
(* a Short, in Video Master and then in the manifest.                      *)
(***************************************************************************)
OnShelf == {v \in Videos : Kind[v] = "short"}

ReadShelf(s) ==
    /\ shorts[s].at = "start" /\ ~WorkerInFlight
    /\ shorts' = [shorts EXCEPT ![s] = [@ EXCEPT !.at = "master",
          !.todo = {v \in OnShelf : Shortable(v)}, !.ids = {v \in OnShelf : master[v] = "short"}]]
    /\ Works
    /\ UNCHANGED <<others, master, manifest, run, unsettled>>

SetVideoShort(v) == [master EXCEPT ![v] = IF Shortable(v) THEN "short" ELSE @]

MarkShort(s) ==
    /\ shorts[s].at = "master"
    /\ \E v \in shorts[s].todo :
        LET rest == [shorts[s] EXCEPT !.todo = @ \ {v}] IN
        \/ /\ Works
           /\ master' = SetVideoShort(v)
           /\ shorts' = [shorts EXCEPT ![s] = IF Shortable(v) THEN [rest EXCEPT !.ids = @ \cup {v}]
                                              ELSE [rest EXCEPT !.trouble = TRUE]]
           /\ UNCHANGED unsettled
        \/ /\ Fails
           /\ master' \in {master, SetVideoShort(v)}
           /\ shorts' = [shorts EXCEPT ![s] = [rest EXCEPT !.trouble = TRUE]]
           /\ unsettled' = unsettled \cup {v}
    /\ UNCHANGED <<others, manifest, run>>

Shorted(ids) == [v \in Videos |-> IF v \in ids /\ manifest[v] \in {"none", "upload"}
                                  THEN "short" ELSE manifest[v]]

PatchShorts(s) ==
    /\ shorts[s].at = "master" /\ shorts[s].todo = {}
    /\ \/ /\ Works
          /\ manifest' = Shorted(shorts[s].ids)
          /\ shorts' = [shorts EXCEPT ![s].at = "over", ![s].end = IF shorts[s].trouble THEN "PARTIAL" ELSE "COMPLETE"]
          /\ UNCHANGED unsettled
       \/ /\ Fails
          /\ manifest' \in {manifest, Shorted(shorts[s].ids)}
          /\ shorts' = [shorts EXCEPT ![s].at = "over", ![s].end = "PARTIAL"]
          /\ unsettled' = unsettled \cup shorts[s].ids
    /\ UNCHANGED <<others, master, run>>

(***************************************************************************)
(* The service goes on: a request infers a classification, the lifecycle   *)
(* completes a broadcast that ended.  Neither touches the manifest.        *)
(***************************************************************************)
Advance(v) ==
    /\ Kind[v] \in {"stream", "premiere"} /\ phase[v] # "ended"
    /\ phase' = [phase EXCEPT ![v] = IF @ = "upcoming" THEN "running" ELSE "ended"]
    /\ UNCHANGED <<master, manifest, run, shorts, worker, unsettled, observed, faults>>

PersistInferredClassification(v) ==
    /\ Fillable(v) /\ phase[v] # "ended" /\ Kind[v] \in {"stream", "premiere"}
    /\ master' = SetVideoClassification(v, Now(v))
    /\ unsettled' = IF IsClassificationIncomplete(manifest[v]) THEN unsettled ELSE unsettled \cup {v}
    /\ UNCHANGED <<others, manifest, run, shorts, faults>>

Completion(v) ==
    IF IsCompletedPremiere(Item(Kind[v], phase[v])) THEN SetVideoClassification(v, "upload")
    ELSE [master EXCEPT ![v] = IF Completable(v) THEN "completed" ELSE @]

ResolveEnded(v) ==
    /\ phase[v] = "ended"
    /\ master' = Completion(v) /\ master' # master
    /\ unsettled' = unsettled \cup {v}
    /\ UNCHANGED <<others, manifest, run, shorts, faults>>

(***************************************************************************)
(* The history worker observes a video, later reads its record, puts the   *)
(* whole item back with what it observed, and patches the manifest.        *)
(***************************************************************************)
Merged(old, row) ==
    CASE old = "short" /\ row = "upload" -> "short"
      [] old = "upload" /\ row = "live" -> "upload"
      [] OTHER -> row

WorkerObserves(v) ==
    /\ worker[v].at = "idle" /\ observed < MaxObserved /\ ~BackfillInFlight
    /\ worker' = [worker EXCEPT ![v] = [at |-> "observed", row |-> Now(v), old |-> "none"]]
    /\ observed' = observed + 1
    /\ UNCHANGED <<phase, master, manifest, run, shorts, unsettled, faults>>

WorkerReads(v) ==
    /\ worker[v].at = "observed"
    /\ worker' = [worker EXCEPT ![v].at = IF master[v] = "gone" THEN "idle" ELSE "read", ![v].old = master[v]]
    /\ UNCHANGED <<phase, master, manifest, run, shorts, unsettled, observed, faults>>

WorkerPuts(v) ==
    /\ worker[v].at = "read"
    /\ \/ /\ Works
          /\ master' = [master EXCEPT ![v] = Merged(worker[v].old, worker[v].row)]
          /\ worker' = [worker EXCEPT ![v].at = "put"]
          /\ unsettled' = unsettled \ {v}
       \/ /\ Fails
          /\ worker' = [worker EXCEPT ![v].at = "idle"]
          /\ UNCHANGED <<master, unsettled>>
    /\ UNCHANGED <<phase, manifest, run, shorts, observed>>

WorkerPatches(v) ==
    /\ worker[v].at = "put"
    /\ \/ /\ Works
          /\ manifest' = [manifest EXCEPT ![v] = Merged(worker[v].old, worker[v].row)]
          /\ UNCHANGED unsettled
       \/ /\ Fails
          /\ unsettled' = unsettled \cup {v}
          /\ UNCHANGED manifest
    /\ worker' = [worker EXCEPT ![v].at = "idle"]
    /\ UNCHANGED <<phase, master, run, shorts, observed>>

Next ==
    \/ \E r \in Runs : Scan(r) \/ Plan(r) \/ FetchShard(r) \/ WriteMaster(r) \/ ReadMaster(r)
                      \/ PatchManifestShard(r) \/ Verify(r) \/ Interrupted(r)
    \/ \E s \in ShortsRuns : ReadShelf(s) \/ MarkShort(s) \/ PatchShorts(s)
    \/ \E v \in Videos : Advance(v) \/ PersistInferredClassification(v) \/ ResolveEnded(v)
                        \/ WorkerObserves(v) \/ WorkerReads(v) \/ WorkerPuts(v) \/ WorkerPatches(v)

Spec == Init /\ [][Next]_vars

(***************************************************************************)
(* Properties                                                              *)
(***************************************************************************)
TypeOK ==
    /\ phase \in [Videos -> Phases]
    /\ master \in [Videos -> Classes \cup {"gone"}] /\ manifest \in [Videos -> Classes]
    /\ unsettled \subseteq Videos

\* The manifest follows Video Master: once the backfills are over and no writer
\* failed on a video, the two say the same of it if both say anything, however
\* the backfills, the requests and the worker took turns.
TheTwoAgree == \A v \in Videos \ unsettled :
    /\ ~BackfillInFlight /\ worker[v].at = "idle" /\ master[v] # "gone"
    /\ ~IsClassificationIncomplete(master[v]) /\ ~IsClassificationIncomplete(manifest[v])
    => master[v] = manifest[v]

\* A run that reports COMPLETE has left nothing of its plan to do, except what
\* YouTube did not say.
CompleteMeansDone == \A r \in Runs : run[r].end = "COMPLETE" =>
    \A v \in run[r].planned \ run[r].excused :
        master[v] # "gone" /\ ~IsClassificationIncomplete(master[v]) /\ ~IsClassificationIncomplete(manifest[v])

\* Nobody files a video as what it never was: a stream is never an upload, an
\* upload never a livestream, and a Premiere, which may pass for a livestream while
\* it runs, never a finished one.
FiledByKind == \A v \in Videos : CanBe(v, master[v]) /\ CanBe(v, manifest[v])

\* What the Shorts backfill found stays found: the worker, whose observation cannot
\* tell a Short from an upload, does not undo it.
ShortsStay == \A s \in ShortsRuns : shorts[s].end = "COMPLETE" =>
    \A v \in shorts[s].ids : master[v] = "short" /\ manifest[v] = "short"

ClassificationIsSound == TypeOK /\ TheTwoAgree /\ CompleteMeansDone /\ FiledByKind /\ ShortsStay
=============================================================================
