--------------------------- MODULE TopicBackfill ---------------------------
(***************************************************************************)
(* scripts/backfill/backfill_video_topics.py: classifies the titles of     *)
(* Video Master rows and mirrors each topic onto the tracking manifest,    *)
(* while another run, the history worker's whole-item put and discovery    *)
(* may write too.  The run's status says what an operator may rely on.     *)
(***************************************************************************)
EXTENDS Integers, FiniteSets

CONSTANTS
    Runs,
    Videos,       \* positive numbers, in the order of the scan
    Topics,       \* TOPIC_IDS
    Title,        \* the topic classify_video_topic gives a video's title
    Shards,       \* numbers, in the order of the loop
    ShardOf,      \* the shard of a video
    FirstMaster,  \* per video, the topics Video Master may start with
    FirstEntry,   \* and those its manifest entry may start with
    Modes,        \* the command lines: [execute, reclassify, manifest, only]
    MaxErrors,    \* MAX_CONSECUTIVE_WRITE_ERRORS
    MaxFaults     \* failed reads and writes, interrupts

\* "malformed" is no valid topic beside a title that cannot be classified.
Value == Topics \cup {"none", "bad", "malformed", "absent"}

\* A video without a row has no entry either.
TopicAssumption ==
    /\ Videos \subseteq Int /\ IsFiniteSet(Videos)
    /\ Shards \subseteq Int /\ IsFiniteSet(Shards) /\ Shards # {}
    /\ ShardOf \in [Videos -> Shards] /\ Title \in [Videos -> Topics]
    /\ Topics \cap {"none", "bad", "malformed", "absent", "any"} = {}
    /\ Modes # {} /\ Modes \subseteq [execute : BOOLEAN, reclassify : BOOLEAN, manifest : BOOLEAN,
                                     only : Topics \cup {"any"}]
    /\ \A v \in Videos : "absent" \in FirstMaster[v] => "absent" \in FirstEntry[v]
    /\ MaxErrors \in Nat \ {0} /\ MaxFaults \in Nat

VARIABLES
    master,       \* a video's topic: "none", an invalid "bad", a "malformed" row, or "absent" without one
    manifest,     \* an entry's topic, or "absent"
    run,
    held,         \* the worker's copies of rows it will put back, "absent" without one
    faults

vars == <<master, manifest, run, held, faults>>

AnyMode == CHOOSE mode \in Modes : TRUE
NewRun == [at |-> "new", mode |-> AnyMode, items |-> <<>>, topicOf |-> <<>>, skipped |-> {}, incomplete |-> FALSE,
           errors |-> 0, shard |-> 0, planned |-> 0, patched |-> 0, failed |-> 0, status |-> "none", touched |-> {}]

Init ==
    /\ master \in [Videos -> Value] /\ manifest \in [Videos -> Value]
    /\ \A v \in Videos : master[v] \in FirstMaster[v] /\ manifest[v] \in FirstEntry[v]
    /\ \A v \in Videos : master[v] = "absent" => manifest[v] = "absent"
    /\ run = [r \in Runs |-> NewRun]
    /\ held = [v \in Videos |-> "absent"]
    /\ faults = 0

Fails == faults < MaxFaults /\ faults' = faults + 1
Works == faults' = faults
Over(s) == s.at \in {"new", "over"}
Least(set) == CHOOSE x \in set : \A y \in set : x <= y
Entries(shard) == {v \in Videos : ShardOf[v] = shard /\ manifest[v] # "absent"}

\* What others write meanwhile, a run cannot answer for.
Wrote(videos) == [x \in Runs |-> IF run[x].at = "new" THEN run[x] ELSE [run[x] EXCEPT !.touched = @ \cup videos]]
Others(r, s, videos) == run' = [Wrote(videos) EXCEPT ![r] = s]
Goes(r, s) == run' = [run EXCEPT ![r] = s]

\* "incomplete" collects the counts that keep a run from COMPLETE.
FinalStatus(s) ==
    IF ~s.mode.execute THEN "DRY RUN"
    ELSE IF s.failed = Cardinality(Shards) THEN "FAILED"
    ELSE IF s.incomplete \/ s.planned # s.patched THEN "PARTIAL" ELSE "COMPLETE"
Ended(s) == [NewRun EXCEPT !.at = "over", !.mode = s.mode, !.status = FinalStatus(s), !.touched = s.touched]
Aborted(s) == [Ended(s) EXCEPT !.status = "FAILED"]

(***************************************************************************)
(* Preflight and scan                                                      *)
(***************************************************************************)
Start(r) ==
    /\ run[r].at = "new"
    /\ \E mode \in Modes :
        LET s == [run[r] EXCEPT !.mode = mode] IN
        IF mode.execute /\ mode.manifest
        THEN \/ /\ Works
                /\ Goes(r, IF \A v \in Videos : manifest[v] = "absent" THEN Aborted(s) ELSE [s EXCEPT !.at = "scan"])
             \/ Fails /\ Goes(r, Aborted(s))
        ELSE Works /\ Goes(r, [s EXCEPT !.at = "scan"])
    /\ UNCHANGED <<master, manifest, held>>

Scan(r) ==
    /\ run[r].at = "scan"
    /\ \/ Works /\ Goes(r, [run[r] EXCEPT !.at = "classify",
                               !.items = [v \in {w \in Videos : master[w] # "absent"} |-> master[v]]])
       \/ Fails /\ Goes(r, Aborted(run[r]))
    /\ UNCHANGED <<master, manifest, held>>

(***************************************************************************)
(* Video Master                                                            *)
(***************************************************************************)
Mirrored(s, v, topic) == [w \in DOMAIN s.topicOf \cup {v} |-> IF w = v THEN topic ELSE s.topicOf[w]]
Without(f, v) == [w \in DOMAIN f \ {v} |-> f[w]]

\* The topic is filled while it is missing, or replaced while it is the one that was read.
SetVideoTopic(v, existing) ==
    /\ master[v] = existing
    /\ master' = [master EXCEPT ![v] = Title[v]]

\* What a row's topic asks for.
InScope(mode, existing, v) == mode.only = "any" \/ mode.only \in {existing, Title[v]}
Verdict(mode, existing, v) ==
    CASE existing \in Topics /\ ~mode.reclassify -> "keep"
      [] existing \notin Topics \cup {"none"} /\ (existing = "malformed" \/ ~mode.reclassify) -> "error"
      [] existing # "malformed" /\ mode.reclassify /\ ~InScope(mode, existing, v) -> "skip"
      [] existing = Title[v] /\ mode.reclassify /\ InScope(mode, existing, v) -> "keep"
      [] OTHER -> IF mode.execute THEN "write" ELSE "report"

Classify(r) ==
    LET s == run[r]
        v == Least(DOMAIN s.items)
        existing == s.items[v]
        verdict == Verdict(s.mode, existing, v)
        next == [s EXCEPT !.items = Without(s.items, v)]
        keeps == [next EXCEPT !.topicOf = IF existing \in Topics THEN Mirrored(s, v, existing) ELSE @]
    IN
    /\ s.at = "classify" /\ DOMAIN s.items # {}
    /\ \/ verdict = "keep" /\ Works /\ Goes(r, keeps) /\ UNCHANGED master
       \/ verdict = "skip" /\ Works /\ Goes(r, [keeps EXCEPT !.skipped = @ \cup {v}]) /\ UNCHANGED master
       \/ verdict = "error" /\ Works /\ Goes(r, [next EXCEPT !.incomplete = TRUE]) /\ UNCHANGED master
       \/ verdict = "report" /\ Works /\ Goes(r, [next EXCEPT !.topicOf = Mirrored(s, v, Title[v])]) /\ UNCHANGED master
       \/ /\ verdict = "write"
          /\ \/ /\ Works
                /\ SetVideoTopic(v, existing)
                /\ Others(r, [next EXCEPT !.topicOf = Mirrored(s, v, Title[v]), !.errors = 0], {v})
             \/ /\ master[v] # existing
                /\ Works /\ UNCHANGED master
                /\ Goes(r, [next EXCEPT !.incomplete = TRUE, !.errors = 0])
             \/ /\ Fails
                /\ UNCHANGED master \/ SetVideoTopic(v, existing)      \* the answer may be lost
                /\ Others(r, IF s.errors + 1 = MaxErrors THEN Aborted(s)
                             ELSE [next EXCEPT !.incomplete = TRUE, !.errors = @ + 1], {v})
    /\ UNCHANGED <<manifest, held>>

ToManifest(r) ==
    /\ run[r].at = "classify" /\ DOMAIN run[r].items = {}
    /\ Goes(r, IF run[r].mode.manifest THEN [run[r] EXCEPT !.at = "read", !.shard = Least(Shards)] ELSE Ended(run[r]))
    /\ UNCHANGED <<master, manifest, held, faults>>

(***************************************************************************)
(* The manifest, shard by shard                                            *)
(***************************************************************************)
PatchedEntry(s, v) ==
    IF /\ v \in DOMAIN s.topicOf
       /\ s.mode.only = "any" \/ s.mode.only \in {manifest[v], s.topicOf[v]}
       /\ manifest[v] = "none" \/ s.mode.reclassify
    THEN s.topicOf[v] ELSE manifest[v]
Patchable(s) == {v \in Entries(s.shard) : PatchedEntry(s, v) # manifest[v]}

StillMissing(s) == \E v \in Entries(s.shard) : manifest[v] = "none" /\ v \notin DOMAIN s.topicOf \cup s.skipped
Divergent(s) == \E v \in Entries(s.shard) : manifest[v] # "none" /\ v \in DOMAIN s.topicOf /\ s.topicOf[v] # manifest[v]

NextShard(s) ==
    IF \E shard \in Shards : shard > s.shard
    THEN [s EXCEPT !.at = "read", !.shard = Least({shard \in Shards : shard > s.shard})]
    ELSE Ended(s)
ShardFailed(s) == NextShard([s EXCEPT !.incomplete = TRUE, !.failed = @ + 1])

ReadShard(r) ==
    LET s == [run[r] EXCEPT !.planned = @ + Cardinality(Patchable(run[r])),
                 !.incomplete = @ \/ StillMissing(run[r]) \/ (Divergent(run[r]) /\ ~run[r].mode.reclassify)]
    IN
    /\ run[r].at = "read"
    /\ \/ Works /\ Goes(r, IF Patchable(run[r]) # {} /\ s.mode.execute THEN [s EXCEPT !.at = "patch"] ELSE NextShard(s))
       \/ Fails /\ Goes(r, ShardFailed(run[r]))
    /\ UNCHANGED <<master, manifest, held>>

\* patch_shard: the attempt that wins the ETag patches what the shard holds then.
PatchShard(r) ==
    /\ run[r].at = "patch"
    /\ LET Patch == manifest' = [v \in Videos |-> IF v \in Patchable(run[r]) THEN PatchedEntry(run[r], v) ELSE manifest[v]] IN
        \/ /\ Works /\ Patch
           /\ Others(r, [run[r] EXCEPT !.at = "verify", !.patched = @ + Cardinality(Patchable(run[r]))], Patchable(run[r]))
        \/ /\ Fails /\ (UNCHANGED manifest \/ Patch)
           /\ Others(r, ShardFailed(run[r]), Patchable(run[r]))
    /\ UNCHANGED <<master, held>>

Verify(r) ==
    /\ run[r].at = "verify"
    /\ \/ Works /\ Goes(r, NextShard([run[r] EXCEPT !.incomplete = @ \/ Patchable(run[r]) # {}]))
       \/ Fails /\ Goes(r, ShardFailed(run[r]))
    /\ UNCHANGED <<master, manifest, held>>

Interrupted(r) ==
    /\ ~Over(run[r]) /\ Fails
    /\ Goes(r, Aborted(run[r]))
    /\ UNCHANGED <<master, manifest, held>>

(***************************************************************************)
(* The other writers                                                       *)
(***************************************************************************)
WorkerReads(v) ==
    /\ master[v] # "absent" /\ \A w \in Videos : held[w] = "absent"      \* one at a time
    /\ held' = [held EXCEPT ![v] = master[v]]
    /\ UNCHANGED <<master, manifest, run, faults>>
\* upsert_videos puts the whole item, the topic it read included.
WorkerPuts(v) ==
    /\ held[v] # "absent"
    /\ master' = [master EXCEPT ![v] = held[v]]
    /\ held' = [held EXCEPT ![v] = "absent"]
    /\ run' = Wrote(IF master[v] = held[v] THEN {} ELSE {v})
    /\ UNCHANGED <<manifest, faults>>
\* Discovery writes a new video with its topic, and then its manifest entry.
Discover(v) ==
    /\ \/ /\ master[v] = "absent"
          /\ master' = [master EXCEPT ![v] = Title[v]]
          /\ UNCHANGED manifest
       \/ /\ master[v] # "absent" /\ manifest[v] = "absent"
          /\ manifest' = [manifest EXCEPT ![v] = Title[v]]
          /\ UNCHANGED master
    /\ run' = Wrote({v})
    /\ UNCHANGED <<held, faults>>

Next ==
    \/ \E r \in Runs :
        \/ Start(r) \/ Scan(r) \/ Classify(r) \/ ToManifest(r) \/ ReadShard(r) \/ PatchShard(r) \/ Verify(r)
        \/ Interrupted(r)
    \/ \E v \in Videos : WorkerReads(v) \/ WorkerPuts(v) \/ Discover(v)

Spec == Init /\ [][Next]_vars

(***************************************************************************)
(* Properties                                                              *)
(***************************************************************************)
TypeOK ==
    /\ master \in [Videos -> Value] /\ held \in [Videos -> Value] /\ manifest \in [Videos -> Value]
    /\ \A r \in Runs : run[r].errors < MaxErrors /\ run[r].failed <= Cardinality(Shards)

Concerns(mode, values) == mode.only = "any" \/ mode.only \in values

\* A run that says COMPLETE leaves no work: every row is classified, as its title
\* is under --reclassify, and every entry agrees with its classified row, whatever failed, was
\* interrupted and resumed or was written meanwhile; except for the videos someone
\* else wrote after the run began.
CompleteLeavesNoWork == \A r \in Runs : run[r].status = "COMPLETE" =>
    \A v \in Videos \ run[r].touched : master[v] # "absent" =>
        LET mode == run[r].mode IN
        /\ Concerns(mode, {"none"}) => master[v] \in Topics
        /\ mode.reclassify /\ Concerns(mode, {master[v], Title[v]}) => master[v] = Title[v]
        /\ mode.manifest /\ manifest[v] # "absent" /\ master[v] \in Topics /\ Concerns(mode, {master[v], manifest[v]}) => manifest[v] = master[v]

TopicsAreSound == TypeOK /\ CompleteLeavesNoWork
=============================================================================
