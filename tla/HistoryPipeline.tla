-------------------------- MODULE HistoryPipeline --------------------------
(***************************************************************************)
(* The daily history state machine (terraform/history.tf) of one report    *)
(* date, run by several executions at once, over the execution lock.       *)
(*                                                                         *)
(* An execution is in one ASL state and, in that state, waits for Lambda   *)
(* invocations.  An invocation is a record of its own because it outlives  *)
(* the wait: after an invocation-level error, a failed Map, a timeout of   *)
(* the execution or a StopExecution nobody waits for it any more and it    *)
(* still runs, up to the Lambda timeout.  Each of its steps is one access  *)
(* to DynamoDB or S3.                                                      *)
(***************************************************************************)
EXTENDS ExecutionLock, FiniteSets

CONSTANTS
    Repairs,            \* executions whose input has forceRecovery
    MaxAttempts,        \* 1 + Retry.MaxAttempts of CollectShard
    MaxConcurrency,     \* of the Map
    LambdaLimit,        \* the timeout of a Lambda invocation
    RetryWait,          \* the longest wait before a retry
    MaxClock,           \* bound: time stops here
    LastStart,          \* bound: executions start up to this time
    MaxFaults           \* bound: losses, deaths, errors and aborts in a behavior

LambdaSteps == {"Acquire", "Reduce", "Complete", "Failed"}

\* What the retries after the n-th attempt of a shard may still take, and
\* what a shard may take from the start of its first attempt.
RetryBudget(n) == (MaxAttempts - n) * (RetryWait + LambdaLimit)

ShardBudget == LambdaLimit + RetryBudget(1)

ASSUME PipelineAssumption ==
    /\ Repairs \subseteq Owners
    /\ IsFiniteSet(Shards)
    /\ Shards \cap LambdaSteps = {}
    /\ MaxAttempts \in Nat \ {0}
    /\ MaxConcurrency \in Nat \ {0}
    /\ LambdaLimit \in Nat \ {0}
    /\ RetryWait \in Nat
    /\ MaxClock \in Nat
    /\ LastStart \in Nat
    /\ MaxFaults \in Nat

\* The margins the comment above ACQUIRE_LEASE_SECONDS works out: 900 s
\* Lambdas, waits of at most 120 s and 4 attempts against 90 and 45 minutes.
ASSUME LeaseMarginAssumption ==
    /\ ShardBudget + LambdaLimit + RetryWait < AcquireLease
    /\ AcquireLease <= ShardRenewLease
    /\ ReducerRenewLease <= ShardRenewLease
    /\ 2 * LambdaLimit < ReducerRenewLease
    /\ LambdaLimit + RetryWait < ReducerRenewLease

VARIABLES
    exec,       \* the ASL state of each execution
    requested,  \* the validated $.shards of each execution
    attempt,    \* attempts of CollectShard started, per execution and shard
    finished,   \* shards whose Map iteration succeeded
    lambdas,    \* the invocations that run now
    stored,     \* shards of the date present in S3
    rankings,   \* the video rankings of the date in S3: by whom, from what
    faults      \* counted against MaxFaults

NoRankings == [by |-> NoOwner, from |-> {}]

vars == <<clock, row, exec, requested, attempt, finished, lambdas, stored, rankings, faults>>

Terminal == {"Succeeded", "Fail", "ExecutionLockHeld", "Aborted"}

ExecStates == Terminal \cup
    {"NotStarted", "AcquireExecutionLock", "CollectHistoryShards",
     "ReduceRankings", "MarkExecutionComplete", "MarkExecutionFailed"}

Pcs == {"acquire", "check", "put", "renew", "read", "mark", "return"}

Invocations ==
    [exec     : Owners,
     step     : Shards \cup LambdaSteps,
     attempt  : 1..MaxAttempts,
     pc       : Pcs,
     deadline : Nat,
     seen     : SUBSET Shards]

\* An invocation of one of the ASL states that make a single call, and one
\* of CollectShard, retried ones after a wait.
Call(e, step, pc) ==
    [exec |-> e, step |-> step, attempt |-> 1, pc |-> pc,
     deadline |-> clock + LambdaLimit, seen |-> {}]

ShardCall(e, s, n, wait) ==
    [exec |-> e, step |-> s, attempt |-> n, pc |-> "check",
     deadline |-> clock + wait + LambdaLimit, seen |-> {}]

\* Step Functions still waits for this invocation.
Awaited(l) ==
    \/ l.step = "Acquire"  /\ exec[l.exec] = "AcquireExecutionLock"
    \/ l.step = "Reduce"   /\ exec[l.exec] = "ReduceRankings"
    \/ l.step = "Complete" /\ exec[l.exec] = "MarkExecutionComplete"
    \/ l.step = "Failed"   /\ exec[l.exec] = "MarkExecutionFailed"
    \/ /\ l.step \in Shards
       /\ exec[l.exec] = "CollectHistoryShards"
       /\ attempt[l.exec][l.step] = l.attempt
       /\ l.step \notin finished[l.exec]

Advance(l, pc) == (lambdas \ {l}) \cup {[l EXCEPT !.pc = pc]}

\* Map iterations under way, and those that may start at once.
RunningShards(e) == {s \in requested[e] : attempt[e][s] > 0} \ finished[e]

\* Mutant: one slot of the Map is never used.
StartableBelowLimit(e, s) ==
    /\ exec[e] = "CollectHistoryShards"
    /\ s \in requested[e]
    /\ attempt[e][s] = 0
    /\ Cardinality(RunningShards(e)) + 1 < MaxConcurrency

Startable(e, s) ==
    /\ exec[e] = "CollectHistoryShards"
    /\ s \in requested[e]
    /\ attempt[e][s] = 0
    /\ Cardinality(RunningShards(e)) < MaxConcurrency

-----------------------------------------------------------------------------

Init ==
    /\ clock = 0
    /\ row = NoRow
    /\ exec = [e \in Owners |-> "NotStarted"]
    /\ requested = [e \in Owners |-> {}]
    /\ attempt = [e \in Owners |-> [s \in Shards |-> 0]]
    /\ finished = [e \in Owners |-> {}]
    /\ lambdas = {}
    /\ stored = {}
    /\ rankings = NoRankings
    /\ faults = 0

\* Something goes wrong that an execution can notice.
Fault ==
    /\ faults < MaxFaults
    /\ faults' = faults + 1

\* StartExecution, with a shards array ValidateShardsInput accepts.
StartExecution(e, shards) ==
    /\ exec[e] = "NotStarted"
    /\ clock <= LastStart
    /\ exec' = [exec EXCEPT ![e] = "AcquireExecutionLock"]
    /\ requested' = [requested EXCEPT ![e] = shards]
    /\ lambdas' = lambdas \cup {Call(e, "Acquire", "acquire")}
    /\ UNCHANGED <<clock, row, attempt, finished, stored, rankings, faults>>

\* The awaited invocation of a step fails for good: the Catch of the state,
\* and the invocations that remain.  Acquire and MarkExecutionComplete have
\* no Catch for it, and the execution ends there.
StepFails(e, step, remaining) ==
    \/ /\ step \in Shards \cup {"Reduce"}
       /\ exec' = [exec EXCEPT ![e] = "MarkExecutionFailed"]
       /\ lambdas' = remaining \cup {Call(e, "Failed", "mark")}
    \/ /\ step = "Failed"
       /\ exec' = [exec EXCEPT ![e] = "Fail"]
       /\ lambdas' = remaining
    \/ /\ step \in {"Acquire", "Complete"}
       /\ exec' = [exec EXCEPT ![e] = "Aborted"]
       /\ lambdas' = remaining

\* An invocation ends with an exception.
Raises(l) ==
    /\ IF Awaited(l)
         THEN StepFails(l.exec, l.step, lambdas \ {l})
         ELSE lambdas' = lambdas \ {l} /\ UNCHANGED exec
    /\ UNCHANGED <<clock, requested, attempt, finished, stored, rankings>>

\* An invocation ends well, and the execution, if it waits, takes the
\* transition `Next` of the state, to `next` with a first invocation `more`.
Returns(l, next, more) ==
    /\ l.pc = "return"
    /\ IF Awaited(l)
         THEN /\ exec' = [exec EXCEPT ![l.exec] = next]
              /\ lambdas' = (lambdas \ {l}) \cup more
         ELSE lambdas' = lambdas \ {l} /\ UNCHANGED exec
    /\ UNCHANGED <<clock, row, requested, attempt, stored, rankings, faults>>

-----------------------------------------------------------------------------
(* AcquireExecutionLock *)

AcquireLock(l) ==
    /\ l.pc = "acquire"
    /\ Acquire(l.exec, l.exec \in Repairs)
    /\ lambdas' = Advance(l, "return")
    /\ UNCHANGED <<clock, exec, requested, attempt, finished, stored, rankings, faults>>

\* ExecutionLockHeldError, the one error this state catches.
LockHeld(l) ==
    /\ IF Awaited(l)
         THEN exec' = [exec EXCEPT ![l.exec] = "ExecutionLockHeld"]
         ELSE UNCHANGED exec
    /\ lambdas' = lambdas \ {l}
    /\ UNCHANGED <<clock, requested, attempt, finished, stored, rankings>>

AcquireRefused(l) ==
    /\ l.pc = "acquire"
    /\ ~Acquirable(l.exec \in Repairs)
    /\ LockHeld(l)
    /\ UNCHANGED <<row, faults>>

\* The reply to the PutItem is lost after it took effect; the retry inside
\* the SDK meets the row the first try wrote, and is refused.
AcquireReplyLost(l) ==
    /\ l.pc = "acquire"
    /\ Acquire(l.exec, l.exec \in Repairs)
    /\ LockHeld(l)
    /\ Fault

AcquireReturns(l) ==
    /\ l.step = "Acquire"
    /\ Returns(l, "CollectHistoryShards", {})
    /\ UNCHANGED finished

-----------------------------------------------------------------------------
(* CollectHistoryShards *)

StartShard(e, s) ==
    /\ Startable(e, s)
    /\ attempt' = [attempt EXCEPT ![e][s] = 1]
    /\ lambdas' = lambdas \cup {ShardCall(e, s, 1, 0)}
    /\ UNCHANGED <<clock, row, exec, requested, finished, stored, rankings, faults>>

\* shard_exists: a shard already in S3 is read back, never collected again.
CheckShard(l) ==
    /\ l.pc = "check"
    /\ lambdas' = Advance(l, IF l.step \in stored THEN "renew" ELSE "put")
    /\ UNCHANGED <<clock, row, exec, requested, attempt, finished, stored, rankings, faults>>

\* YouTube was asked; write_daily_shard replaces the object, not fenced.
PutShard(l) ==
    /\ l.pc = "put"
    /\ l.step \in Shards
    /\ stored' = stored \cup {l.step}
    /\ lambdas' = Advance(l, "renew")
    /\ UNCHANGED <<clock, row, exec, requested, attempt, finished, rankings, faults>>

\* The last thing the worker does is renew the lock and record its shard.
RenewShard(l) ==
    /\ l.pc = "renew"
    /\ l.step \in Shards
    /\ Renew(l.exec, ShardRenewLease, "COLLECTING", {l.step})
    /\ lambdas' = Advance(l, "return")
    /\ UNCHANGED <<clock, exec, requested, attempt, finished, stored, rankings, faults>>

\* ExecutionLockLostError, of a worker or of the reducer, is not retried.
RenewLost(l) ==
    /\ l.pc = "renew"
    /\ ~Holds(l.exec)
    /\ Raises(l)
    /\ UNCHANGED <<row, faults>>

\* Mutant: the Map ends when nothing runs, shards that wait for a slot or not.
ShardReturnsToIdleMap(l) ==
    LET e == l.exec
        last == RunningShards(e) \subseteq {l.step}
    IN  /\ l.step \in Shards
        /\ Returns(l, IF last THEN "ReduceRankings" ELSE exec[e],
                      IF last THEN {Call(e, "Reduce", "renew")} ELSE {})
        /\ finished' = IF Awaited(l)
                         THEN [finished EXCEPT ![e] = @ \cup {l.step}] ELSE finished

\* A Map iteration succeeds; the last one ends the Map.
ShardReturns(l) ==
    LET e == l.exec
        done == finished[e] \cup {l.step}
    IN  /\ l.step \in Shards
        /\ Returns(l, IF done = requested[e] THEN "ReduceRankings" ELSE exec[e],
                      IF done = requested[e] THEN {Call(e, "Reduce", "renew")} ELSE {})
        /\ finished' = IF Awaited(l) THEN [finished EXCEPT ![e] = done] ELSE finished

-----------------------------------------------------------------------------
(* ReduceRankings *)

\* The reducer renews first and is not fenced afterwards.
RenewReduce(l) ==
    /\ l.pc = "renew"
    /\ l.step = "Reduce"
    /\ Renew(l.exec, ReducerRenewLease, "REDUCING", {})
    /\ lambdas' = Advance(l, "read")
    /\ UNCHANGED <<clock, exec, requested, attempt, finished, stored, rankings, faults>>

ReadShards(l) ==
    /\ l.pc = "read"
    /\ lambdas' = (lambdas \ {l}) \cup {[l EXCEPT !.pc = "put", !.seen = stored]}
    /\ UNCHANGED <<clock, row, exec, requested, attempt, finished, stored, rankings, faults>>

\* write_result replaces whatever is there.  A failure to build or to write
\* the rankings is swallowed, and the reducer returns as if it had succeeded.
PutRankings(l) ==
    /\ l.pc = "put"
    /\ l.step = "Reduce"
    /\ rankings' \in {rankings, [by |-> l.exec, from |-> l.seen]}
    /\ lambdas' = Advance(l, "return")
    /\ UNCHANGED <<clock, row, exec, requested, attempt, finished, stored, faults>>

ReduceReturns(l) ==
    /\ l.step = "Reduce"
    /\ Returns(l, "MarkExecutionComplete", {Call(l.exec, "Complete", "mark")})
    /\ UNCHANGED finished

-----------------------------------------------------------------------------
(* MarkExecutionComplete and MarkExecutionFailed *)

Mark(l) ==
    \/ l.step = "Complete" /\ MarkComplete(l.exec)
    \/ l.step = "Failed" /\ MarkFailed(l.exec)

MarkRow(l) ==
    /\ l.pc = "mark"
    /\ Mark(l)
    /\ lambdas' = Advance(l, "return")
    /\ UNCHANGED <<clock, exec, requested, attempt, finished, stored, rankings, faults>>

MarkLost(l) ==
    /\ l.pc = "mark"
    /\ ~Holds(l.exec)
    /\ Raises(l)
    /\ UNCHANGED <<row, faults>>

\* As in AcquireReplyLost: the row is marked, and the caller is told it lost.
MarkReplyLost(l) ==
    /\ l.pc = "mark"
    /\ Mark(l)
    /\ Raises(l)
    /\ Fault

MarkReturns(l) ==
    /\ l.step \in {"Complete", "Failed"}
    /\ Returns(l, IF l.step = "Complete" THEN "Succeeded" ELSE "Fail", {})
    /\ UNCHANGED finished

-----------------------------------------------------------------------------
(* Failures and time *)

\* Any other exception, a crash, or the Lambda timeout: not retried.
LambdaDies(l) ==
    /\ Raises(l)
    /\ IF Awaited(l) THEN Fault ELSE UNCHANGED faults
    /\ UNCHANGED row

\* Mutant: one retry too many.
ServiceErrorOnceMore(l) ==
    /\ Awaited(l)
    /\ Fault
    /\ IF l.step \in Shards /\ l.attempt <= MaxAttempts
         THEN /\ attempt' = [attempt EXCEPT ![l.exec][l.step] = @ + 1]
              /\ lambdas' = lambdas \cup {ShardCall(l.exec, l.step, l.attempt + 1, RetryWait)}
              /\ UNCHANGED exec
         ELSE StepFails(l.exec, l.step, lambdas) /\ UNCHANGED attempt
    /\ UNCHANGED <<clock, row, requested, finished, stored, rankings>>

\* An invocation-level error.  The invocation may well run on, but from now
\* on a retry, or nobody, is waited for.
ServiceError(l) ==
    /\ Awaited(l)
    /\ Fault
    /\ IF l.step \in Shards /\ l.attempt < MaxAttempts
         THEN /\ attempt' = [attempt EXCEPT ![l.exec][l.step] = @ + 1]
              /\ lambdas' = lambdas \cup {ShardCall(l.exec, l.step, l.attempt + 1, RetryWait)}
              /\ UNCHANGED exec
         ELSE StepFails(l.exec, l.step, lambdas) /\ UNCHANGED attempt
    /\ UNCHANGED <<clock, row, requested, finished, stored, rankings>>

\* StopExecution, or TimeoutSeconds of the state machine: no Catch runs.
AbortExecution(e) ==
    /\ exec[e] \notin Terminal \cup {"NotStarted"}
    /\ Fault
    /\ exec' = [exec EXCEPT ![e] = "Aborted"]
    /\ UNCHANGED <<clock, row, requested, attempt, finished, lambdas, stored, rankings>>

\* No invocation outlives its timeout, and the Map fills its slots at once.
Tick ==
    /\ clock < MaxClock
    /\ \A l \in lambdas : clock < l.deadline
    /\ ~ \E e \in Owners, s \in Shards : Startable(e, s)
    /\ clock' = clock + 1
    /\ UNCHANGED <<row, exec, requested, attempt, finished, lambdas, stored, rankings, faults>>

LambdaProgress(l) ==
    \/ AcquireLock(l) \/ AcquireRefused(l) \/ AcquireReplyLost(l) \/ AcquireReturns(l)
    \/ CheckShard(l) \/ PutShard(l) \/ RenewShard(l) \/ RenewLost(l) \/ ShardReturns(l)
    \/ RenewReduce(l) \/ ReadShards(l) \/ PutRankings(l) \/ ReduceReturns(l)
    \/ MarkRow(l) \/ MarkLost(l) \/ MarkReplyLost(l) \/ MarkReturns(l)

Next ==
    \/ \E e \in Owners, shards \in (SUBSET Shards) \ {{}} : StartExecution(e, shards)
    \/ \E e \in Owners, s \in Shards : StartShard(e, s)
    \/ \E l \in lambdas : LambdaProgress(l) \/ LambdaDies(l) \/ ServiceError(l)
    \/ \E e \in Owners : AbortExecution(e)
    \/ Tick

Spec == Init /\ [][Next]_vars

\* Every invocation makes its next access, or is killed at its timeout, the
\* Map starts what it can, and time passes.  Nothing fair is asked of the
\* errors and of the aborts.
Fairness ==
    /\ WF_vars(\E l \in lambdas : LambdaProgress(l))
    /\ WF_vars(\E e \in Owners, s \in Shards : StartShard(e, s))
    /\ WF_vars(Tick)

FairSpec == Spec /\ Fairness

-----------------------------------------------------------------------------
(* Properties *)

TypeOK ==
    /\ clock \in Nat
    /\ row \in Rows
    /\ exec \in [Owners -> ExecStates]
    /\ requested \in [Owners -> SUBSET Shards]
    /\ attempt \in [Owners -> [Shards -> 0..MaxAttempts]]
    /\ finished \in [Owners -> SUBSET Shards]
    /\ lambdas \subseteq Invocations
    /\ stored \subseteq Shards
    /\ rankings \in [by : Owners \cup {NoOwner}, from : SUBSET Shards]
    /\ faults \in 0..MaxFaults

Working == {e \in Owners : exec[e] \in {"CollectHistoryShards", "ReduceRankings"}}

LeaseLive == row.status = "IN_PROGRESS" /\ clock < row.expiresAt

\* "The lock survives as long as shards keep completing": from the acquire to
\* the end of the reducer an execution owns the row, and no other execution
\* could take it, whatever is retried in between.
LeaseOutlivesRun ==
    \A e \in Working : row.ownerToken = e /\ LeaseLive

(* The inductive invariant behind LeaseOutlivesRun.  Its parts bound how long  *)
(* each invocation may run, tell which invocations an execution may have left   *)
(* behind, and keep the lease ahead of whatever its owner still waits for.      *)

\* An invocation runs now, and started, with its wait, at most a limit ago.
Timely ==
    \A l \in lambdas :
        /\ clock <= l.deadline
        /\ l.deadline <= clock + RetryWait + LambdaLimit
        /\ l.step \in LambdaSteps => l.deadline <= clock + LambdaLimit

\* No write of the row reaches further than the longest lease.
LeaseBounded == row.expiresAt <= clock + ShardRenewLease

\* The Map has something left to do for as long as it runs.
MapUnfinished ==
    \A e \in Owners :
        /\ exec[e] # "NotStarted" => requested[e] # {}
        /\ exec[e] \in {"NotStarted", "AcquireExecutionLock"} =>
              finished[e] = {} /\ \A s \in Shards : attempt[e][s] = 0
        /\ finished[e] \subseteq requested[e]
        /\ exec[e] = "CollectHistoryShards" => finished[e] # requested[e]

\* The states an execution can be in when an invocation of a step runs.
LambdasFollowExec ==
    \A l \in lambdas :
        LET x == exec[l.exec] IN
        /\ x # "NotStarted"
        /\ l.step \in Shards => /\ x # "AcquireExecutionLock"
                                /\ l.step \in requested[l.exec]
                                /\ l.attempt <= attempt[l.exec][l.step]
        /\ l.step = "Reduce" => x \notin {"AcquireExecutionLock", "CollectHistoryShards"}
        /\ l.step = "Complete" => x \in {"MarkExecutionComplete"} \cup Terminal
        /\ l.step = "Failed" => x \in {"MarkExecutionFailed"} \cup Terminal

\* A Task the Map runs has the invocation it waits for.
RunningHaveLambda ==
    \A e \in Owners : exec[e] = "CollectHistoryShards" =>
        \A s \in RunningShards(e) :
            \E l \in lambdas : l.exec = e /\ l.step = s /\ Awaited(l)

ReduceHasLambda ==
    \A e \in Owners : exec[e] = "ReduceRankings" =>
        \E l \in lambdas : l.exec = e /\ l.step = "Reduce"

\* The row belongs to the execution that collects or reduces, from the
\* moment its acquire went through.
WorkingOwnsRow ==
    /\ \A e \in Working : Holds(e)
    /\ \A l \in lambdas :
          l.step = "Acquire" /\ l.pc = "return" /\ Awaited(l) => Holds(l.exec)

\* The lease outlives what its owner waits for: the attempts left to a shard,
\* all of a shard that may start now, the reducer and the state after it.
LeaseAhead ==
    /\ \A l \in lambdas : Awaited(l) =>
          /\ l.step = "Acquire" /\ l.pc = "return" =>
                l.deadline + ShardBudget < row.expiresAt
          /\ l.step \in Shards =>
                /\ l.deadline + RetryBudget(l.attempt) < row.expiresAt
                /\ l.pc = "return" => l.deadline + ShardBudget < row.expiresAt
          /\ l.step = "Reduce" =>
                /\ l.deadline < row.expiresAt
                /\ l.pc # "renew" => l.deadline + LambdaLimit < row.expiresAt
    /\ \A e \in Owners, s \in Shards :
          Startable(e, s) => clock + ShardBudget < row.expiresAt

RunInv ==
    /\ Timely
    /\ MapUnfinished
    /\ LambdasFollowExec
    /\ RunningHaveLambda
    /\ ReduceHasLambda

LeaseInv ==
    /\ TypeOK
    /\ RunInv
    /\ LeaseBounded
    /\ WorkingOwnsRow
    /\ LeaseAhead

\* A date is COMPLETE only once every shard its owner was asked for was
\* recorded, and a recorded shard is in S3.
CompleteMeansCollected ==
    /\ row.completedShards \subseteq stored
    /\ row.status = "COMPLETE" => row.completedShards = requested[row.ownerToken]

\* Rankings are never built from less than all the shards their execution
\* was asked for, orphaned reducers included.
RankingsCoverRun ==
    rankings # NoRankings => requested[rankings.by] \subseteq rankings.from

\* Nothing touches the row of a COMPLETE date, late renewals of orphaned
\* workers included, except a repair that takes it over.
CompleteIsFrozen ==
    [][row.status = "COMPLETE" =>
         \/ row' = row
         \/ row'.status = "IN_PROGRESS" /\ row'.ownerToken \in Repairs]_row

\* The lock implements the abstract claim of the report date: a lease that
\* expires is a claim released.
Claim == INSTANCE ReportDateClaim WITH
    Executions <- Owners,
    Nobody     <- NoOwner,
    state      <- IF LeaseLive THEN "claimed"
                  ELSE IF row.status = "COMPLETE" THEN "closed" ELSE "open",
    holder     <- IF LeaseLive THEN row.ownerToken ELSE NoOwner,
    working    <- Working

ImplementsClaim == Claim!ClaimSpec

\* Whatever is lost, killed or aborted, an execution that started ends, and
\* the row does not stay claimed for good.
ExecutionEnds ==
    \A e \in Owners : exec[e] # "NotStarted" ~> exec[e] \in Terminal

LockIsFreed == LeaseLive ~> ~LeaseLive

=============================================================================
