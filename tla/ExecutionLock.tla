--------------------------- MODULE ExecutionLock ---------------------------
(***************************************************************************)
(* The one row of YobiHistoryExecutionLock that guards a report date       *)
(* (src/collection/execution_lock.py).  Every operation is a single        *)
(* conditional DynamoDB write, so it is one action here: the condition is  *)
(* the guard, and a caller whose condition is false gets an exception      *)
(* (ExecutionLockHeldError or ExecutionLockLostError) and changes nothing. *)
(*                                                                         *)
(* This module has no Next of its own: HistoryPipeline calls the           *)
(* operations from the Lambda invocations of the daily state machine.      *)
(***************************************************************************)
EXTENDS Integers

CONSTANTS
    Owners,             \* executions: an ownerToken is a Step Functions execution id
    NoOwner,            \* the ownerToken of an absent row
    Shards,             \* shard numbers of the day
    AcquireLease,       \* ACQUIRE_LEASE_SECONDS
    ShardRenewLease,    \* SHARD_RENEW_LEASE_SECONDS
    ReducerRenewLease   \* REDUCER_RENEW_LEASE_SECONDS

ASSUME OwnersAssumption == NoOwner \notin Owners

ASSUME LeaseAssumption ==
    /\ AcquireLease \in Nat
    /\ ShardRenewLease \in Nat
    /\ ReducerRenewLease \in Nat

VARIABLES
    clock,  \* the time every caller reads, in abstract units
    row     \* the row of the report date; status "NONE" when there is none

Statuses == {"NONE", "IN_PROGRESS", "COMPLETE", "FAILED"}
Phases == {"NONE", "COLLECTING", "REDUCING", "COMPLETE", "FAILED"}

NoRow == [status          |-> "NONE",
          ownerToken      |-> NoOwner,
          currentPhase    |-> "NONE",
          expiresAt       |-> 0,
          completedShards |-> {}]

Rows == [status          : Statuses,
         ownerToken      : Owners \cup {NoOwner},
         currentPhase    : Phases,
         expiresAt       : Nat,
         completedShards : SUBSET Shards]

\* Mutant: any claim that is IN_PROGRESS may be taken over.
AcquirableAtOnce(forceRecovery) ==
    \/ row.status \in {"NONE", "FAILED", "IN_PROGRESS"}
    \/ forceRecovery /\ row.status = "COMPLETE"

\* The ConditionExpression of acquire's PutItem.
Acquirable(forceRecovery) ==
    \/ row.status \in {"NONE", "FAILED"}
    \/ row.status = "IN_PROGRESS" /\ row.expiresAt <= clock
    \/ forceRecovery /\ row.status = "COMPLETE"

\* Mutant: a late call of the owner is accepted whatever became of the row.
HoldsInAnyStatus(owner) == row.ownerToken = owner

\* The ConditionExpression of renew, mark_execution_complete and
\* mark_execution_failed.  None of them looks at expiresAt.
Holds(owner) ==
    /\ row.ownerToken = owner
    /\ row.status = "IN_PROGRESS"

\* Mutants: the lease is counted in milliseconds; a takeover updates the row
\* instead of replacing it.
AcquireInMilliseconds(owner, forceRecovery) ==
    /\ Acquirable(forceRecovery)
    /\ row' = [status |-> "IN_PROGRESS", ownerToken |-> owner,
               currentPhase |-> "COLLECTING",
               expiresAt |-> clock + 1000 * AcquireLease, completedShards |-> {}]

AcquireByUpdate(owner, forceRecovery) ==
    /\ Acquirable(forceRecovery)
    /\ row' = [row EXCEPT !.status = "IN_PROGRESS", !.ownerToken = owner,
                          !.currentPhase = "COLLECTING",
                          !.expiresAt = clock + AcquireLease]

\* acquire_execution_lock: the whole row is replaced.
Acquire(owner, forceRecovery) ==
    /\ Acquirable(forceRecovery)
    /\ row' = [status          |-> "IN_PROGRESS",
               ownerToken      |-> owner,
               currentPhase    |-> "COLLECTING",
               expiresAt       |-> clock + AcquireLease,
               completedShards |-> {}]

\* renew_execution_lock: `done` is the completed shard, or nothing.
Renew(owner, lease, phase, done) ==
    /\ Holds(owner)
    /\ row' = [row EXCEPT !.expiresAt = clock + lease,
                          !.currentPhase = phase,
                          !.completedShards = @ \cup done]

\* mark_execution_complete: the row stays, and keeps its completed shards.
MarkComplete(owner) ==
    /\ Holds(owner)
    /\ row' = [row EXCEPT !.status = "COMPLETE", !.currentPhase = "COMPLETE"]

\* mark_execution_failed
MarkFailed(owner) ==
    /\ Holds(owner)
    /\ row' = [row EXCEPT !.status = "FAILED", !.currentPhase = "FAILED"]
=============================================================================
