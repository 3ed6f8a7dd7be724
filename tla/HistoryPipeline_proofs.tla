----------------------- MODULE HistoryPipeline_proofs -----------------------
(***************************************************************************)
(* Proofs about HistoryPipeline for every number of executions, shards and *)
(* attempts, and every lease that keeps the assumed margins: first the     *)
(* lease, then what the pipeline promises about a report date: a COMPLETE  *)
(* row and the rankings cover every shard their execution was asked for,   *)
(* and the lock implements the abstract claim of ReportDateClaim.          *)
(***************************************************************************)
EXTENDS HistoryPipeline, FiniteSetTheorems, TLAPS

\* An invocation that starts is a well-formed record.
LEMMA CallType ==
    ASSUME TypeOK, NEW e \in Owners, NEW step \in LambdaSteps, NEW pc \in Pcs
    PROVE  Call(e, step, pc) \in Invocations
  BY PipelineAssumption DEF Call, Invocations, TypeOK

LEMMA ShardCallType ==
    ASSUME TypeOK, NEW e \in Owners, NEW s \in Shards,
           NEW n \in 1..MaxAttempts, NEW wait \in Nat
    PROVE  ShardCall(e, s, n, wait) \in Invocations
  BY PipelineAssumption DEF ShardCall, Invocations, Pcs, TypeOK

\* An invocation that moves on stays one.
LEMMA AdvanceType ==
    ASSUME TypeOK, NEW l \in lambdas, NEW pc \in Pcs
    PROVE  /\ l \in Invocations
           /\ [l EXCEPT !.pc = pc] \in Invocations
           /\ Advance(l, pc) \subseteq Invocations
  <1>1. l \in Invocations
    BY DEF TypeOK
  <1>2. [l EXCEPT !.pc = pc] \in Invocations
    BY <1>1 DEF Invocations
  <1>3. QED
    BY <1>1, <1>2 DEF Advance, TypeOK

\* The row after each operation of the lock.
LEMMA RowType ==
    ASSUME TypeOK, NEW e \in Owners, NEW done \in SUBSET Shards
    PROVE  /\ Acquire(e, e \in Repairs) => row' \in Rows
           /\ Renew(e, ShardRenewLease, "COLLECTING", done) => row' \in Rows
           /\ Renew(e, ReducerRenewLease, "REDUCING", done) => row' \in Rows
           /\ MarkComplete(e) => row' \in Rows
           /\ MarkFailed(e) => row' \in Rows
  <1> USE LeaseAssumption DEF TypeOK, Rows, Statuses, Phases
  <1>1. Acquire(e, e \in Repairs) => row' \in Rows
    BY DEF Acquire
  <1>2. ASSUME NEW lease \in Nat, NEW phase \in Phases, Renew(e, lease, phase, done)
        PROVE  row' \in Rows
    <2>1. clock + lease \in Nat /\ row.completedShards \cup done \in SUBSET Shards
      OBVIOUS
    <2> DEFINE until == clock + lease
               shards == row.completedShards \cup done
    <2>2. row' = [row EXCEPT !.expiresAt = until, !.currentPhase = phase,
                             !.completedShards = shards]
      BY <1>2 DEF Renew
    <2> HIDE DEF until, shards
    <2>3. until \in Nat /\ shards \in SUBSET Shards
      BY <2>1 DEF until, shards
    <2>4. QED
      BY <2>2, <2>3
  <1>3. /\ Renew(e, ShardRenewLease, "COLLECTING", done) => row' \in Rows
        /\ Renew(e, ReducerRenewLease, "REDUCING", done) => row' \in Rows
    BY <1>2
  <1>4. MarkComplete(e) => row' \in Rows
    BY DEF MarkComplete
  <1>5. MarkFailed(e) => row' \in Rows
    BY DEF MarkFailed
  <1>6. QED
    BY <1>1, <1>2, <1>3, <1>4, <1>5

LEMMA FaultType == TypeOK /\ Fault => faults' \in 0..MaxFaults
  BY PipelineAssumption DEF TypeOK, Fault

\* The ways an invocation ends keep exec and lambdas well-formed.
LEMMA EndType ==
    ASSUME TypeOK, NEW l \in lambdas
    PROVE  /\ Raises(l) => /\ exec' \in [Owners -> ExecStates]
                           /\ lambdas' \subseteq Invocations
           /\ StepFails(l.exec, l.step, lambdas) =>
                           /\ exec' \in [Owners -> ExecStates]
                           /\ lambdas' \subseteq Invocations
           /\ LockHeld(l) => /\ exec' \in [Owners -> ExecStates]
                             /\ lambdas' \subseteq Invocations
  <1>1. l \in Invocations /\ l.exec \in Owners
    BY DEF TypeOK, Invocations
  <1>2. Call(l.exec, "Failed", "mark") \in Invocations
    BY <1>1, CallType DEF LambdaSteps, Pcs
  <1>3. ASSUME NEW remaining \in SUBSET Invocations,
               StepFails(l.exec, l.step, remaining)
        PROVE  exec' \in [Owners -> ExecStates] /\ lambdas' \subseteq Invocations
    BY <1>1, <1>2, <1>3 DEF StepFails, TypeOK, ExecStates, Terminal
  <1>4. Raises(l) => exec' \in [Owners -> ExecStates] /\ lambdas' \subseteq Invocations
    BY <1>3 DEF Raises, TypeOK
  <1>5. StepFails(l.exec, l.step, lambdas)
          => exec' \in [Owners -> ExecStates] /\ lambdas' \subseteq Invocations
    BY <1>3 DEF TypeOK
  <1>6. LockHeld(l) => exec' \in [Owners -> ExecStates] /\ lambdas' \subseteq Invocations
    BY <1>1 DEF LockHeld, TypeOK, ExecStates, Terminal
  <1>7. QED
    BY <1>4, <1>5, <1>6

LEMMA TypeStep == TypeOK /\ [Next]_vars => TypeOK'
  <1> SUFFICES ASSUME TypeOK, [Next]_vars
               PROVE  TypeOK'
    OBVIOUS
  <1> USE PipelineAssumption DEF TypeOK
  <1>1. ASSUME NEW e \in Owners, NEW shards \in (SUBSET Shards) \ {{}},
               StartExecution(e, shards)
        PROVE  TypeOK'
    <2>1. Call(e, "Acquire", "acquire") \in Invocations
      BY CallType DEF LambdaSteps, Pcs
    <2>2. QED
      BY <1>1, <2>1 DEF StartExecution, ExecStates
  <1>2. ASSUME NEW e \in Owners, NEW s \in Shards, StartShard(e, s)
        PROVE  TypeOK'
    <2>1. ShardCall(e, s, 1, 0) \in Invocations
      BY ShardCallType
    <2>2. attempt' \in [Owners -> [Shards -> 0..MaxAttempts]]
      BY <1>2 DEF StartShard
    <2>3. QED
      BY <1>2, <2>1, <2>2 DEF StartShard
  <1>3. ASSUME NEW l \in lambdas, LambdaProgress(l)
        PROVE  TypeOK'
    <2> DEFINE e == l.exec
    <2>1. l \in Invocations /\ e \in Owners
      BY DEF Invocations
    <2>2. \A pc \in Pcs : Advance(l, pc) \subseteq Invocations
      BY AdvanceType
    <2>3. CASE AcquireLock(l)
      BY <2>1, <2>2, <2>3, RowType DEF AcquireLock, Pcs
    <2>4. CASE AcquireRefused(l)
      BY <2>4, EndType DEF AcquireRefused, LockHeld
    <2>5. CASE AcquireReplyLost(l)
      BY <2>1, <2>5, EndType, RowType, FaultType DEF AcquireReplyLost, LockHeld
    <2>6. CASE AcquireReturns(l)
      BY <2>1, <2>6 DEF AcquireReturns, Returns, ExecStates
    <2>7. CASE CheckShard(l)
      BY <2>2, <2>7 DEF CheckShard, Pcs
    <2>8. CASE PutShard(l)
      BY <2>2, <2>8 DEF PutShard, Pcs
    <2>9. CASE RenewShard(l)
      <3>1. {l.step} \in SUBSET Shards
        BY <2>9 DEF RenewShard
      <3>2. QED
        BY <2>1, <2>2, <2>9, <3>1, RowType DEF RenewShard, Pcs
    <2>10. CASE RenewLost(l)
      BY <2>10, EndType DEF RenewLost, Raises
    <2>11. CASE ShardReturns(l)
      <3>1. Call(e, "Reduce", "renew") \in Invocations
        BY <2>1, CallType DEF LambdaSteps, Pcs
      <3>2. finished[e] \cup {l.step} \in SUBSET Shards
        BY <2>1, <2>11 DEF ShardReturns
      <3>3. finished' \in [Owners -> SUBSET Shards]
        BY <2>1, <2>11, <3>2 DEF ShardReturns
      <3>4. exec[e] \in ExecStates /\ "ReduceRankings" \in ExecStates
        BY <2>1 DEF ExecStates
      <3>5. exec' \in [Owners -> ExecStates] /\ lambdas' \subseteq Invocations
        BY <2>1, <2>11, <3>1, <3>4 DEF ShardReturns, Returns
      <3>6. QED
        BY <2>11, <3>3, <3>5 DEF ShardReturns, Returns
    <2>12. CASE RenewReduce(l)
      BY <2>1, <2>2, <2>12, RowType DEF RenewReduce, Pcs
    <2>13. CASE ReadShards(l)
      <3>1. [l EXCEPT !.pc = "put", !.seen = stored] \in Invocations
        BY <2>1 DEF Invocations, Pcs
      <3>2. QED
        BY <2>13, <3>1 DEF ReadShards
    <2>14. CASE PutRankings(l)
      <3>1. [by |-> e, from |-> l.seen] \in [by : Owners \cup {NoOwner}, from : SUBSET Shards]
        BY <2>1 DEF Invocations
      <3>2. QED
        BY <2>2, <2>14, <3>1 DEF PutRankings, Pcs
    <2>15. CASE ReduceReturns(l)
      <3>1. Call(e, "Complete", "mark") \in Invocations
        BY <2>1, CallType DEF LambdaSteps, Pcs
      <3>2. QED
        BY <2>1, <2>15, <3>1 DEF ReduceReturns, Returns, ExecStates
    <2>16. CASE MarkRow(l)
      BY <2>1, <2>2, <2>16, RowType DEF MarkRow, Mark, Pcs
    <2>17. CASE MarkLost(l)
      BY <2>17, EndType DEF MarkLost, Raises
    <2>18. CASE MarkReplyLost(l)
      BY <2>1, <2>18, EndType, RowType, FaultType DEF MarkReplyLost, Mark, Raises
    <2>19. CASE MarkReturns(l)
      BY <2>1, <2>19 DEF MarkReturns, Returns, ExecStates, Terminal
    <2>20. QED
      BY <1>3, <2>3, <2>4, <2>5, <2>6, <2>7, <2>8, <2>9, <2>10, <2>11, <2>12,
         <2>13, <2>14, <2>15, <2>16, <2>17, <2>18, <2>19 DEF LambdaProgress
  <1>4. ASSUME NEW l \in lambdas, LambdaDies(l)
        PROVE  TypeOK'
    BY <1>4, EndType, FaultType DEF LambdaDies, Raises
  <1>5. ASSUME NEW l \in lambdas, ServiceError(l)
        PROVE  TypeOK'
    <2>1. l.exec \in Owners /\ l.attempt \in 1..MaxAttempts
      BY DEF Invocations
    <2>2. CASE l.step \in Shards /\ l.attempt < MaxAttempts
      <3>1. l.attempt + 1 \in 1..MaxAttempts
        BY <2>1, <2>2
      <3>2. ShardCall(l.exec, l.step, l.attempt + 1, RetryWait) \in Invocations
        BY <2>1, <2>2, <3>1, ShardCallType
      <3>3. attempt[l.exec][l.step] = l.attempt
        BY <1>5, <2>2 DEF ServiceError, Awaited, LambdaSteps
      <3> DEFINE next == l.attempt + 1
      <3>4. attempt' = [attempt EXCEPT ![l.exec][l.step] = next]
        BY <1>5, <2>2, <3>3 DEF ServiceError
      <3>5. next \in 0..MaxAttempts
        BY <3>1
      <3>6. attempt' \in [Owners -> [Shards -> 0..MaxAttempts]]
        <4> HIDE DEF next
        <4>1. QED
          BY <2>1, <2>2, <3>4, <3>5
      <3>7. QED
        BY <1>5, <2>2, <3>2, <3>6, FaultType DEF ServiceError
    <2>3. CASE ~(l.step \in Shards /\ l.attempt < MaxAttempts)
      BY <1>5, <2>3, EndType, FaultType DEF ServiceError
    <2>4. QED
      BY <2>2, <2>3
  <1>6. ASSUME NEW e \in Owners, AbortExecution(e)
        PROVE  TypeOK'
    BY <1>6 DEF AbortExecution, ExecStates, Terminal, Fault
  <1>7. CASE Tick
    BY <1>7 DEF Tick
  <1>8. CASE UNCHANGED vars
    BY <1>8 DEF vars
  <1>9. QED
    BY <1>1, <1>2, <1>3, <1>4, <1>5, <1>6, <1>7, <1>8 DEF Next

\* Type correctness.
THEOREM TypeCorrect == Spec => []TypeOK
  <1>1. Init => TypeOK
    BY PipelineAssumption
       DEF Init, TypeOK, NoRow, Rows, Statuses, Phases, ExecStates, NoRankings
  <1>2. QED
    BY <1>1, TypeStep, PTL DEF Spec

-----------------------------------------------------------------------------
(* The lease outlives the run.  RunInv says which invocations there are and *)
(* does not mention the row; the other parts of LeaseInv do.                *)

\* The only arithmetic on attempts that is needed.
LEMMA RetryBudgetFacts ==
    /\ \A n \in 1..MaxAttempts : RetryBudget(n) \in Nat
    /\ \A n \in 1..MaxAttempts : n < MaxAttempts =>
          RetryBudget(n + 1) + RetryWait + LambdaLimit = RetryBudget(n)
    /\ ShardBudget \in Nat
    /\ LambdaLimit <= ShardBudget
  <1> USE PipelineAssumption
  <1> DEFINE c == RetryWait + LambdaLimit
  <1>1. c \in Nat
    OBVIOUS
  <1>2. ASSUME NEW n \in 1..MaxAttempts
        PROVE  RetryBudget(n) \in Nat
    <2>1. MaxAttempts - n \in Nat
      OBVIOUS
    <2>2. \A i, j \in Nat : i * j \in Nat
      OBVIOUS
    <2>3. QED
      BY <1>1, <2>1, <2>2 DEF RetryBudget
  <1>3. ASSUME NEW n \in 1..MaxAttempts, n < MaxAttempts
        PROVE  RetryBudget(n + 1) + RetryWait + LambdaLimit = RetryBudget(n)
    <2>1. PICK k \in Nat : MaxAttempts - n = k + 1 /\ MaxAttempts - (n + 1) = k
      <3>1. MaxAttempts - (n + 1) \in Nat
        BY <1>3
      <3>2. QED
        BY <3>1
    <2>2. (k + 1) * c = k * c + c
      BY <1>1
    <2>3. k * c \in Int
      BY <1>1
    <2>4. QED
      BY <2>1, <2>2, <2>3 DEF RetryBudget
  <1>4. ShardBudget \in Nat /\ LambdaLimit <= ShardBudget
    BY <1>2 DEF ShardBudget
  <1>5. QED
    BY <1>2, <1>3, <1>4

\* While the Map runs, something is awaited or may start.
LEMMA MapBusy ==
    ASSUME TypeOK, MapUnfinished, NEW e \in Owners, exec[e] = "CollectHistoryShards"
    PROVE  \/ RunningShards(e) # {}
           \/ \E s \in Shards : Startable(e, s)
  <1>1. PICK s \in requested[e] : s \notin finished[e]
    BY DEF MapUnfinished, TypeOK
  <1>2. CASE RunningShards(e) = {}
    <2>1. attempt[e][s] = 0 /\ s \in Shards
      BY <1>1, <1>2 DEF RunningShards, TypeOK
    <2>2. Cardinality(RunningShards(e)) = 0
      BY <1>2, FS_EmptySet
    <2>3. QED
      BY <1>1, <2>1, <2>2, PipelineAssumption DEF Startable
  <1>3. QED
    BY <1>2

\* LeaseInv gives the property, also for an execution just told it has the lock.
LEMMA LeaseCovers ==
    ASSUME LeaseInv
    PROVE  /\ LeaseOutlivesRun
           /\ \A l \in lambdas : l.step = "Acquire" /\ l.pc = "return" /\ Awaited(l)
                 => Holds(l.exec) /\ clock < row.expiresAt
  <1> USE DEF LeaseInv, RunInv
  <1>1. clock \in Nat /\ row.expiresAt \in Nat /\ \A l \in lambdas : l.deadline \in Nat
    BY DEF TypeOK, Rows, Invocations
  <1>2. ASSUME NEW e \in Owners, exec[e] = "CollectHistoryShards"
        PROVE  clock < row.expiresAt
    <2>1. CASE \E s \in Shards : Startable(e, s)
      BY <1>1, <2>1, RetryBudgetFacts DEF LeaseAhead
    <2>2. CASE RunningShards(e) # {}
      <3>1. PICK l \in lambdas : l.step \in Shards /\ Awaited(l)
        BY <1>2, <2>2 DEF RunningHaveLambda, RunningShards, TypeOK
      <3>2. l.deadline + RetryBudget(l.attempt) < row.expiresAt
        BY <3>1 DEF LeaseAhead
      <3>3. l.attempt \in 1..MaxAttempts
        BY DEF TypeOK, Invocations
      <3>4. RetryBudget(l.attempt) \in Nat
        BY <3>3, RetryBudgetFacts
      <3>5. QED
        BY <1>1, <3>2, <3>4 DEF Timely
    <2>3. QED
      BY <1>2, <2>1, <2>2, MapBusy
  <1>3. ASSUME NEW e \in Owners, exec[e] = "ReduceRankings"
        PROVE  clock < row.expiresAt
    <2>1. PICK l \in lambdas : l.exec = e /\ l.step = "Reduce"
      BY <1>3 DEF ReduceHasLambda
    <2>2. l.deadline < row.expiresAt
      BY <1>3, <2>1 DEF LeaseAhead, Awaited
    <2>3. QED
      BY <1>1, <2>2 DEF Timely
  <1>4. LeaseOutlivesRun
    BY <1>2, <1>3 DEF LeaseOutlivesRun, LeaseLive, Working, WorkingOwnsRow, Holds
  <1>5. ASSUME NEW l \in lambdas, l.step = "Acquire", l.pc = "return", Awaited(l)
        PROVE  Holds(l.exec) /\ clock < row.expiresAt
    BY <1>1, <1>5, RetryBudgetFacts DEF WorkingOwnsRow, LeaseAhead, Timely
  <1>6. QED
    BY <1>4, <1>5

\* An invocation goes on: same call, same deadline, another program counter.
SameCall(l, m) ==
    /\ m.exec = l.exec
    /\ m.step = l.step
    /\ m.attempt = l.attempt
    /\ m.deadline = l.deadline

LEMMA MoveKeepsRun ==
    ASSUME TypeOK, RunInv, NEW l \in lambdas, NEW m, SameCall(l, m),
           lambdas' = (lambdas \ {l}) \cup {m},
           UNCHANGED <<clock, exec, requested, attempt, finished>>
    PROVE  RunInv'
  <1> USE DEF RunInv, SameCall
  <1>1. Timely'
    BY DEF Timely
  <1>2. MapUnfinished'
    BY DEF MapUnfinished
  <1>3. LambdasFollowExec'
    BY DEF LambdasFollowExec
  <1>4. RunningHaveLambda'
    <2> SUFFICES ASSUME NEW e \in Owners, exec[e] = "CollectHistoryShards",
                        NEW s \in RunningShards(e)
                 PROVE  \E k \in lambdas' : k.exec = e /\ k.step = s /\ Awaited(k)'
      BY DEF RunningHaveLambda, RunningShards
    <2>1. PICK k \in lambdas : k.exec = e /\ k.step = s /\ Awaited(k)
      BY DEF RunningHaveLambda
    <2>2. CASE k = l
      BY <2>1, <2>2 DEF Awaited
    <2>3. CASE k # l
      BY <2>1, <2>3 DEF Awaited
    <2>4. QED
      BY <2>2, <2>3
  <1>5. ReduceHasLambda'
    BY DEF ReduceHasLambda
  <1>6. QED
    BY <1>1, <1>2, <1>3, <1>4, <1>5

\* An invocation nobody waits for goes away.
LEMMA DropKeepsRun ==
    ASSUME TypeOK, RunInv, NEW l \in lambdas, ~Awaited(l),
           lambdas' = lambdas \ {l},
           UNCHANGED <<clock, exec, requested, attempt, finished>>
    PROVE  RunInv'
  <1> USE DEF RunInv
  <1>1. Timely'
    BY DEF Timely
  <1>2. MapUnfinished'
    BY DEF MapUnfinished
  <1>3. LambdasFollowExec'
    BY DEF LambdasFollowExec
  <1>4. RunningHaveLambda'
    <2> SUFFICES ASSUME NEW e \in Owners, exec[e] = "CollectHistoryShards",
                        NEW s \in RunningShards(e)
                 PROVE  \E k \in lambdas' : k.exec = e /\ k.step = s /\ Awaited(k)'
      BY DEF RunningHaveLambda, RunningShards
    <2>1. PICK k \in lambdas : k.exec = e /\ k.step = s /\ Awaited(k)
      BY DEF RunningHaveLambda
    <2>2. k # l /\ Awaited(k)'
      BY <2>1 DEF Awaited
    <2>3. QED
      BY <2>1, <2>2
  <1>5. ReduceHasLambda'
    BY DEF ReduceHasLambda, Awaited
  <1>6. QED
    BY <1>1, <1>2, <1>3, <1>4, <1>5

\* An execution stops working, with or without its Catch, and keeps or drops
\* one invocation.
Leaves(e, next, more) ==
    /\ exec[e] # "NotStarted"
    /\ exec' = [exec EXCEPT ![e] = next]
    /\ \/ next \in Terminal /\ more = {}
       \/ /\ next = "MarkExecutionFailed"
          /\ e \in Working
          /\ more = {Call(e, "Failed", "mark")}
    /\ \E gone \in SUBSET lambdas :
          /\ \A l \in gone : l.exec = e
          /\ lambdas' = (lambdas \ gone) \cup more
    /\ UNCHANGED <<clock, requested, attempt, finished>>

LEMMA LeaveKeepsRun ==
    ASSUME TypeOK, RunInv, NEW e \in Owners, NEW next, NEW more, Leaves(e, next, more)
    PROVE  RunInv'
  <1> USE DEF RunInv
  <1> PICK gone \in SUBSET lambdas : /\ \A l \in gone : l.exec = e
                                     /\ lambdas' = (lambdas \ gone) \cup more
    BY DEF Leaves
  <1>1. /\ exec[e] # "NotStarted"
        /\ exec'[e] = next /\ \A x \in Owners \ {e} : exec'[x] = exec[x]
        /\ next \in {"MarkExecutionFailed"} \cup Terminal
        /\ UNCHANGED <<clock, requested, attempt, finished>>
    BY DEF Leaves, TypeOK
  <1>2. \A l \in lambdas' \ lambdas :
           /\ next = "MarkExecutionFailed" /\ e \in Working
           /\ l.exec = e /\ l.step = "Failed" /\ l.deadline = clock + LambdaLimit
    BY DEF Leaves, Call
  <1>3. \A l \in lambdas : l.exec \in Owners
    BY DEF TypeOK, Invocations
  <1>4. Timely'
    BY <1>1, <1>2, PipelineAssumption DEF Timely, TypeOK
  <1>5. MapUnfinished'
    BY <1>1 DEF MapUnfinished, Terminal
  <1>6. LambdasFollowExec'
    <2> SUFFICES ASSUME NEW l \in lambdas'
                 PROVE  LambdasFollowExec!(l)'
      BY DEF LambdasFollowExec
    <2>1. CASE l \in lambdas /\ l.exec # e
      BY <1>1, <1>3, <2>1 DEF LambdasFollowExec
    <2>2. CASE l \in lambdas /\ l.exec = e /\ next \in Terminal
      BY <1>1, <2>2 DEF LambdasFollowExec, Terminal
    <2>3. CASE l \in lambdas /\ l.exec = e /\ next = "MarkExecutionFailed"
      <3>1. e \in Working
        BY <2>3 DEF Leaves, Terminal
      <3>2. QED
        BY <1>1, <2>3, <3>1 DEF LambdasFollowExec, Working, Terminal
    <2>4. CASE l \notin lambdas
      BY <1>1, <1>2, <2>4, PipelineAssumption DEF LambdaSteps
    <2>5. QED
      BY <1>1, <2>1, <2>2, <2>3, <2>4
  <1>7. RunningHaveLambda'
    <2> SUFFICES ASSUME NEW x \in Owners, exec'[x] = "CollectHistoryShards",
                        NEW s \in RunningShards(x)
                 PROVE  \E k \in lambdas' : k.exec = x /\ k.step = s /\ Awaited(k)'
      BY <1>1 DEF RunningHaveLambda, RunningShards
    <2>1. x # e /\ exec[x] = exec'[x]
      BY <1>1 DEF Terminal
    <2>2. PICK k \in lambdas : k.exec = x /\ k.step = s /\ Awaited(k)
      BY <2>1 DEF RunningHaveLambda
    <2>3. k \in lambdas' /\ Awaited(k)'
      BY <1>1, <2>1, <2>2 DEF Awaited
    <2>4. QED
      BY <2>2, <2>3
  <1>8. ReduceHasLambda'
    BY <1>1 DEF ReduceHasLambda, Terminal
  <1>9. QED
    BY <1>4, <1>5, <1>6, <1>7, <1>8

\* The parts of LeaseInv about the row, when the row does not change.
RowInv == LeaseBounded /\ WorkingOwnsRow /\ LeaseAhead

LEMMA MoveKeepsRow ==
    ASSUME LeaseInv, NEW l \in lambdas, NEW m, SameCall(l, m),
           m.pc = "return" => l.step \notin Shards \cup {"Acquire"},
           l.step = "Reduce" /\ l.pc = "renew" => m.pc = "renew",
           lambdas' = (lambdas \ {l}) \cup {m},
           UNCHANGED <<clock, row, exec, requested, attempt, finished>>
    PROVE  RowInv'
  <1> USE DEF LeaseInv, SameCall
  <1>1. LeaseBounded'
    BY DEF LeaseBounded
  <1>2. WorkingOwnsRow'
    BY DEF WorkingOwnsRow, Working, Holds, Awaited
  <1>3. LeaseAhead'
    BY DEF LeaseAhead, Awaited, Startable, RunningShards
  <1>4. QED
    BY <1>1, <1>2, <1>3 DEF RowInv

LEMMA DropKeepsRow ==
    ASSUME LeaseInv, lambdas' \subseteq lambdas,
           UNCHANGED <<clock, row, exec, requested, attempt, finished>>
    PROVE  RowInv'
  <1> USE DEF LeaseInv
  <1>1. LeaseBounded'
    BY DEF LeaseBounded
  <1>2. WorkingOwnsRow'
    BY DEF WorkingOwnsRow, Working, Holds, Awaited
  <1>3. LeaseAhead'
    BY DEF LeaseAhead, Awaited, Startable, RunningShards
  <1>4. QED
    BY <1>1, <1>2, <1>3 DEF RowInv

\* What an execution that leaves adds to the picture: nothing RowInv is about.
LEMMA LeaveEffect ==
    ASSUME TypeOK, NEW e \in Owners, NEW next, NEW more, Leaves(e, next, more)
    PROVE  /\ Working' \subseteq Working \ {e}
           /\ \A l \in lambdas' :
                 Awaited(l)' => \/ l.step = "Failed"
                                \/ l \in lambdas /\ Awaited(l) /\ l.exec # e
           /\ \A x \in Owners, s \in Shards : Startable(x, s)' => Startable(x, s)
  <1>1. /\ exec'[e] = next /\ \A x \in Owners \ {e} : exec'[x] = exec[x]
        /\ next \in {"MarkExecutionFailed"} \cup Terminal
        /\ UNCHANGED <<clock, requested, attempt, finished>>
    BY DEF Leaves, TypeOK
  <1>2. Working' \subseteq Working \ {e}
    BY <1>1 DEF Working, Terminal
  <1>3. ASSUME NEW l \in lambdas', Awaited(l)', l.step # "Failed"
        PROVE  l \in lambdas /\ Awaited(l) /\ l.exec # e
    <2>1. l \in lambdas
      BY <1>3 DEF Leaves, Call
    <2>2. l.exec \in Owners
      BY <2>1 DEF TypeOK, Invocations
    <2>3. l.exec # e
      BY <1>1, <1>3 DEF Awaited, Terminal
    <2>4. QED
      BY <1>1, <1>3, <2>1, <2>2, <2>3 DEF Awaited
  <1>4. \A x \in Owners, s \in Shards : Startable(x, s)' => Startable(x, s)
    BY <1>1 DEF Startable, RunningShards, Terminal
  <1>5. \A l \in lambdas' :
           Awaited(l)' => l.step = "Failed" \/ (l \in lambdas /\ Awaited(l) /\ l.exec # e)
    BY <1>3
  <1>6. QED
    BY <1>2, <1>4, <1>5

LEMMA LeaveKeepsRow ==
    ASSUME LeaseInv, NEW e \in Owners, NEW next, NEW more,
           Leaves(e, next, more), row' = row
    PROVE  RowInv'
  <1> USE DEF LeaseInv
  <1>1. clock' = clock
    BY DEF Leaves
  <1>2. "Failed" \notin Shards
    BY PipelineAssumption DEF LambdaSteps
  <1>3. LeaseBounded'
    BY <1>1 DEF LeaseBounded
  <1>4. WorkingOwnsRow'
    BY LeaveEffect DEF WorkingOwnsRow, Holds
  <1>5. LeaseAhead'
    BY <1>1, <1>2, LeaveEffect DEF LeaseAhead
  <1>6. QED
    BY <1>3, <1>4, <1>5 DEF RowInv

\* Nobody works on the date, and nobody is about to.
Idle ==
    /\ Working = {}
    /\ \A l \in lambdas : ~(l.step = "Acquire" /\ l.pc = "return" /\ Awaited(l))

\* The lock can be taken, or its row closed, only then.
LEMMA IdleWhen ==
    ASSUME LeaseInv
    PROVE  /\ \A f : Acquirable(f) => Idle
           /\ \A l \in lambdas :
                 l.step \in {"Complete", "Failed"} /\ Holds(l.exec) => Idle
  <1> USE DEF LeaseInv
  <1>1. clock \in Nat /\ row.expiresAt \in Nat
    BY DEF TypeOK, Rows
  <1>2. ASSUME NEW f, Acquirable(f)
        PROVE  Idle
    BY <1>1, <1>2, LeaseCovers
       DEF Acquirable, Idle, LeaseOutlivesRun, LeaseLive, Holds
  <1>3. ASSUME NEW l \in lambdas, l.step \in {"Complete", "Failed"}, Holds(l.exec)
        PROVE  Idle
    <2>1. /\ l.exec \notin Working
          /\ exec[l.exec] # "AcquireExecutionLock"
      BY <1>3 DEF RunInv, LambdasFollowExec, Working, Terminal
    <2>2. Working = {}
      BY <1>3, <2>1 DEF WorkingOwnsRow, Holds
    <2>3. ASSUME NEW k \in lambdas, k.step = "Acquire", k.pc = "return", Awaited(k)
          PROVE  FALSE
      <3>1. k.exec = l.exec
        BY <1>3, <2>3 DEF WorkingOwnsRow, Holds
      <3>2. exec[k.exec] = "AcquireExecutionLock"
        BY <2>3, PipelineAssumption DEF Awaited, LambdaSteps
      <3>3. QED
        BY <2>1, <3>1, <3>2
    <2>4. QED
      BY <2>2, <2>3 DEF Idle
  <1>4. QED
    BY <1>2, <1>3

\* Then the only claim a step can make about the row is that of an acquire.
LEMMA IdleKeepsRow ==
    ASSUME TypeOK', LeaseBounded', Idle'
    PROVE  RowInv'
  <1>1. WorkingOwnsRow'
    BY DEF WorkingOwnsRow, Idle
  <1>2. \A l \in lambdas' : Awaited(l)' => l.step \notin Shards /\ l.step # "Reduce"
    <2> SUFFICES ASSUME NEW l \in lambdas', Awaited(l)',
                        l.step \in Shards \/ l.step = "Reduce"
                 PROVE  FALSE
      OBVIOUS
    <2>1. exec'[l.exec] \in {"CollectHistoryShards", "ReduceRankings"}
      BY PipelineAssumption DEF Awaited, LambdaSteps
    <2>2. l.exec \in Owners
      BY DEF TypeOK, Invocations
    <2>3. QED
      BY <2>1, <2>2 DEF Idle, Working
  <1>3. \A e \in Owners, s \in Shards : ~Startable(e, s)'
    BY DEF Startable, Idle, Working
  <1>4. LeaseAhead'
    BY <1>2, <1>3 DEF LeaseAhead, Idle
  <1>5. QED
    BY <1>1, <1>4 DEF RowInv

\* An invocation ends without a next one of its execution's normal run.
Ends(l) ==
    \/ /\ ~Awaited(l)
       /\ lambdas' = lambdas \ {l}
       /\ UNCHANGED <<clock, exec, requested, attempt, finished>>
    \/ \E next, more : Leaves(l.exec, next, more)

LEMMA EndKeeps ==
    ASSUME LeaseInv, NEW l \in lambdas, Ends(l)
    PROVE  /\ RunInv'
           /\ row' = row => RowInv'
           /\ Idle => Idle'
  <1> USE DEF LeaseInv
  <1>1. l.exec \in Owners
    BY DEF TypeOK, Invocations
  <1>2. CASE /\ ~Awaited(l)
             /\ lambdas' = lambdas \ {l}
             /\ UNCHANGED <<clock, exec, requested, attempt, finished>>
    <2>1. RunInv'
      BY <1>2, DropKeepsRun
    <2>2. row' = row => RowInv'
      BY <1>2, DropKeepsRow
    <2>3. Idle => Idle'
      BY <1>2 DEF Idle, Working, Awaited
    <2>4. QED
      BY <2>1, <2>2, <2>3
  <1>3. ASSUME NEW next, NEW more, Leaves(l.exec, next, more)
        PROVE  RunInv' /\ (row' = row => RowInv') /\ (Idle => Idle')
    <2>1. RunInv'
      BY <1>1, <1>3, LeaveKeepsRun
    <2>2. row' = row => RowInv'
      BY <1>1, <1>3, LeaveKeepsRow
    <2>3. Idle => Idle'
      BY <1>1, <1>3, LeaveEffect DEF Idle
    <2>4. QED
      BY <2>1, <2>2, <2>3
  <1>4. QED
    BY <1>2, <1>3 DEF Ends

\* A step that fails is left, whatever becomes of its invocation.
LEMMA FailureLeaves ==
    ASSUME LeaseInv, NEW l \in lambdas, Awaited(l),
           NEW gone \in SUBSET {l}, StepFails(l.exec, l.step, lambdas \ gone),
           UNCHANGED <<clock, requested, attempt, finished>>
    PROVE  \E next, more : Leaves(l.exec, next, more)
  <1> USE DEF LeaseInv
  <1>1. l.exec \in Owners /\ exec[l.exec] # "NotStarted"
    BY DEF TypeOK, Invocations, RunInv, LambdasFollowExec
  <1>2. gone \in SUBSET lambdas /\ \A k \in gone : k.exec = l.exec
    OBVIOUS
  <1>3. CASE l.step \in Shards \cup {"Reduce"}
    <2>1. l.exec \in Working
      BY <1>1, <1>3, PipelineAssumption DEF Awaited, Working, LambdaSteps
    <2>2. /\ exec' = [exec EXCEPT ![l.exec] = "MarkExecutionFailed"]
          /\ lambdas' = (lambdas \ gone) \cup {Call(l.exec, "Failed", "mark")}
      BY <1>3, PipelineAssumption DEF StepFails, LambdaSteps
    <2>3. Leaves(l.exec, "MarkExecutionFailed", {Call(l.exec, "Failed", "mark")})
      BY <1>1, <1>2, <2>1, <2>2 DEF Leaves
    <2>4. QED
      BY <2>3
  <1>4. CASE l.step \notin Shards \cup {"Reduce"}
    <2>1. PICK next \in Terminal : exec' = [exec EXCEPT ![l.exec] = next]
      BY <1>4 DEF StepFails, Terminal
    <2>2. lambdas' = (lambdas \ gone) \cup {}
      BY <1>4 DEF StepFails
    <2>3. Leaves(l.exec, next, {})
      BY <1>1, <1>2, <2>1, <2>2 DEF Leaves
    <2>4. QED
      BY <2>3
  <1>5. QED
    BY <1>3, <1>4

LEMMA EndingSteps ==
    ASSUME LeaseInv, NEW l \in lambdas
    PROVE  /\ Raises(l) => Ends(l)
           /\ LockHeld(l) => Ends(l)
           /\ MarkReturns(l) => Ends(l)
  <1> USE DEF LeaseInv
  <1>1. l.exec \in Owners /\ exec[l.exec] # "NotStarted"
    BY DEF TypeOK, Invocations, RunInv, LambdasFollowExec
  <1>2. Raises(l) => Ends(l)
    BY FailureLeaves DEF Raises, Ends
  <1>3. ASSUME Awaited(l), NEW next \in Terminal,
               exec' = [exec EXCEPT ![l.exec] = next],
               lambdas' = lambdas \ {l},
               UNCHANGED <<clock, requested, attempt, finished>>
        PROVE  Ends(l)
    <2>1. /\ {l} \in SUBSET lambdas /\ \A k \in {l} : k.exec = l.exec
          /\ lambdas' = (lambdas \ {l}) \cup {}
      BY <1>3
    <2>2. Leaves(l.exec, next, {})
      BY <1>1, <1>3, <2>1 DEF Leaves
    <2>3. QED
      BY <2>2 DEF Ends
  <1>4. LockHeld(l) => Ends(l)
    <2> SUFFICES ASSUME LockHeld(l)
                 PROVE  Ends(l)
      OBVIOUS
    <2>1. CASE Awaited(l)
      BY <1>3, <2>1 DEF LockHeld, Terminal
    <2>2. CASE ~Awaited(l)
      BY <2>2 DEF LockHeld, Ends
    <2>3. QED
      BY <2>1, <2>2
  <1>5. MarkReturns(l) => Ends(l)
    <2> SUFFICES ASSUME MarkReturns(l)
                 PROVE  Ends(l)
      OBVIOUS
    <2>1. CASE Awaited(l)
      <3>1. PICK next \in Terminal : exec' = [exec EXCEPT ![l.exec] = next]
        BY <2>1 DEF MarkReturns, Returns, Terminal
      <3>2. lambdas' = lambdas \ {l}
        BY <2>1 DEF MarkReturns, Returns
      <3>3. QED
        BY <1>3, <2>1, <3>1, <3>2 DEF MarkReturns, Returns
    <2>2. CASE ~Awaited(l)
      BY <2>2 DEF MarkReturns, Returns, Ends
    <2>3. QED
      BY <2>1, <2>2
  <1>6. QED
    BY <1>2, <1>4, <1>5

\* The invocation after a move.
LEMMA AdvanceSame ==
    ASSUME TypeOK, NEW l \in lambdas, NEW pc
    PROVE  /\ SameCall(l, [l EXCEPT !.pc = pc])
           /\ [l EXCEPT !.pc = pc].pc = pc
           /\ Advance(l, pc) = (lambdas \ {l}) \cup {[l EXCEPT !.pc = pc]}
  BY DEF TypeOK, Invocations, SameCall, Advance

\* Each step of an invocation keeps RunInv and RowInv.  First the accesses to
\* S3, of which the lock knows nothing.
LEMMA StoreSteps ==
    ASSUME LeaseInv, NEW l \in lambdas,
           \/ CheckShard(l) \/ PutShard(l) \/ ReadShards(l) \/ PutRankings(l)
    PROVE  RunInv' /\ RowInv'
  <1> USE DEF LeaseInv
  <1> DEFINE Moves(m) ==
        /\ SameCall(l, m)
        /\ m.pc = "return" => l.step \notin Shards \cup {"Acquire"}
        /\ ~(l.step = "Reduce" /\ l.pc = "renew")
        /\ lambdas' = (lambdas \ {l}) \cup {m}
        /\ UNCHANGED <<clock, row, exec, requested, attempt, finished>>
  <1>1. CASE CheckShard(l)
    <2>1. PICK pc \in {"renew", "put"} : lambdas' = Advance(l, pc)
      BY <1>1 DEF CheckShard
    <2>2. Moves([l EXCEPT !.pc = pc])
      BY <1>1, <2>1, AdvanceSame DEF CheckShard
    <2>3. QED
      BY <2>2, MoveKeepsRun, MoveKeepsRow
  <1>2. CASE PutShard(l)
    <2>1. Moves([l EXCEPT !.pc = "renew"])
      BY <1>2, AdvanceSame DEF PutShard
    <2>2. QED
      BY <2>1, MoveKeepsRun, MoveKeepsRow
  <1>3. CASE ReadShards(l)
    <2>1. Moves([l EXCEPT !.pc = "put", !.seen = stored])
      BY <1>3 DEF ReadShards, SameCall, TypeOK, Invocations
    <2>2. QED
      BY <2>1, MoveKeepsRun, MoveKeepsRow
  <1>4. CASE PutRankings(l)
    <2>1. Moves([l EXCEPT !.pc = "return"])
      BY <1>4, AdvanceSame, PipelineAssumption DEF PutRankings, LambdaSteps
    <2>2. QED
      BY <2>1, MoveKeepsRun, MoveKeepsRow
  <1>5. QED
    BY <1>1, <1>2, <1>3, <1>4

\* Nobody is idle for the acquire that goes through but its caller.
LEMMA AcquireStep ==
    ASSUME LeaseInv, NEW l \in lambdas, AcquireLock(l)
    PROVE  RunInv' /\ RowInv'
  <1> USE DEF LeaseInv
  <1> DEFINE m == [l EXCEPT !.pc = "return"]
  <1>1. SameCall(l, m) /\ lambdas' = (lambdas \ {l}) \cup {m}
    BY AdvanceSame DEF AcquireLock
  <1>2. UNCHANGED <<clock, exec, requested, attempt, finished>>
    BY DEF AcquireLock
  <1> HIDE DEF m
  <1>3. RunInv'
    BY <1>1, <1>2, MoveKeepsRun
  <1>4. Idle
    BY IdleWhen DEF AcquireLock, Acquire
  <1>5. /\ row'.status = "IN_PROGRESS"
        /\ row'.ownerToken = l.exec
        /\ row'.expiresAt = clock + AcquireLease
    BY DEF AcquireLock, Acquire
  <1>6. clock \in Nat /\ l.deadline \in Nat /\ ShardBudget \in Nat
    BY RetryBudgetFacts DEF TypeOK, Invocations
  <1>7. Working' = {}
    BY <1>2, <1>4 DEF Idle, Working
  <1>8. LeaseBounded'
    BY <1>2, <1>5, <1>6, LeaseAssumption, LeaseMarginAssumption DEF LeaseBounded
  <1>9. ASSUME NEW k \in lambdas', k.step = "Acquire", k.pc = "return", Awaited(k)'
        PROVE  k = m
    BY <1>1, <1>2, <1>4, <1>9 DEF Idle, Awaited
  <1>10. WorkingOwnsRow'
    <2>1. Holds(l.exec)'
      BY <1>5 DEF Holds
    <2>2. m.exec = l.exec
      BY <1>1 DEF SameCall
    <2>3. QED
      BY <1>7, <1>9, <2>1, <2>2 DEF WorkingOwnsRow
  <1>11. \A k \in lambdas' : Awaited(k)' => k.step \notin Shards /\ k.step # "Reduce"
    <2>1. \A k \in lambdas' : k.exec \in Owners
      BY <1>1 DEF TypeOK, Invocations, SameCall
    <2>2. QED
      BY <1>7, <2>1, PipelineAssumption DEF Awaited, Working, LambdaSteps
  <1>12. \A e \in Owners, s \in Shards : ~Startable(e, s)'
    BY <1>7 DEF Startable, Working
  <1>13. l.step = "Acquire" => m.deadline + ShardBudget < row'.expiresAt
    BY <1>1, <1>5, <1>6, PipelineAssumption, LeaseAssumption, LeaseMarginAssumption
       DEF RunInv, Timely, SameCall, LambdaSteps
  <1>14. LeaseAhead'
    BY <1>1, <1>9, <1>11, <1>12, <1>13 DEF LeaseAhead, SameCall
  <1>15. QED
    BY <1>3, <1>8, <1>10, <1>14 DEF RowInv

\* A renewal of the row by its owner only moves the end of the lease.
LEMMA RenewShardStep ==
    ASSUME LeaseInv, NEW l \in lambdas, RenewShard(l)
    PROVE  RunInv' /\ RowInv'
  <1> USE DEF LeaseInv
  <1> DEFINE m == [l EXCEPT !.pc = "return"]
  <1>1. SameCall(l, m) /\ lambdas' = (lambdas \ {l}) \cup {m}
    BY AdvanceSame DEF RenewShard
  <1>2. UNCHANGED <<clock, exec, requested, attempt, finished>> /\ l.step \in Shards
    BY DEF RenewShard
  <1> HIDE DEF m
  <1>3. RunInv'
    BY <1>1, <1>2, MoveKeepsRun
  <1>4. clock \in Nat /\ l.deadline \in Nat /\ row.expiresAt \in Nat /\ ShardBudget \in Nat
    BY RetryBudgetFacts DEF TypeOK, Invocations, Rows
  <1>5. /\ row'.status = row.status
        /\ row'.ownerToken = row.ownerToken
        /\ row'.expiresAt = clock + ShardRenewLease
    BY DEF RenewShard, Renew, TypeOK, Rows
  <1>6. row.expiresAt <= row'.expiresAt
    BY <1>5 DEF LeaseBounded
  <1>7. LeaseBounded'
    BY <1>2, <1>4, <1>5, LeaseAssumption DEF LeaseBounded
  <1>8. l.step # "Acquire" /\ l.step # "Reduce"
    BY <1>2, PipelineAssumption DEF LambdaSteps
  <1>9. WorkingOwnsRow'
    BY <1>1, <1>2, <1>5, <1>8 DEF WorkingOwnsRow, Working, Holds, Awaited, SameCall
  <1>10. l.deadline + ShardBudget < row'.expiresAt
    BY <1>4, <1>5, PipelineAssumption, LeaseAssumption, LeaseMarginAssumption
       DEF RunInv, Timely
  <1>11. \A x \in Int : x < row.expiresAt => x < row'.expiresAt
    BY <1>4, <1>5, <1>6, LeaseAssumption
  <1>12. ASSUME NEW k \in lambdas, k # l, Awaited(k)'
         PROVE  LeaseAhead!1!(k)'
    <2>1. Awaited(k)
      BY <1>2, <1>12 DEF Awaited
    <2>2. k \in Invocations /\ k.deadline \in Nat /\ k.attempt \in 1..MaxAttempts
      BY DEF TypeOK, Invocations
    <2>3. /\ RetryBudget(k.attempt) \in Nat
          /\ k.deadline + RetryBudget(k.attempt) \in Int
          /\ k.deadline + ShardBudget \in Int
          /\ k.deadline + LambdaLimit \in Int
      BY <1>4, <2>2, RetryBudgetFacts, PipelineAssumption
    <2>4. QED
      BY <1>11, <2>1, <2>2, <2>3 DEF LeaseAhead
  <1>13. LeaseAhead!1!(m)'
    <2>1. Awaited(m)' => Awaited(l)
      BY <1>1, <1>2 DEF Awaited, SameCall
    <2>2. l.attempt \in 1..MaxAttempts
      BY DEF TypeOK, Invocations
    <2>3. RetryBudget(l.attempt) \in Nat
      BY <2>2, RetryBudgetFacts
    <2>4. Awaited(l) => l.deadline + RetryBudget(l.attempt) < row'.expiresAt
      BY <1>2, <1>4, <1>11, <2>3 DEF LeaseAhead
    <2>5. QED
      BY <1>1, <1>8, <1>10, <2>1, <2>4 DEF SameCall
  <1>14. \A e \in Owners, s \in Shards :
            Startable(e, s)' => clock + ShardBudget < row'.expiresAt
    BY <1>2, <1>4, <1>11 DEF LeaseAhead, Startable, RunningShards
  <1>15. LeaseAhead'
    BY <1>1, <1>2, <1>12, <1>13, <1>14 DEF LeaseAhead
  <1>16. QED
    BY <1>3, <1>7, <1>9, <1>15 DEF RowInv
\* When the reducer renews, its execution is the only one that works.
LEMMA RenewReduceStep ==
    ASSUME LeaseInv, NEW l \in lambdas, RenewReduce(l)
    PROVE  RunInv' /\ RowInv'
  <1> USE DEF LeaseInv
  <1> DEFINE m == [l EXCEPT !.pc = "read"]
  <1>1. SameCall(l, m) /\ m.pc = "read" /\ lambdas' = (lambdas \ {l}) \cup {m}
    BY AdvanceSame DEF RenewReduce
  <1>2. UNCHANGED <<clock, exec, requested, attempt, finished>> /\ l.step = "Reduce"
    BY DEF RenewReduce
  <1> HIDE DEF m
  <1>3. RunInv'
    BY <1>1, <1>2, MoveKeepsRun
  <1>4. clock \in Nat /\ l.exec \in Owners /\ \A k \in lambdas : k.deadline \in Nat
    BY DEF TypeOK, Invocations
  <1>5. /\ Holds(l.exec)
        /\ row'.status = row.status
        /\ row'.ownerToken = row.ownerToken
        /\ row'.expiresAt = clock + ReducerRenewLease
    BY DEF RenewReduce, Renew, TypeOK, Rows
  <1>6. exec[l.exec] \notin {"AcquireExecutionLock", "CollectHistoryShards"}
    BY <1>2 DEF RunInv, LambdasFollowExec
  <1>7. LeaseBounded'
    BY <1>2, <1>4, <1>5, LeaseAssumption, LeaseMarginAssumption DEF LeaseBounded
  <1>8. WorkingOwnsRow'
    BY <1>1, <1>2, <1>5, PipelineAssumption
       DEF WorkingOwnsRow, Working, Holds, Awaited, SameCall
  <1>9. ASSUME NEW k \in lambdas', Awaited(k)'
        PROVE  /\ ~(k.step = "Acquire" /\ k.pc = "return")
               /\ k.step \notin Shards
    <2>1. k.step \in Shards => exec[k.exec] = "CollectHistoryShards" /\ k.exec \in Working
      BY <1>1, <1>2, <1>4, <1>9, PipelineAssumption
         DEF Awaited, Working, LambdaSteps, SameCall, TypeOK, Invocations
    <2>2. k.step = "Acquire" /\ k.pc = "return" => k \in lambdas /\ Awaited(k)
      BY <1>1, <1>2, <1>9 DEF Awaited
    <2>3. k.step = "Acquire" /\ k.pc = "return" => exec[k.exec] = "AcquireExecutionLock"
      BY <2>2, PipelineAssumption DEF Awaited, LambdaSteps
    <2>4. QED
      BY <1>5, <1>6, <2>1, <2>2, <2>3 DEF WorkingOwnsRow, Holds
  <1>10. \A e \in Owners, s \in Shards : ~Startable(e, s)'
    BY <1>2, <1>5, <1>6 DEF Startable, WorkingOwnsRow, Working, Holds
  <1>11. ASSUME NEW k \in lambdas', k.step = "Reduce"
         PROVE  k.deadline + LambdaLimit < row'.expiresAt /\ k.deadline < row'.expiresAt
    <2>1. k.deadline \in Nat /\ k.deadline <= clock + LambdaLimit
      BY <1>1, <1>2, <1>4, <1>11 DEF RunInv, Timely, SameCall, LambdaSteps
    <2>2. QED
      BY <1>4, <1>5, <2>1, PipelineAssumption, LeaseAssumption, LeaseMarginAssumption
  <1>12. LeaseAhead'
    BY <1>9, <1>10, <1>11 DEF LeaseAhead
  <1>13. QED
    BY <1>3, <1>7, <1>8, <1>12 DEF RowInv

\* The row is closed only when nobody works on the date.
LEMMA MarkStep ==
    ASSUME LeaseInv, NEW l \in lambdas, Mark(l), clock' = clock
    PROVE  Idle /\ LeaseBounded'
  <1> USE DEF LeaseInv
  <1>1. Idle
    BY IdleWhen DEF Mark, MarkComplete, MarkFailed
  <1>2. row'.expiresAt = row.expiresAt
    BY DEF Mark, MarkComplete, MarkFailed, TypeOK, Rows
  <1>3. QED
    BY <1>1, <1>2 DEF LeaseBounded

LEMMA MarkRowStep ==
    ASSUME LeaseInv, TypeOK', NEW l \in lambdas, MarkRow(l)
    PROVE  RunInv' /\ RowInv'
  <1> USE DEF LeaseInv
  <1> DEFINE m == [l EXCEPT !.pc = "return"]
  <1>1. SameCall(l, m) /\ lambdas' = (lambdas \ {l}) \cup {m}
    BY AdvanceSame DEF MarkRow
  <1>2. UNCHANGED <<clock, exec, requested, attempt, finished>>
    BY DEF MarkRow
  <1> HIDE DEF m
  <1>3. RunInv'
    BY <1>1, <1>2, MoveKeepsRun
  <1>4. Idle /\ LeaseBounded'
    BY <1>2, MarkStep DEF MarkRow
  <1>5. l.step # "Acquire"
    BY DEF MarkRow, Mark
  <1>6. Idle'
    BY <1>1, <1>2, <1>4, <1>5 DEF Idle, Working, Awaited, SameCall
  <1>7. QED
    BY <1>3, <1>4, <1>6, IdleKeepsRow

\* The ways an invocation ends early, or ends its execution.
LEMMA EndSteps ==
    ASSUME LeaseInv, TypeOK', NEW l \in lambdas,
           \/ AcquireRefused(l) \/ AcquireReplyLost(l) \/ RenewLost(l)
           \/ MarkLost(l) \/ MarkReplyLost(l) \/ MarkReturns(l) \/ LambdaDies(l)
    PROVE  RunInv' /\ RowInv'
  <1> USE DEF LeaseInv
  <1>1. Ends(l)
    BY EndingSteps DEF AcquireRefused, AcquireReplyLost, RenewLost, MarkLost,
                       MarkReplyLost, LambdaDies
  <1>2. RunInv'
    BY <1>1, EndKeeps
  <1>3. CASE row' = row
    BY <1>1, <1>2, <1>3, EndKeeps
  <1>4. CASE row' # row
    <2>1. AcquireReplyLost(l) \/ MarkReplyLost(l)
      BY <1>4 DEF AcquireRefused, RenewLost, MarkLost, MarkReturns, Returns, LambdaDies
    <2>2. clock' = clock
      BY <2>1 DEF AcquireReplyLost, LockHeld, MarkReplyLost, Raises
    <2>3. CASE AcquireReplyLost(l)
      <3>1. Idle
        BY <2>3, IdleWhen DEF AcquireReplyLost, Acquire
      <3>2. row'.expiresAt = clock + AcquireLease
        BY <2>3 DEF AcquireReplyLost, Acquire
      <3>3. LeaseBounded'
        BY <2>2, <3>2, LeaseAssumption, LeaseMarginAssumption DEF LeaseBounded, TypeOK
      <3>4. QED
        BY <1>1, <1>2, <3>1, <3>3, EndKeeps, IdleKeepsRow
    <2>4. CASE MarkReplyLost(l)
      <3>1. Idle /\ LeaseBounded'
        BY <2>2, <2>4, MarkStep DEF MarkReplyLost
      <3>2. QED
        BY <1>1, <1>2, <3>1, EndKeeps, IdleKeepsRow
    <2>5. QED
      BY <2>1, <2>3, <2>4
  <1>5. QED
    BY <1>3, <1>4

LEMMA AbortStep ==
    ASSUME LeaseInv, NEW e \in Owners, AbortExecution(e)
    PROVE  RunInv' /\ RowInv'
  <1> USE DEF LeaseInv
  <1>1. {} \in SUBSET lambdas /\ lambdas' = (lambdas \ {}) \cup {}
    BY DEF AbortExecution
  <1>2. Leaves(e, "Aborted", {})
    BY <1>1 DEF AbortExecution, Leaves, Terminal
  <1>3. row' = row
    BY DEF AbortExecution
  <1>4. QED
    BY <1>2, <1>3, LeaveKeepsRun, LeaveKeepsRow
\* A retry has its wait and its own limit out of the budget of the shard.
LEMMA RetryStep ==
    ASSUME LeaseInv, NEW l \in lambdas, ServiceError(l),
           l.step \in Shards, l.attempt < MaxAttempts
    PROVE  RunInv' /\ RowInv'
  <1> USE DEF LeaseInv, RunInv
  <1> DEFINE e == l.exec
             s == l.step
             m == ShardCall(e, s, l.attempt + 1, RetryWait)
  <1>1. l \in Invocations /\ e \in Owners /\ l.attempt \in 1..MaxAttempts
    BY DEF TypeOK, Invocations
  <1>2. /\ exec[e] = "CollectHistoryShards"
        /\ attempt[e][s] = l.attempt
        /\ s \notin finished[e]
        /\ s # "Acquire" /\ s # "Reduce" /\ s # "Complete" /\ s # "Failed"
        /\ s \notin LambdaSteps
    BY PipelineAssumption DEF ServiceError, Awaited, LambdaSteps
  <1>3. /\ lambdas' = lambdas \cup {m}
        /\ UNCHANGED <<clock, row, exec, requested, finished>>
    BY DEF ServiceError
  <1>4. /\ attempt'[e][s] = l.attempt + 1
        /\ \A x \in Owners, t \in Shards :
              x # e \/ t # s => attempt'[x][t] = attempt[x][t]
    BY <1>1, <1>2 DEF ServiceError, TypeOK
  <1>5. /\ m.exec = e /\ m.step = s /\ m.attempt = l.attempt + 1 /\ m.pc = "check"
        /\ m.deadline = clock + RetryWait + LambdaLimit
    BY DEF ShardCall
  <1> HIDE DEF m
  <1>6. \A x \in Owners, t \in Shards :
           /\ attempt[x][t] \in Nat /\ attempt'[x][t] \in Nat
           /\ attempt'[x][t] = 0 <=> attempt[x][t] = 0
           /\ attempt'[x][t] > 0 <=> attempt[x][t] > 0
           /\ attempt[x][t] <= attempt'[x][t]
    BY <1>1, <1>2, <1>4, PipelineAssumption DEF TypeOK
  <1>7. \A x \in Owners : RunningShards(x)' = RunningShards(x)
    BY <1>3, <1>6 DEF RunningShards, TypeOK
  <1>8. \A x \in Owners, t \in Shards : Startable(x, t)' => Startable(x, t)
    BY <1>3, <1>6, <1>7 DEF Startable
  <1>9. ASSUME NEW k \in lambdas, Awaited(k)'
        PROVE  Awaited(k)
    <2>1. k.exec \in Owners /\ k.attempt \in Nat
      BY DEF TypeOK, Invocations
    <2>2. k.step \in Shards => k.attempt <= attempt[k.exec][k.step]
      BY DEF LambdasFollowExec
    <2>3. CASE k.exec = e /\ k.step = s
      BY <1>1, <1>2, <1>3, <1>4, <1>9, <2>1, <2>2, <2>3 DEF Awaited
    <2>4. CASE ~(k.exec = e /\ k.step = s)
      BY <1>3, <1>4, <1>9, <2>1, <2>4 DEF Awaited
    <2>5. QED
      BY <2>3, <2>4
  <1>10. Timely'
    BY <1>2, <1>3, <1>5, PipelineAssumption DEF Timely, TypeOK
  <1>11. MapUnfinished'
    BY <1>3, <1>6 DEF MapUnfinished
  <1>12. LambdasFollowExec'
    <2> SUFFICES ASSUME NEW k \in lambdas'
                 PROVE  LambdasFollowExec!(k)'
      BY DEF LambdasFollowExec
    <2>1. CASE k \in lambdas
      <3>1. k.exec \in Owners /\ k.attempt \in Nat
        BY <2>1 DEF TypeOK, Invocations
      <3>2. k.step \in Shards => k.attempt <= attempt'[k.exec][k.step]
        BY <1>6, <2>1, <3>1 DEF LambdasFollowExec, TypeOK
      <3>3. QED
        BY <1>3, <2>1, <3>2 DEF LambdasFollowExec
    <2>2. CASE k = m
      <3>1. s \in requested[e]
        BY DEF LambdasFollowExec
      <3>2. m.attempt <= attempt'[m.exec][m.step]
        BY <1>1, <1>4, <1>5
      <3>3. QED
        BY <1>2, <1>3, <1>5, <2>2, <3>1, <3>2
    <2>3. QED
      BY <1>3, <2>1, <2>2
  <1>13. RunningHaveLambda'
    <2> SUFFICES ASSUME NEW x \in Owners, exec[x] = "CollectHistoryShards",
                        NEW t \in RunningShards(x)
                 PROVE  \E k \in lambdas' : k.exec = x /\ k.step = t /\ Awaited(k)'
      BY <1>3, <1>7 DEF RunningHaveLambda
    <2>1. t \in Shards
      BY DEF RunningShards, TypeOK
    <2>2. CASE x = e /\ t = s
      BY <1>2, <1>3, <1>4, <1>5, <2>2 DEF Awaited
    <2>3. CASE ~(x = e /\ t = s)
      <3>1. PICK k \in lambdas : k.exec = x /\ k.step = t /\ Awaited(k)
        BY DEF RunningHaveLambda
      <3>2. Awaited(k)'
        BY <1>3, <1>4, <2>1, <2>3, <3>1 DEF Awaited
      <3>3. QED
        BY <1>3, <3>1, <3>2
    <2>4. QED
      BY <2>2, <2>3
  <1>14. ReduceHasLambda'
    BY <1>3 DEF ReduceHasLambda
  <1>15. LeaseBounded'
    BY <1>3 DEF LeaseBounded
  <1>16. WorkingOwnsRow'
    BY <1>2, <1>3, <1>5, <1>9 DEF WorkingOwnsRow, Working, Holds
  <1>17. m.deadline + RetryBudget(m.attempt) < row.expiresAt
    <2>1. l.deadline + RetryBudget(l.attempt) < row.expiresAt
      BY DEF ServiceError, LeaseAhead
    <2>2. l.attempt + 1 \in 1..MaxAttempts
      BY <1>1, PipelineAssumption
    <2>3. /\ RetryBudget(l.attempt + 1) + RetryWait + LambdaLimit = RetryBudget(l.attempt)
          /\ RetryBudget(l.attempt + 1) \in Nat /\ RetryBudget(l.attempt) \in Nat
      BY <1>1, <2>2, RetryBudgetFacts
    <2>4. clock <= l.deadline /\ clock \in Nat /\ l.deadline \in Nat /\ row.expiresAt \in Nat
      BY <1>1 DEF Timely, TypeOK, Rows, Invocations
    <2>5. QED
      BY <1>5, <2>1, <2>3, <2>4, PipelineAssumption
  <1>18. LeaseAhead'
    BY <1>2, <1>3, <1>5, <1>8, <1>9, <1>17 DEF LeaseAhead
  <1>19. QED
    BY <1>10, <1>11, <1>12, <1>13, <1>14, <1>15, <1>16, <1>18 DEF RowInv

LEMMA ServiceErrorStep ==
    ASSUME LeaseInv, NEW l \in lambdas, ServiceError(l)
    PROVE  RunInv' /\ RowInv'
  <1> USE DEF LeaseInv
  <1>1. CASE ~(l.step \in Shards /\ l.attempt < MaxAttempts)
    <2>1. {} \in SUBSET {l} /\ lambdas = lambdas \ {}
      OBVIOUS
    <2>2. PICK next, more : Leaves(l.exec, next, more)
      BY <1>1, <2>1, FailureLeaves DEF ServiceError
    <2>3. row' = row
      BY DEF ServiceError
    <2>4. l.exec \in Owners
      BY DEF TypeOK, Invocations
    <2>5. QED
      BY <2>2, <2>3, <2>4, LeaveKeepsRun, LeaveKeepsRow
  <1>2. QED
    BY <1>1, RetryStep

\* A new execution finds no invocation of its own.
LEMMA StartStep ==
    ASSUME LeaseInv, NEW e \in Owners, NEW shards \in (SUBSET Shards) \ {{}},
           StartExecution(e, shards)
    PROVE  RunInv' /\ RowInv'
  <1> USE DEF LeaseInv, RunInv
  <1> DEFINE m == Call(e, "Acquire", "acquire")
  <1>1. /\ exec[e] = "NotStarted"
        /\ exec'[e] = "AcquireExecutionLock"
        /\ \A x \in Owners \ {e} : exec'[x] = exec[x]
        /\ requested'[e] = shards
        /\ \A x \in Owners \ {e} : requested'[x] = requested[x]
        /\ lambdas' = lambdas \cup {m}
        /\ UNCHANGED <<clock, row, attempt, finished>>
    BY DEF StartExecution, TypeOK
  <1>2. /\ m.exec = e /\ m.step = "Acquire" /\ m.pc = "acquire"
        /\ m.deadline = clock + LambdaLimit
    BY DEF Call
  <1> HIDE DEF m
  <1>3. \A k \in lambdas : k.exec \in Owners \ {e}
    BY <1>1 DEF LambdasFollowExec, TypeOK, Invocations
  <1>4. \A k \in lambdas : Awaited(k)' <=> Awaited(k)
    BY <1>1, <1>3 DEF Awaited
  <1>5. "Acquire" \notin Shards
    BY PipelineAssumption DEF LambdaSteps
  <1>6. \A x \in Owners \ {e} : RunningShards(x)' = RunningShards(x)
    BY <1>1 DEF RunningShards
  <1>7. Timely'
    BY <1>1, <1>2, PipelineAssumption DEF Timely, TypeOK
  <1>8. MapUnfinished'
    <2> SUFFICES ASSUME NEW x \in Owners
                 PROVE  MapUnfinished!(x)'
      BY DEF MapUnfinished
    <2>1. CASE x = e
      <3>1. finished[e] = {} /\ \A t \in Shards : attempt[e][t] = 0
        BY <1>1 DEF MapUnfinished
      <3>2. shards # {}
        OBVIOUS
      <3>3. QED
        BY <1>1, <2>1, <3>1, <3>2
    <2>2. CASE x # e
      BY <1>1, <2>2 DEF MapUnfinished
    <2>3. QED
      BY <2>1, <2>2
  <1>9. LambdasFollowExec'
    <2> SUFFICES ASSUME NEW k \in lambdas'
                 PROVE  LambdasFollowExec!(k)'
      BY DEF LambdasFollowExec
    <2>1. CASE k \in lambdas
      BY <1>1, <1>3, <2>1 DEF LambdasFollowExec
    <2>2. CASE k = m
      BY <1>1, <1>2, <1>5, <2>2
    <2>3. QED
      BY <1>1, <2>1, <2>2
  <1>10. RunningHaveLambda'
    <2> SUFFICES ASSUME NEW x \in Owners, exec'[x] = "CollectHistoryShards",
                        NEW t \in RunningShards(x)'
                 PROVE  \E k \in lambdas' : k.exec = x /\ k.step = t /\ Awaited(k)'
      BY DEF RunningHaveLambda
    <2>1. x # e
      BY <1>1
    <2>2. QED
      BY <1>1, <1>4, <1>6, <2>1 DEF RunningHaveLambda
  <1>11. ReduceHasLambda'
    BY <1>1 DEF ReduceHasLambda
  <1>12. LeaseBounded'
    BY <1>1 DEF LeaseBounded
  <1>13. WorkingOwnsRow'
    BY <1>1, <1>2, <1>4 DEF WorkingOwnsRow, Working, Holds
  <1>14. \A x \in Owners, t \in Shards : Startable(x, t)' => Startable(x, t)
    BY <1>1, <1>6 DEF Startable
  <1>15. LeaseAhead'
    BY <1>1, <1>2, <1>4, <1>5, <1>14 DEF LeaseAhead
  <1>16. QED
    BY <1>7, <1>8, <1>9, <1>10, <1>11, <1>12, <1>13, <1>15 DEF RowInv
\* A shard starts with the budget Startable guarantees.
LEMMA StartShardStep ==
    ASSUME LeaseInv, NEW e \in Owners, NEW s \in Shards, StartShard(e, s)
    PROVE  RunInv' /\ RowInv'
  <1> USE DEF LeaseInv, RunInv
  <1> DEFINE m == ShardCall(e, s, 1, 0)
  <1>1. /\ exec[e] = "CollectHistoryShards"
        /\ s \in requested[e] /\ attempt[e][s] = 0
        /\ attempt'[e][s] = 1
        /\ \A x \in Owners, t \in Shards :
              x # e \/ t # s => attempt'[x][t] = attempt[x][t]
        /\ lambdas' = lambdas \cup {m}
        /\ UNCHANGED <<clock, row, exec, requested, finished>>
    BY DEF StartShard, Startable, TypeOK
  <1>2. /\ m.exec = e /\ m.step = s /\ m.attempt = 1 /\ m.pc = "check"
        /\ m.deadline = clock + LambdaLimit
    BY PipelineAssumption DEF ShardCall, TypeOK
  <1> HIDE DEF m
  <1>3. s \notin LambdaSteps /\ s # "Acquire" /\ s # "Reduce"
    BY PipelineAssumption DEF LambdaSteps
  <1>4. \A k \in lambdas : k.exec \in Owners /\ ~(k.exec = e /\ k.step = s)
    BY <1>1 DEF LambdasFollowExec, TypeOK, Invocations
  <1>5. \A k \in lambdas : Awaited(k)' <=> Awaited(k)
    BY <1>1, <1>4 DEF Awaited
  <1>6. \A x \in Owners \ {e} : RunningShards(x)' = RunningShards(x)
    BY <1>1 DEF RunningShards, TypeOK
  <1>7. \A t \in RunningShards(e)' : t = s \/ t \in RunningShards(e)
    BY <1>1 DEF RunningShards, TypeOK
  <1>8. Timely'
    BY <1>1, <1>2, <1>3, PipelineAssumption DEF Timely, TypeOK
  <1>9. MapUnfinished'
    BY <1>1 DEF MapUnfinished
  <1>10. LambdasFollowExec'
    <2> SUFFICES ASSUME NEW k \in lambdas'
                 PROVE  LambdasFollowExec!(k)'
      BY DEF LambdasFollowExec
    <2>1. CASE k \in lambdas
      BY <1>1, <1>4, <2>1 DEF LambdasFollowExec
    <2>2. CASE k = m
      BY <1>1, <1>2, <1>3, <2>2 DEF LambdaSteps
    <2>3. QED
      BY <1>1, <2>1, <2>2
  <1>11. RunningHaveLambda'
    <2> SUFFICES ASSUME NEW x \in Owners, exec[x] = "CollectHistoryShards",
                        NEW t \in RunningShards(x)'
                 PROVE  \E k \in lambdas' : k.exec = x /\ k.step = t /\ Awaited(k)'
      BY <1>1 DEF RunningHaveLambda
    <2>1. CASE x = e /\ t = s
      <3>1. s \notin finished[e]
        BY <1>1, <2>1 DEF RunningShards
      <3>2. QED
        BY <1>1, <1>2, <2>1, <3>1 DEF Awaited
    <2>2. CASE ~(x = e /\ t = s)
      <3>1. t \in RunningShards(x)
        BY <1>6, <1>7, <2>2
      <3>2. QED
        BY <1>1, <1>5, <3>1 DEF RunningHaveLambda
    <2>3. QED
      BY <2>1, <2>2
  <1>12. ReduceHasLambda'
    BY <1>1 DEF ReduceHasLambda
  <1>13. LeaseBounded'
    BY <1>1 DEF LeaseBounded
  <1>14. WorkingOwnsRow'
    BY <1>1, <1>2, <1>3, <1>5 DEF WorkingOwnsRow, Working, Holds
  <1>15. clock + ShardBudget < row.expiresAt
    BY DEF StartShard, LeaseAhead
  <1>16. m.deadline + RetryBudget(m.attempt) < row.expiresAt
    <2>1. RetryBudget(1) \in Nat
      BY RetryBudgetFacts, PipelineAssumption
    <2>2. QED
      BY <1>2, <1>15, <2>1, PipelineAssumption DEF ShardBudget, TypeOK
  <1>17. LeaseAhead'
    BY <1>1, <1>2, <1>3, <1>5, <1>15, <1>16 DEF LeaseAhead
  <1>18. QED
    BY <1>8, <1>9, <1>10, <1>11, <1>12, <1>13, <1>14, <1>17 DEF RowInv

\* An invocation returns to nobody.
LEMMA UnawaitedReturn ==
    ASSUME LeaseInv, NEW l \in lambdas, ~Awaited(l),
           lambdas' = lambdas \ {l},
           UNCHANGED <<clock, row, exec, requested, attempt, finished>>
    PROVE  RunInv' /\ RowInv'
  BY EndKeeps DEF Ends

\* The Map starts with no iteration under way and the lease just acquired.
LEMMA AcquireReturnsStep ==
    ASSUME LeaseInv, NEW l \in lambdas, AcquireReturns(l)
    PROVE  RunInv' /\ RowInv'
  <1> USE DEF LeaseInv, RunInv
  <1>1. CASE ~Awaited(l)
    <2>1. /\ lambdas' = lambdas \ {l}
          /\ UNCHANGED <<clock, row, exec, requested, attempt, finished>>
      BY <1>1 DEF AcquireReturns, Returns
    <2>2. QED
      BY <1>1, <2>1, UnawaitedReturn
  <1>2. CASE Awaited(l)
    <2> DEFINE e == l.exec
    <2>1. e \in Owners /\ l.step = "Acquire" /\ l.pc = "return"
      BY DEF AcquireReturns, Returns, TypeOK, Invocations
    <2>2. /\ exec'[e] = "CollectHistoryShards"
          /\ \A x \in Owners \ {e} : exec'[x] = exec[x]
          /\ lambdas' = lambdas \ {l}
          /\ UNCHANGED <<clock, row, requested, attempt, finished>>
      BY <1>2, <2>1 DEF AcquireReturns, Returns, TypeOK
    <2>3. exec[e] = "AcquireExecutionLock"
      BY <1>2, <2>1, PipelineAssumption DEF Awaited, LambdaSteps
    <2>4. finished[e] = {} /\ requested[e] # {} /\ \A s \in Shards : attempt[e][s] = 0
      BY <2>1, <2>3 DEF MapUnfinished
    <2>5. \A k \in lambdas : k.exec \in Owners
      BY DEF TypeOK, Invocations
    <2>6. ASSUME NEW k \in lambdas, k.exec = e
          PROVE  k.step \notin Shards /\ k.step \notin {"Reduce", "Complete", "Failed"}
      BY <2>3, <2>6 DEF LambdasFollowExec, Terminal
    <2>7. ASSUME NEW k \in lambdas', Awaited(k)'
          PROVE  k \in lambdas /\ Awaited(k)
      <3>1. k \in lambdas
        BY <2>2
      <3>2. CASE k.exec = e
        BY <2>2, <2>6, <2>7, <3>1, <3>2 DEF Awaited
      <3>3. CASE k.exec # e
        BY <2>2, <2>5, <2>7, <3>1, <3>3 DEF Awaited
      <3>4. QED
        BY <3>1, <3>2, <3>3
    <2>8. \A x \in Owners : RunningShards(x)' = RunningShards(x)
      BY <2>2 DEF RunningShards
    <2>9. RunningShards(e) = {}
      BY <2>1, <2>4 DEF RunningShards, TypeOK
    <2>10. Timely'
      BY <2>2 DEF Timely
    <2>11. MapUnfinished'
      BY <2>1, <2>2, <2>4 DEF MapUnfinished
    <2>12. LambdasFollowExec'
      <3> SUFFICES ASSUME NEW k \in lambdas'
                   PROVE  LambdasFollowExec!(k)'
        BY DEF LambdasFollowExec
      <3>1. k \in lambdas
        BY <2>2
      <3>2. QED
        BY <2>2, <2>5, <2>6, <3>1 DEF LambdasFollowExec
    <2>13. RunningHaveLambda'
      <3> SUFFICES ASSUME NEW x \in Owners, exec'[x] = "CollectHistoryShards",
                          NEW t \in RunningShards(x)
                   PROVE  \E k \in lambdas' : k.exec = x /\ k.step = t /\ Awaited(k)'
        BY <2>8 DEF RunningHaveLambda
      <3>1. x # e
        BY <2>9
      <3>2. PICK k \in lambdas : k.exec = x /\ k.step = t /\ Awaited(k)
        BY <2>2, <3>1 DEF RunningHaveLambda
      <3>3. k \in lambdas' /\ Awaited(k)'
        BY <2>2, <3>1, <3>2 DEF Awaited
      <3>4. QED
        BY <3>2, <3>3
    <2>14. ReduceHasLambda'
      BY <2>1, <2>2 DEF ReduceHasLambda
    <2>15. LeaseBounded'
      BY <2>2 DEF LeaseBounded
    <2>16. WorkingOwnsRow'
      BY <1>2, <2>1, <2>2, <2>7 DEF WorkingOwnsRow, Working, Holds
    <2>17. clock + ShardBudget < row.expiresAt
      <3>1. l.deadline + ShardBudget < row.expiresAt
        BY <1>2, <2>1 DEF LeaseAhead
      <3>2. clock <= l.deadline /\ clock \in Nat /\ l.deadline \in Nat
            /\ row.expiresAt \in Nat
        BY DEF Timely, TypeOK, Rows, Invocations
      <3>3. QED
        BY <3>1, <3>2, RetryBudgetFacts
    <2>18. LeaseAhead'
      <3>1. ASSUME NEW x \in Owners, NEW s \in Shards, Startable(x, s)'
            PROVE  clock + ShardBudget < row.expiresAt
        BY <2>17
      <3>2. QED
        BY <2>2, <2>7, <3>1 DEF LeaseAhead
    <2>19. QED
      BY <2>10, <2>11, <2>12, <2>13, <2>14, <2>15, <2>16, <2>18 DEF RowInv
  <1>3. QED
    BY <1>1, <1>2

\* The reducer ends, and its execution claims nothing of the lease any more.
LEMMA ReduceReturnsStep ==
    ASSUME LeaseInv, NEW l \in lambdas, ReduceReturns(l)
    PROVE  RunInv' /\ RowInv'
  <1> USE DEF LeaseInv, RunInv
  <1>1. CASE ~Awaited(l)
    <2>1. /\ lambdas' = lambdas \ {l}
          /\ UNCHANGED <<clock, row, exec, requested, attempt, finished>>
      BY <1>1 DEF ReduceReturns, Returns
    <2>2. QED
      BY <1>1, <2>1, UnawaitedReturn
  <1>2. CASE Awaited(l)
    <2> DEFINE e == l.exec
               m == Call(e, "Complete", "mark")
    <2>1. e \in Owners /\ l.step = "Reduce"
      BY DEF ReduceReturns, TypeOK, Invocations
    <2>2. /\ exec'[e] = "MarkExecutionComplete"
          /\ \A x \in Owners \ {e} : exec'[x] = exec[x]
          /\ lambdas' = (lambdas \ {l}) \cup {m}
          /\ UNCHANGED <<clock, row, requested, attempt, finished>>
      BY <1>2, <2>1 DEF ReduceReturns, Returns, TypeOK
    <2>3. exec[e] = "ReduceRankings"
      BY <1>2, <2>1, PipelineAssumption DEF Awaited, LambdaSteps
    <2>4. /\ m.exec = e /\ m.step = "Complete" /\ m.deadline = clock + LambdaLimit
      BY DEF Call
    <2> HIDE DEF m
    <2>5. \A k \in lambdas : k.exec \in Owners
      BY DEF TypeOK, Invocations
    <2>6. "Complete" \notin Shards
      BY PipelineAssumption DEF LambdaSteps
    <2>7. ASSUME NEW k \in lambdas', Awaited(k)'
          PROVE  k.step = "Complete" \/ (k \in lambdas /\ Awaited(k))
      BY <2>2, <2>4, <2>5, <2>7 DEF Awaited
    <2>8. \A x \in Owners : RunningShards(x)' = RunningShards(x)
      BY <2>2 DEF RunningShards
    <2>9. \A x \in Owners, s \in Shards : Startable(x, s)' => Startable(x, s)
      BY <2>2, <2>8 DEF Startable
    <2>10. Timely'
      BY <2>2, <2>4, PipelineAssumption DEF Timely, TypeOK
    <2>11. MapUnfinished'
      BY <2>1, <2>2, <2>3 DEF MapUnfinished
    <2>12. LambdasFollowExec'
      <3> SUFFICES ASSUME NEW k \in lambdas'
                   PROVE  LambdasFollowExec!(k)'
        BY DEF LambdasFollowExec
      <3>1. CASE k \in lambdas
        BY <2>2, <2>3, <2>5, <3>1 DEF LambdasFollowExec, Terminal
      <3>2. CASE k = m
        BY <2>2, <2>4, <2>6, <3>2
      <3>3. QED
        BY <2>2, <3>1, <3>2
    <2>13. RunningHaveLambda'
      <3> SUFFICES ASSUME NEW x \in Owners, exec'[x] = "CollectHistoryShards",
                          NEW t \in RunningShards(x)
                   PROVE  \E k \in lambdas' : k.exec = x /\ k.step = t /\ Awaited(k)'
        BY <2>8 DEF RunningHaveLambda
      <3>1. x # e /\ exec[x] = "CollectHistoryShards"
        BY <2>2
      <3>2. PICK k \in lambdas : k.exec = x /\ k.step = t /\ Awaited(k)
        BY <3>1 DEF RunningHaveLambda
      <3>3. k \in lambdas' /\ Awaited(k)'
        BY <2>2, <3>1, <3>2 DEF Awaited
      <3>4. QED
        BY <3>2, <3>3
    <2>14. ReduceHasLambda'
      BY <2>1, <2>2 DEF ReduceHasLambda
    <2>15. LeaseBounded'
      BY <2>2 DEF LeaseBounded
    <2>16. WorkingOwnsRow'
      BY <2>1, <2>2, <2>7 DEF WorkingOwnsRow, Working, Holds
    <2>17. LeaseAhead'
      BY <2>2, <2>6, <2>7, <2>9 DEF LeaseAhead
    <2>18. QED
      BY <2>10, <2>11, <2>12, <2>13, <2>14, <2>15, <2>16, <2>17 DEF RowInv
  <1>3. QED
    BY <1>1, <1>2
\* A shard renewed the lease before it returned, so that a shard in its place
\* or, after the last one, the reducer has all the time it may need.
LEMMA ShardReturnsStep ==
    ASSUME LeaseInv, NEW l \in lambdas, ShardReturns(l)
    PROVE  RunInv' /\ RowInv'
  <1> USE DEF LeaseInv, RunInv
  <1>1. CASE ~Awaited(l)
    <2>1. /\ lambdas' = lambdas \ {l}
          /\ UNCHANGED <<clock, row, exec, requested, attempt, finished>>
      BY <1>1 DEF ShardReturns, Returns
    <2>2. QED
      BY <1>1, <2>1, UnawaitedReturn
  <1>2. CASE Awaited(l)
    <2> DEFINE e == l.exec
               s == l.step
               done == finished[e] \cup {s}
               m == Call(e, "Reduce", "renew")
               next == exec'[e]
    <2>1. e \in Owners /\ s \in Shards /\ l.pc = "return"
      BY DEF ShardReturns, Returns, TypeOK, Invocations
    <2>2. exec[e] = "CollectHistoryShards" /\ s \notin LambdaSteps
      BY <1>2, <2>1, PipelineAssumption DEF Awaited, LambdaSteps
    <2>3. /\ \A x \in Owners \ {e} : exec'[x] = exec[x] /\ finished'[x] = finished[x]
          /\ finished'[e] = done
          /\ \/ done # requested[e] /\ next = "CollectHistoryShards"
                /\ lambdas' = lambdas \ {l}
             \/ done = requested[e] /\ next = "ReduceRankings"
                /\ lambdas' = (lambdas \ {l}) \cup {m}
          /\ UNCHANGED <<clock, row, requested, attempt>>
      BY <1>2, <2>1, <2>2 DEF ShardReturns, Returns, TypeOK
    <2>4. /\ m.exec = e /\ m.step = "Reduce" /\ m.pc = "renew"
          /\ m.deadline = clock + LambdaLimit
      BY DEF Call
    <2> HIDE DEF m
    <2>5. \A k \in lambdas : k.exec \in Owners
      BY DEF TypeOK, Invocations
    <2>6. \A k \in lambdas : k.exec = e => k.step \notin {"Reduce", "Complete", "Failed"}
      BY <2>2 DEF LambdasFollowExec, Terminal
    <2>7. s \in requested[e] /\ done \subseteq requested[e]
      BY <2>1 DEF LambdasFollowExec, MapUnfinished
    <2>8. "Reduce" \notin Shards
      BY PipelineAssumption DEF LambdaSteps
    <2>9. ASSUME NEW k \in lambdas, Awaited(k)'
          PROVE  Awaited(k)
      <3>1. CASE k.exec = e
        BY <2>2, <2>3, <2>6, <2>9, <3>1 DEF Awaited
      <3>2. CASE k.exec # e
        BY <2>3, <2>5, <2>9, <3>2 DEF Awaited
      <3>3. QED
        BY <3>1, <3>2
    <2>10. \A x \in Owners \ {e} : RunningShards(x)' = RunningShards(x)
      BY <2>3 DEF RunningShards
    <2>11. RunningShards(e)' = RunningShards(e) \ {s}
      BY <2>3 DEF RunningShards
    <2>12. Timely'
      BY <2>3, <2>4, PipelineAssumption DEF Timely, TypeOK
    <2>13. MapUnfinished'
      <3> SUFFICES ASSUME NEW x \in Owners
                   PROVE  MapUnfinished!(x)'
        BY DEF MapUnfinished
      <3>1. CASE x = e
        BY <2>2, <2>3, <2>7, <3>1 DEF MapUnfinished
      <3>2. CASE x # e
        BY <2>3, <3>2 DEF MapUnfinished
      <3>3. QED
        BY <3>1, <3>2
    <2>14. LambdasFollowExec'
      <3> SUFFICES ASSUME NEW k \in lambdas'
                   PROVE  LambdasFollowExec!(k)'
        BY DEF LambdasFollowExec
      <3>1. CASE k \in lambdas /\ k.exec = e
        BY <2>2, <2>3, <2>6, <3>1 DEF LambdasFollowExec
      <3>2. CASE k \in lambdas /\ k.exec # e
        BY <2>3, <2>5, <3>2 DEF LambdasFollowExec
      <3>3. CASE k \notin lambdas
        BY <2>3, <2>4, <2>8, <3>3
      <3>4. QED
        BY <3>1, <3>2, <3>3
    <2>15. RunningHaveLambda'
      <3> SUFFICES ASSUME NEW x \in Owners, exec'[x] = "CollectHistoryShards",
                          NEW t \in RunningShards(x)'
                   PROVE  \E k \in lambdas' : k.exec = x /\ k.step = t /\ Awaited(k)'
        BY DEF RunningHaveLambda
      <3>1. exec[x] = "CollectHistoryShards" /\ t \in RunningShards(x)
        BY <2>2, <2>3, <2>10, <2>11
      <3>2. x # e \/ t # s
        BY <2>11
      <3>3. PICK k \in lambdas : k.exec = x /\ k.step = t /\ Awaited(k)
        BY <3>1 DEF RunningHaveLambda
      <3>4. k # l /\ k \in lambdas'
        BY <2>3, <3>2, <3>3
      <3>5. t \in Shards
        BY <3>1 DEF RunningShards, TypeOK
      <3>6. t \notin LambdaSteps
        BY <3>5, PipelineAssumption
      <3>7. t \notin finished'[x] /\ attempt[x][t] = k.attempt
        <4>1. t \notin finished[x]
          BY <3>1 DEF RunningShards
        <4>2. attempt[x][t] = k.attempt
          BY <3>3, <3>6 DEF Awaited, LambdaSteps
        <4>3. QED
          BY <2>3, <3>2, <4>1, <4>2
      <3>8. Awaited(k)'
        BY <2>3, <3>3, <3>5, <3>7 DEF Awaited
      <3>9. QED
        BY <3>3, <3>4, <3>8
    <2>16. ReduceHasLambda'
      <3> SUFFICES ASSUME NEW x \in Owners, exec'[x] = "ReduceRankings"
                   PROVE  \E k \in lambdas' : k.exec = x /\ k.step = "Reduce"
        BY DEF ReduceHasLambda
      <3>1. CASE x = e
        BY <2>3, <2>4, <3>1
      <3>2. CASE x # e
        <4>1. PICK k \in lambdas : k.exec = x /\ k.step = "Reduce"
          BY <2>3, <3>2 DEF ReduceHasLambda
        <4>2. QED
          BY <2>3, <3>2, <4>1
      <3>3. QED
        BY <3>1, <3>2
    <2>17. LeaseBounded'
      BY <2>3 DEF LeaseBounded
    <2>18. WorkingOwnsRow'
      <3>1. \A x \in Owners : x \in Working' => x \in Working
        BY <2>2, <2>3 DEF Working
      <3>2. \A k \in lambdas' : k.step = "Acquire" => k \in lambdas
        BY <2>3, <2>4
      <3>3. QED
        BY <2>3, <2>9, <3>1, <3>2 DEF WorkingOwnsRow, Holds, Working
    <2>19. /\ clock + ShardBudget < row.expiresAt
           /\ clock + LambdaLimit < row.expiresAt
      <3>1. l.deadline + ShardBudget < row.expiresAt
        BY <1>2, <2>1 DEF LeaseAhead
      <3>2. clock <= l.deadline /\ clock \in Nat /\ l.deadline \in Nat
            /\ row.expiresAt \in Nat
        BY DEF Timely, TypeOK, Rows, Invocations
      <3>3. QED
        BY <3>1, <3>2, RetryBudgetFacts, PipelineAssumption
    <2>20. LeaseAhead'
      <3>1. ASSUME NEW x \in Owners, NEW t \in Shards, Startable(x, t)'
            PROVE  clock + ShardBudget < row.expiresAt
        BY <2>19
      <3>2. \A k \in lambdas' : k \in lambdas \/ k = m
        BY <2>3
      <3>3. QED
        BY <2>3, <2>4, <2>8, <2>9, <2>19, <3>1, <3>2 DEF LeaseAhead
    <2>21. QED
      BY <2>12, <2>13, <2>14, <2>15, <2>16, <2>17, <2>18, <2>20 DEF RowInv
  <1>3. QED
    BY <1>1, <1>2

\* Time passes only when nothing is due.
LEMMA TickStep ==
    ASSUME LeaseInv, Tick
    PROVE  RunInv' /\ RowInv'
  <1> USE DEF LeaseInv, RunInv
  <1>1. /\ clock' = clock + 1
        /\ \A l \in lambdas : clock < l.deadline
        /\ \A e \in Owners, s \in Shards : ~Startable(e, s)
        /\ UNCHANGED <<row, exec, requested, attempt, finished, lambdas>>
    BY DEF Tick
  <1>2. clock \in Nat /\ row.expiresAt \in Nat /\ \A l \in lambdas : l.deadline \in Nat
    BY DEF TypeOK, Rows, Invocations
  <1>3. Timely'
    BY <1>1, <1>2, PipelineAssumption DEF Timely
  <1>4. MapUnfinished'
    BY <1>1 DEF MapUnfinished
  <1>5. LambdasFollowExec'
    BY <1>1 DEF LambdasFollowExec
  <1>6. \A l \in lambdas : Awaited(l)' <=> Awaited(l)
    BY <1>1 DEF Awaited
  <1>7. \A e \in Owners : RunningShards(e)' = RunningShards(e)
    BY <1>1 DEF RunningShards
  <1>8. \A e \in Owners, s \in Shards : ~Startable(e, s)'
    BY <1>1, <1>7 DEF Startable
  <1>9. RunningHaveLambda'
    BY <1>1, <1>6, <1>7 DEF RunningHaveLambda
  <1>10. ReduceHasLambda'
    BY <1>1 DEF ReduceHasLambda
  <1>11. LeaseBounded'
    BY <1>1, <1>2, LeaseAssumption DEF LeaseBounded
  <1>12. WorkingOwnsRow'
    BY <1>1, <1>6 DEF WorkingOwnsRow, Working, Holds
  <1>13. LeaseAhead'
    BY <1>1, <1>6, <1>8 DEF LeaseAhead
  <1>14. QED
    BY <1>3, <1>4, <1>5, <1>9, <1>10, <1>11, <1>12, <1>13 DEF RowInv

LEMMA LeaseStep == LeaseInv /\ [Next]_vars => LeaseInv'
  <1> SUFFICES ASSUME LeaseInv, [Next]_vars
               PROVE  LeaseInv'
    OBVIOUS
  <1>1. TypeOK'
    BY TypeStep DEF LeaseInv
  <1>2. ASSUME RunInv', RowInv'
        PROVE  LeaseInv'
    BY <1>1, <1>2 DEF LeaseInv, RowInv
  <1>3. ASSUME NEW l \in lambdas, LambdaProgress(l)
        PROVE  RunInv' /\ RowInv'
    BY <1>1, <1>3, AcquireStep, StoreSteps, RenewShardStep, RenewReduceStep, MarkRowStep,
       EndSteps, AcquireReturnsStep, ShardReturnsStep, ReduceReturnsStep
       DEF LambdaProgress
  <1>4. ASSUME Next
        PROVE  RunInv' /\ RowInv'
    BY <1>1, <1>3, <1>4, StartStep, StartShardStep, EndSteps, ServiceErrorStep, AbortStep,
       TickStep DEF Next
  <1>5. CASE UNCHANGED vars
    <2>1. UNCHANGED <<clock, row, exec, requested, attempt, finished, lambdas>>
      BY <1>5 DEF vars
    <2>2. RowInv'
      BY <2>1, DropKeepsRow
    <2>3. RunInv'
      BY <2>1 DEF LeaseInv, RunInv, Timely, MapUnfinished, LambdasFollowExec,
                  RunningHaveLambda, RunningShards, Awaited, ReduceHasLambda
    <2>4. QED
      BY <1>2, <2>2, <2>3
  <1>6. QED
    BY <1>2, <1>4, <1>5

LEMMA LeaseInvariant == Spec => []LeaseInv
  <1>1. Init => LeaseInv
    <2> SUFFICES ASSUME Init
                 PROVE  LeaseInv
      OBVIOUS
    <2>1. TypeOK
      BY PipelineAssumption
         DEF Init, TypeOK, NoRow, Rows, Statuses, Phases, ExecStates, NoRankings
    <2>2. RunInv
      BY DEF Init, RunInv, Timely, MapUnfinished, LambdasFollowExec,
             RunningHaveLambda, ReduceHasLambda
    <2>3. LeaseBounded /\ WorkingOwnsRow /\ LeaseAhead
      BY LeaseAssumption
         DEF Init, LeaseBounded, WorkingOwnsRow, LeaseAhead, Working, NoRow, Startable
    <2>4. QED
      BY <2>1, <2>2, <2>3 DEF LeaseInv
  <1>2. QED
    BY <1>1, LeaseStep, PTL DEF Spec

\* From the acquire to the end of the reducer an execution owns the lock and
\* nobody could take it from it, with any number of executions, shards and
\* attempts, as long as the leases keep the margins of LeaseMarginAssumption.
THEOREM LeaseSafe == Spec => []LeaseOutlivesRun
  BY LeaseInvariant, LeaseCovers, PTL
-----------------------------------------------------------------------------

\* A COMPLETE date changes hands only to a repair: the conditions of renew and
\* of the two marks all ask for IN_PROGRESS.
THEOREM CompleteFrozen == Spec => CompleteIsFrozen
  <1> DEFINE Frozen == row.status = "COMPLETE" =>
                         \/ row' = row
                         \/ row'.status = "IN_PROGRESS" /\ row'.ownerToken \in Repairs
  <1>1. ASSUME NEW l \in lambdas, LambdaProgress(l)
        PROVE  Frozen
    <2> SUFFICES ASSUME row.status = "COMPLETE", row' # row
                 PROVE  row'.status = "IN_PROGRESS" /\ row'.ownerToken \in Repairs
      OBVIOUS
    <2>1. ~Holds(l.exec)
      BY DEF Holds
    <2>2. Acquire(l.exec, l.exec \in Repairs)
      BY <1>1, <2>1
         DEF LambdaProgress, AcquireLock, AcquireRefused, AcquireReplyLost, AcquireReturns,
             CheckShard, PutShard, RenewShard, RenewLost, ShardReturns, RenewReduce,
             ReadShards, PutRankings, ReduceReturns, MarkRow, MarkLost, MarkReplyLost,
             MarkReturns, Returns, Mark, Renew, MarkComplete, MarkFailed
    <2>3. QED
      BY <2>2 DEF Acquire, Acquirable
  <1>2. ASSUME Next
        PROVE  Frozen
    BY <1>1, <1>2 DEF Next, StartExecution, StartShard, LambdaDies, ServiceError,
                      AbortExecution, Tick
  <1>3. UNCHANGED vars => Frozen
    BY DEF vars
  <1>4. [Next]_vars => [Frozen]_row
    BY <1>2, <1>3
  <1>5. QED
    BY <1>4, PTL DEF Spec, CompleteIsFrozen

-----------------------------------------------------------------------------
(* The report date: the inductive invariant *)

\* The one invocation that acquires comes before all the others of its
\* execution: the row it writes replaces nothing its execution recorded.
AcquireComesFirst ==
    \A l \in lambdas : l.step = "Acquire" /\ l.pc = "acquire" =>
        /\ exec[l.exec] \in {"AcquireExecutionLock"} \cup Terminal
        /\ finished[l.exec] = {}
        /\ \A m \in lambdas : m.exec = l.exec => m = l

\* How far an invocation of a step has come.
StepsInOrder ==
    \A l \in lambdas :
        /\ l.pc = "acquire" => l.step = "Acquire"
        /\ l.pc = "check" => l.step \in Shards
        /\ l.step \in Shards /\ l.pc \in {"renew", "return"} => l.step \in stored
        /\ l.step \in {"Reduce", "Complete"} => finished[l.exec] = requested[l.exec]
        /\ l.step = "Reduce" /\ l.pc = "put" => requested[l.exec] \subseteq l.seen

\* The row of an execution has every shard that it was told is done.
RowRecords ==
    /\ row.status # "NONE" => /\ row.ownerToken \in Owners
                              /\ exec[row.ownerToken] # "NotStarted"
                              /\ row.completedShards \subseteq requested[row.ownerToken]
    /\ \A e \in Owners : Holds(e) => finished[e] \subseteq row.completedShards
    /\ \A l \in lambdas :
          l.step \in Shards /\ l.pc = "return" /\ Holds(l.exec) => l.step \in row.completedShards

FinishedAreStored == \A e \in Owners : finished[e] \subseteq stored

RankingsKnown == rankings.by \in Owners => exec[rankings.by] # "NotStarted"

CollectInv ==
    /\ AcquireComesFirst
    /\ StepsInOrder
    /\ RowRecords
    /\ FinishedAreStored
    /\ RankingsKnown
    /\ CompleteMeansCollected
    /\ RankingsCoverRun


\* The parts of it a step can disturb together.
CallsInv == AcquireComesFirst /\ StepsInOrder

RowInOrder == RowRecords /\ CompleteMeansCollected

ResultsInv == FinishedAreStored /\ RankingsKnown /\ RankingsCoverRun

LEMMA CallOwners ==
    ASSUME TypeOK
    PROVE  \A l \in lambdas : l \in Invocations /\ l.exec \in Owners
  BY DEF TypeOK, Invocations

\* An invocation that moves on keeps everything but its program counter.
LEMMA MoveOn ==
    ASSUME TypeOK, NEW l \in lambdas, NEW pc \in Pcs
    PROVE  /\ [l EXCEPT !.pc = pc] \in Invocations
           /\ SameCall(l, [l EXCEPT !.pc = pc])
           /\ [l EXCEPT !.pc = pc].pc = pc
           /\ [l EXCEPT !.pc = pc].seen = l.seen
           /\ Advance(l, pc) = (lambdas \ {l}) \cup {[l EXCEPT !.pc = pc]}
  BY AdvanceSame, AdvanceType DEF TypeOK, Invocations

\* A move that leaves the row and the results alone.
LEMMA QuietMove ==
    ASSUME TypeOK, RunInv, CollectInv, NEW l \in lambdas, NEW m, SameCall(l, m), m.pc # "acquire",
           lambdas' = (lambdas \ {l}) \cup {m},
           UNCHANGED <<exec, requested, finished>>,
           stored \subseteq stored',
           m.pc = "check" => l.pc = "check",
           m.step \in Shards /\ m.pc \in {"renew", "return"} => m.step \in stored',
           m.step = "Reduce" /\ m.pc = "put" => requested[m.exec] \subseteq m.seen
    PROVE  CallsInv' /\ FinishedAreStored'
  <1> USE DEF CollectInv, SameCall
  <1>1. AcquireComesFirst'
    BY DEF AcquireComesFirst
  <1>2. StepsInOrder'
    BY DEF StepsInOrder
  <1>3. FinishedAreStored'
    BY DEF FinishedAreStored
  <1>4. QED
    BY <1>1, <1>2, <1>3 DEF CallsInv

\* No owner is called twice for a shard: what its row lacks it was not told.
LEMMA QuietRow ==
    ASSUME TypeOK, CollectInv, UNCHANGED <<row, exec, requested, finished>>,
           stored \subseteq stored',
           \A m \in lambdas' : m.step \in Shards /\ m.pc = "return" =>
               m \in lambdas \/ ~Holds(m.exec)
    PROVE  RowInOrder'
  BY DEF CollectInv, RowInOrder, RowRecords, CompleteMeansCollected, Holds

LEMMA AcquireLockCollects ==
    ASSUME LeaseInv, CollectInv, NEW l \in lambdas, AcquireLock(l)
    PROVE  CollectInv'
  <1> USE PipelineAssumption DEF LeaseInv
  <1> DEFINE m == [l EXCEPT !.pc = "return"]
  <1>1. /\ SameCall(l, m) /\ m.pc = "return" /\ m.seen = l.seen
        /\ lambdas' = (lambdas \ {l}) \cup {m}
    BY MoveOn DEF AcquireLock, Pcs
  <1> HIDE DEF m
  <1>2. l.exec \in Owners /\ l.step = "Acquire" /\ "Acquire" \notin Shards
    BY CallOwners DEF AcquireLock, CollectInv, StepsInOrder, LambdaSteps
  <1>3. CallsInv' /\ FinishedAreStored'
    BY <1>1, <1>2, QuietMove DEF AcquireLock, SameCall
  <1>4. finished[l.exec] = {} /\ \A k \in lambdas : k.exec = l.exec => k = l
    BY <1>2 DEF CollectInv, AcquireComesFirst, AcquireLock
  <1>5. RowInOrder'
    BY <1>1, <1>2, <1>4 DEF AcquireLock, Acquire, RowInOrder, RowRecords, CompleteMeansCollected,
       Holds, RunInv, LambdasFollowExec, SameCall
  <1>6. ResultsInv'
    BY <1>3 DEF AcquireLock, CollectInv, ResultsInv, RankingsKnown, RankingsCoverRun, NoRankings
  <1>7. QED
    BY <1>3, <1>5, <1>6 DEF CollectInv, CallsInv, RowInOrder, ResultsInv

\* The accesses to S3.
LEMMA StoreCollects ==
    ASSUME LeaseInv, CollectInv, NEW l \in lambdas,
           CheckShard(l) \/ PutShard(l) \/ ReadShards(l) \/ PutRankings(l)
    PROVE  CollectInv'
  <1> USE PipelineAssumption DEF LeaseInv
  <1>1. l \in Invocations /\ l.exec \in Owners
    BY CallOwners
  <1>2. UNCHANGED <<row, exec, requested, finished>>
    BY DEF CheckShard, PutShard, ReadShards, PutRankings
  <1>3. CASE CheckShard(l) \/ PutShard(l)
    <2>1. PICK pc \in {"renew", "put"} :
             /\ lambdas' = Advance(l, pc)
             /\ pc = "renew" /\ l.step \in Shards => l.step \in stored'
             /\ l.pc \in {"check", "put"} /\ (pc = "put" => l.pc = "check")
      BY <1>3 DEF CheckShard, PutShard
    <2> DEFINE m == [l EXCEPT !.pc = pc]
    <2>2. /\ SameCall(l, m) /\ m.pc = pc /\ m.seen = l.seen
          /\ lambdas' = (lambdas \ {l}) \cup {m}
      <3>1. pc \in Pcs
        BY DEF Pcs
      <3>2. QED
        BY <2>1, <3>1, MoveOn
    <2>3. stored \subseteq stored' /\ rankings' = rankings
      BY <1>3 DEF CheckShard, PutShard
    <2>4. l.step # "Reduce"
      BY <1>3 DEF CheckShard, PutShard, LambdaSteps, CollectInv, StepsInOrder
    <2> HIDE DEF m
    <2>5. CallsInv' /\ FinishedAreStored'
      BY <1>2, <2>1, <2>2, <2>3, <2>4, QuietMove DEF SameCall
    <2>6. RowInOrder'
      BY <1>2, <2>2, <2>3, QuietRow
    <2>7. ResultsInv'
      BY <1>2, <2>3, <2>5 DEF CollectInv, ResultsInv, RankingsKnown, RankingsCoverRun
    <2>8. QED
      BY <2>5, <2>6, <2>7 DEF CollectInv, CallsInv, RowInOrder, ResultsInv
  <1>4. CASE ReadShards(l)
    <2> DEFINE m == [l EXCEPT !.pc = "put", !.seen = stored]
    <2>1. /\ SameCall(l, m) /\ m.pc = "put" /\ m.seen = stored
          /\ lambdas' = (lambdas \ {l}) \cup {m} /\ UNCHANGED <<stored, rankings>>
      BY <1>1, <1>4 DEF ReadShards, SameCall, Invocations
    <2> HIDE DEF m
    <2>2. m.step = "Reduce" => requested[m.exec] \subseteq m.seen
      BY <1>1, <2>1 DEF SameCall, CollectInv, StepsInOrder, FinishedAreStored
    <2>3. CallsInv' /\ FinishedAreStored'
      BY <1>2, <2>1, <2>2, QuietMove
    <2>4. RowInOrder'
      BY <1>2, <2>1, QuietRow
    <2>5. ResultsInv'
      BY <1>2, <2>1, <2>3 DEF CollectInv, ResultsInv, RankingsKnown, RankingsCoverRun
    <2>6. QED
      BY <2>3, <2>4, <2>5 DEF CollectInv, CallsInv, RowInOrder, ResultsInv
  <1>5. CASE PutRankings(l)
    <2> DEFINE m == [l EXCEPT !.pc = "return"]
    <2>1. /\ SameCall(l, m) /\ m.pc = "return" /\ lambdas' = (lambdas \ {l}) \cup {m}
          /\ l.step = "Reduce" /\ l.pc = "put" /\ stored' = stored
      BY <1>5, MoveOn DEF PutRankings, Pcs
    <2> HIDE DEF m
    <2>2. m.step \notin Shards
      BY <2>1 DEF SameCall, LambdaSteps
    <2>3. CallsInv' /\ FinishedAreStored'
      BY <1>2, <2>1, <2>2, QuietMove
    <2>4. RowInOrder'
      BY <1>2, <2>1, <2>2, QuietRow
    <2>5. requested[l.exec] \subseteq l.seen /\ exec[l.exec] # "NotStarted"
      BY <2>1 DEF CollectInv, StepsInOrder, RunInv, LambdasFollowExec
    <2>6. RankingsKnown' /\ RankingsCoverRun'
      <3>1. CASE rankings' = rankings
        BY <1>2, <3>1 DEF CollectInv, RankingsKnown, RankingsCoverRun
      <3>2. CASE rankings' = [by |-> l.exec, from |-> l.seen]
        BY <1>2, <2>5, <3>2 DEF RankingsKnown, RankingsCoverRun
      <3>3. QED
        BY <1>5, <3>1, <3>2 DEF PutRankings
    <2>7. QED
      BY <2>3, <2>4, <2>6 DEF CollectInv, CallsInv, RowInOrder, ResultsInv
  <1>6. QED
    BY <1>3, <1>4, <1>5

\* The writes of the row by its owner.
LEMMA OwnerCollects ==
    ASSUME LeaseInv, CollectInv, NEW l \in lambdas,
           RenewShard(l) \/ RenewReduce(l) \/ MarkRow(l)
    PROVE  CollectInv'
  <1> USE PipelineAssumption DEF LeaseInv
  <1>1. l \in Invocations /\ l.exec \in Owners /\ row \in Rows
    BY CallOwners DEF TypeOK
  <1>2. UNCHANGED <<exec, requested, finished, stored, rankings>>
    BY DEF RenewShard, RenewReduce, MarkRow
  <1>3. PICK pc \in {"return", "read"} :
           /\ lambdas' = Advance(l, pc)
           /\ pc = "return" /\ l.step \in Shards => l.pc = "renew"
           /\ Holds(l.exec)
    BY DEF RenewShard, RenewReduce, MarkRow, Mark, Renew, MarkComplete, MarkFailed, LambdaSteps
  <1> DEFINE m == [l EXCEPT !.pc = pc]
  <1>4. /\ SameCall(l, m) /\ m.pc = pc /\ m.seen = l.seen
        /\ lambdas' = (lambdas \ {l}) \cup {m}
    <2>1. pc \in Pcs
      BY DEF Pcs
    <2>2. QED
      BY <1>3, <2>1, MoveOn
  <1> HIDE DEF m
  <1>5. CallsInv' /\ FinishedAreStored'
    BY <1>2, <1>3, <1>4, QuietMove DEF SameCall, CollectInv, StepsInOrder
  <1>6. ResultsInv'
    BY <1>2, <1>5 DEF CollectInv, ResultsInv, RankingsKnown, RankingsCoverRun
  <1>7. /\ row.ownerToken = l.exec /\ row.status = "IN_PROGRESS"
        /\ finished[l.exec] \subseteq row.completedShards
        /\ row.completedShards \subseteq requested[l.exec]
        /\ row.completedShards \subseteq stored
    BY <1>1, <1>3 DEF Holds, CollectInv, RowRecords, CompleteMeansCollected
  <1>8. CASE RenewShard(l)
    <2>1. l.step \in stored /\ l.step \in requested[l.exec] /\ l.step \in Shards
      BY <1>8 DEF RenewShard, CollectInv, StepsInOrder, RunInv, LambdasFollowExec
    <2>2. /\ row'.status = row.status /\ row'.ownerToken = row.ownerToken
          /\ row'.completedShards = row.completedShards \cup {l.step}
      BY <1>1, <1>8 DEF RenewShard, Renew, Rows
    <2>3. RowInOrder'
      BY <1>2, <1>4, <1>7, <2>1, <2>2
         DEF RowInOrder, RowRecords, CompleteMeansCollected, Holds, SameCall, CollectInv
    <2>4. QED
      BY <1>5, <1>6, <2>3 DEF CollectInv, CallsInv, RowInOrder, ResultsInv
  <1>9. CASE RenewReduce(l)
    <2>1. /\ row'.status = row.status /\ row'.ownerToken = row.ownerToken
          /\ row'.completedShards = row.completedShards /\ l.step \notin Shards
      BY <1>1, <1>9 DEF RenewReduce, Renew, Rows, LambdaSteps
    <2>2. RowInOrder'
      BY <1>2, <1>4, <2>1
         DEF RowInOrder, RowRecords, CompleteMeansCollected, Holds, SameCall, CollectInv
    <2>3. QED
      BY <1>5, <1>6, <2>2 DEF CollectInv, CallsInv, RowInOrder, ResultsInv
  <1>10. CASE MarkRow(l)
    <2>1. /\ row'.ownerToken = row.ownerToken /\ row'.completedShards = row.completedShards
          /\ row'.status \in {"COMPLETE", "FAILED"}
          /\ row'.status = "COMPLETE" => l.step = "Complete"
      BY <1>1, <1>10 DEF MarkRow, Mark, MarkComplete, MarkFailed, Rows
    <2>2. row'.status = "COMPLETE" => row.completedShards = requested[l.exec]
      BY <1>7, <2>1 DEF CollectInv, StepsInOrder
    <2>3. RowInOrder'
      BY <1>2, <1>4, <1>7, <2>1, <2>2
         DEF RowInOrder, RowRecords, CompleteMeansCollected, Holds, CollectInv
    <2>4. QED
      BY <1>5, <1>6, <2>3 DEF CollectInv, CallsInv, RowInOrder, ResultsInv
  <1>11. QED
    BY <1>8, <1>9, <1>10

-----------------------------------------------------------------------------
(* The other steps *)

\* When an invocation ends, none of its execution is left to acquire.
LEMMA FirstLeaves ==
    ASSUME TypeOK, AcquireComesFirst, NEW l \in lambdas,
           \A e \in Owners \ {l.exec} : exec'[e] = exec[e] /\ finished'[e] = finished[e],
           \A k \in lambdas' : \/ k \in lambdas \ {l}
                               \/ k.exec = l.exec /\ k.pc # "acquire"
    PROVE  AcquireComesFirst'
  <1>1. SUFFICES ASSUME NEW k \in lambdas', k.step = "Acquire", k.pc = "acquire"
                 PROVE  /\ exec'[k.exec] \in {"AcquireExecutionLock"} \cup Terminal
                        /\ finished'[k.exec] = {}
                        /\ \A m \in lambdas' : m.exec = k.exec => m = k
    BY DEF AcquireComesFirst
  <1>2. k \in lambdas \ {l} /\ k.exec \in Owners
    BY <1>1, CallOwners
  <1>3. k.exec # l.exec
    BY <1>1, <1>2 DEF AcquireComesFirst
  <1>4. QED
    BY <1>1, <1>2, <1>3 DEF AcquireComesFirst

\* The invocations the state machine gets to see the end of.
LEMMA ReturnsCollect ==
    ASSUME LeaseInv, CollectInv, NEW l \in lambdas,
           \/ AcquireReturns(l)
           \/ ShardReturns(l)
           \/ ReduceReturns(l)
           \/ MarkReturns(l)
    PROVE  CollectInv'
  <1> USE PipelineAssumption DEF LeaseInv, CollectInv, RunInv
  <1>0. l \in Invocations /\ l.exec \in Owners
    BY CallOwners
  <1>1. AcquireComesFirst'
    <2>1. \A e \in Owners \ {l.exec} : exec'[e] = exec[e] /\ finished'[e] = finished[e]
      BY <1>0 DEF AcquireReturns, ShardReturns, ReduceReturns, MarkReturns, Returns, TypeOK
    <2>2. \A k \in lambdas' : \/ k \in lambdas \ {l}
                              \/ k.exec = l.exec /\ k.pc # "acquire"
      BY <1>0 DEF AcquireReturns, ShardReturns, ReduceReturns, MarkReturns, Returns, Call
    <2>3. QED
      BY <2>1, <2>2, FirstLeaves
  <1>2. UNCHANGED <<row, requested, stored, rankings>>
    BY DEF AcquireReturns, ShardReturns, ReduceReturns, MarkReturns, Returns
  <1>3. CASE ShardReturns(l)
    <2>1. l.step \in stored /\ l.step \in requested[l.exec] /\ l.pc = "return" /\ l.step \in Shards
      BY <1>3 DEF ShardReturns, Returns, StepsInOrder, LambdasFollowExec
    <2>2. /\ \A e \in Owners \ {l.exec} : finished'[e] = finished[e]
          /\ finished'[l.exec] \in {finished[l.exec], finished[l.exec] \cup {l.step}}
      BY <1>0, <1>3 DEF ShardReturns, TypeOK
    <2>3. \A k \in lambdas' : \/ k \in lambdas
                              \/ /\ k = Call(l.exec, "Reduce", "renew")
                                 /\ finished'[l.exec] = requested[l.exec]
      BY <1>0, <1>3 DEF ShardReturns, Returns, TypeOK
    <2>4. StepsInOrder'
      <3>1. SUFFICES ASSUME NEW k \in lambdas'
                     PROVE  /\ k.pc = "acquire" => k.step = "Acquire"
                            /\ k.pc = "check" => k.step \in Shards
                            /\ k.step \in Shards /\ k.pc \in {"renew", "return"} => k.step \in stored'
                            /\ k.step \in {"Reduce", "Complete"} => finished'[k.exec] = requested'[k.exec]
                            /\ k.step = "Reduce" /\ k.pc = "put" => requested'[k.exec] \subseteq k.seen
        BY DEF StepsInOrder
      <3>2. CASE k \in lambdas
        <4>1. k.exec \in Owners
          BY <3>2, CallOwners
        <4>2. QED
          BY <1>2, <2>1, <2>2, <3>2, <4>1 DEF StepsInOrder
      <3>3. CASE k = Call(l.exec, "Reduce", "renew") /\ finished'[l.exec] = requested[l.exec]
        BY <1>2, <3>3 DEF Call, LambdaSteps
      <3>4. QED
        BY <2>3, <3>2, <3>3
    <2>5. FinishedAreStored'
      BY <1>2, <2>1, <2>2 DEF FinishedAreStored
    <2>6. RowRecords'
      <3>1. exec'[row.ownerToken] # "NotStarted" \/ row.status = "NONE"
        BY <1>0, <1>3 DEF ShardReturns, Returns, RowRecords, TypeOK, LambdasFollowExec
      <3>2. \A e \in Owners : Holds(e) => finished'[e] \subseteq row.completedShards
        BY <1>2, <2>1, <2>2 DEF RowRecords
      <3>3. \A k \in lambdas' : k.step \in Shards /\ k.pc = "return" /\ Holds(k.exec) =>
                                  k.step \in row.completedShards
        BY <2>3 DEF RowRecords, Call
      <3>4. QED
        BY <1>2, <3>1, <3>2, <3>3 DEF RowRecords, Holds
    <2>7. RankingsKnown'
      BY <1>0, <1>2, <1>3 DEF ShardReturns, Returns, RankingsKnown, LambdasFollowExec, TypeOK
    <2>8. CompleteMeansCollected' /\ RankingsCoverRun'
      BY <1>2 DEF CompleteMeansCollected, RankingsCoverRun
    <2>9. QED
      BY <1>1, <2>4, <2>5, <2>6, <2>7, <2>8
  <1>4. CASE AcquireReturns(l) \/ ReduceReturns(l) \/ MarkReturns(l)
    <2>1. finished' = finished
      BY <1>4 DEF AcquireReturns, ReduceReturns, MarkReturns
    <2>2. StepsInOrder'
      BY <1>0, <1>2, <1>4, <2>1, SMTT(20)
         DEF StepsInOrder, AcquireReturns, ReduceReturns, MarkReturns, Returns, Call, LambdaSteps
    <2>3. RowRecords'
      BY <1>0, <1>2, <1>4, <2>1, SMTT(20)
         DEF RowRecords, Holds, AcquireReturns, ReduceReturns, MarkReturns, Returns, Call, TypeOK
    <2>4. RankingsKnown'
      BY <1>0, <1>2, <1>4, SMTT(20)
         DEF RankingsKnown, AcquireReturns, ReduceReturns, MarkReturns, Returns, TypeOK
    <2>5. FinishedAreStored' /\ CompleteMeansCollected' /\ RankingsCoverRun'
      BY <1>2, <2>1 DEF FinishedAreStored, CompleteMeansCollected, RankingsCoverRun
    <2>6. QED
      BY <1>1, <2>2, <2>3, <2>4, <2>5
  <1>5. QED
    BY <1>3, <1>4

\* An invocation that is refused or raises.
LEMMA FailuresCollect ==
    ASSUME LeaseInv, CollectInv, NEW l \in lambdas,
           \/ AcquireRefused(l)
           \/ RenewLost(l)
           \/ MarkLost(l)
           \/ LambdaDies(l)
           \/ ServiceError(l)
    PROVE  CollectInv'
  <1> USE PipelineAssumption DEF LeaseInv, CollectInv, RunInv
  <1> USE DEF AcquireRefused, LockHeld, RenewLost, MarkLost, LambdaDies, Raises, ServiceError
  <1>0. l \in Invocations /\ l.exec \in Owners
    BY CallOwners
  <1>1. UNCHANGED <<row, requested, finished, stored, rankings>>
    OBVIOUS
  <1>2. /\ \A e \in Owners \ {l.exec} : exec'[e] = exec[e]
        /\ \A e \in Owners : exec'[e] = "NotStarted" => exec[e] = "NotStarted"
    BY <1>0 DEF TypeOK, StepFails
  <1>3. \A k \in lambdas' : \/ k \in lambdas
                            \/ /\ k.exec = l.exec
                               /\ \/ k.step = "Failed" /\ k.pc = "mark"
                                  \/ k.step \in Shards /\ k.pc = "check"
    BY <1>0 DEF StepFails, Call, ShardCall
  <1>4. AcquireComesFirst'
    <2>1. CASE ServiceError(l) /\ l.step = "Acquire"
      <3>1. lambdas' = lambdas /\ exec' = [exec EXCEPT ![l.exec] = "Aborted"]
        BY <2>1 DEF StepFails, LambdaSteps
      <3>2. QED
        BY <1>0, <1>1, <3>1, CallOwners DEF AcquireComesFirst, Terminal, TypeOK
    <2>2. CASE ServiceError(l) /\ l.step # "Acquire"
      <3>1. \A k \in lambdas : k.exec = l.exec => k.step # "Acquire" \/ k.pc # "acquire"
        BY <2>2 DEF AcquireComesFirst
      <3>2. QED
        BY <1>1, <1>2, <1>3, <3>1, CallOwners, SMTT(20) DEF AcquireComesFirst
    <2>3. CASE ~ServiceError(l)
      <3>1. \A k \in lambdas' : \/ k \in lambdas \ {l}
                                \/ k.exec = l.exec /\ k.pc # "acquire"
        BY <2>3, <1>0 DEF StepFails, Call
      <3>2. QED
        BY <1>1, <1>2, <3>1, FirstLeaves
    <2>4. QED
      BY <2>1, <2>2, <2>3
  <1> HIDE DEF AcquireRefused, LockHeld, RenewLost, MarkLost, LambdaDies, Raises, ServiceError
  <1>5. StepsInOrder'
    BY <1>1, <1>3 DEF StepsInOrder, LambdaSteps
  <1>6. RowRecords'
    BY <1>1, <1>2, <1>3 DEF RowRecords, Holds, TypeOK
  <1>7. RankingsKnown'
    BY <1>1, <1>2 DEF RankingsKnown
  <1>8. FinishedAreStored' /\ CompleteMeansCollected' /\ RankingsCoverRun'
    BY <1>1 DEF FinishedAreStored, CompleteMeansCollected, RankingsCoverRun
  <1>9. QED
    BY <1>4, <1>5, <1>6, <1>7, <1>8

\* A write that takes effect although its caller is told it lost.
LEMMA RepliesLostCollect ==
    ASSUME LeaseInv, CollectInv, NEW l \in lambdas,
           AcquireReplyLost(l) \/ MarkReplyLost(l)
    PROVE  CollectInv'
  <1> USE PipelineAssumption DEF LeaseInv, CollectInv, RunInv
  <1>0. l \in Invocations /\ l.exec \in Owners /\ row \in Rows
    BY CallOwners DEF TypeOK
  <1>1. UNCHANGED <<requested, finished, stored, rankings>>
    BY DEF AcquireReplyLost, LockHeld, MarkReplyLost, Raises
  <1>2. /\ \A e \in Owners \ {l.exec} : exec'[e] = exec[e]
        /\ \A e \in Owners : exec'[e] = "NotStarted" => exec[e] = "NotStarted"
    BY <1>0 DEF TypeOK, StepFails, AcquireReplyLost, LockHeld, MarkReplyLost, Raises
  <1>3. \A k \in lambdas' : \/ k \in lambdas \ {l}
                            \/ k.exec = l.exec /\ k.step = "Failed" /\ k.pc = "mark"
    BY <1>0 DEF AcquireReplyLost, LockHeld, MarkReplyLost, Raises, StepFails, Call
  <1>4. AcquireComesFirst'
    BY <1>1, <1>2, <1>3, FirstLeaves
  <1>5. StepsInOrder'
    BY <1>1, <1>3 DEF StepsInOrder, LambdaSteps
  <1>6. CASE AcquireReplyLost(l)
    <2>1. l.step = "Acquire" /\ finished[l.exec] = {} /\ \A k \in lambdas : k.exec = l.exec => k = l
      BY <1>6 DEF AcquireReplyLost, AcquireComesFirst, StepsInOrder
    <2>2. /\ row'.status = "IN_PROGRESS" /\ row'.ownerToken = l.exec /\ row'.completedShards = {}
          /\ exec[l.exec] # "NotStarted"
      BY <1>6 DEF AcquireReplyLost, Acquire, LambdasFollowExec
    <2>3. RowRecords' /\ CompleteMeansCollected'
      BY <1>0, <1>1, <1>2, <1>3, <2>1, <2>2, "Acquire" \notin Shards
         DEF RowRecords, CompleteMeansCollected, Holds, LambdaSteps
    <2>4. QED
      BY <1>1, <1>2, <1>4, <1>5, <2>3 DEF FinishedAreStored, RankingsKnown, RankingsCoverRun
  <1>7. CASE MarkReplyLost(l)
    <2>1. /\ row'.ownerToken = row.ownerToken /\ row'.completedShards = row.completedShards
          /\ row'.status \in {"COMPLETE", "FAILED"} /\ row.status = "IN_PROGRESS"
          /\ row'.status = "COMPLETE" => l.step = "Complete" /\ Holds(l.exec)
      BY <1>0, <1>7 DEF MarkReplyLost, Mark, MarkComplete, MarkFailed, Rows, Holds
    <2>2. row'.status = "COMPLETE" => row.completedShards = requested[row.ownerToken]
      BY <1>0, <2>1 DEF StepsInOrder, RowRecords, Holds
    <2>3. RowRecords' /\ CompleteMeansCollected'
      BY <1>1, <1>2, <2>1, <2>2 DEF RowRecords, CompleteMeansCollected, Holds
    <2>4. QED
      BY <1>1, <1>2, <1>4, <1>5, <2>3 DEF FinishedAreStored, RankingsKnown, RankingsCoverRun
  <1>8. QED
    BY <1>6, <1>7

\* The executions and the clock.
LEMMA ExecutionsCollect ==
    ASSUME LeaseInv, CollectInv,
           \/ \E e \in Owners, shards \in (SUBSET Shards) \ {{}} : StartExecution(e, shards)
           \/ \E e \in Owners, s \in Shards : StartShard(e, s)
           \/ \E e \in Owners : AbortExecution(e)
           \/ Tick
           \/ UNCHANGED vars
    PROVE  CollectInv'
  <1> USE PipelineAssumption, OwnersAssumption DEF LeaseInv, CollectInv, RunInv
  <1>1. ASSUME NEW e \in Owners, NEW shards \in (SUBSET Shards) \ {{}}, StartExecution(e, shards)
        PROVE  CollectInv'
    <2>1. /\ exec[e] = "NotStarted" /\ exec' = [exec EXCEPT ![e] = "AcquireExecutionLock"]
          /\ requested' = [requested EXCEPT ![e] = shards]
          /\ lambdas' = lambdas \cup {Call(e, "Acquire", "acquire")}
          /\ UNCHANGED <<row, finished, stored, rankings>>
      BY <1>1 DEF StartExecution
    <2>2. finished[e] = {} /\ \A l \in lambdas : l.exec # e
      BY <2>1 DEF MapUnfinished, LambdasFollowExec
    <2>3. AcquireComesFirst'
      <3>1. /\ exec'[e] = "AcquireExecutionLock" /\ finished'[e] = {}
            /\ \A o \in Owners \ {e} : exec'[o] = exec[o] /\ finished'[o] = finished[o]
        BY <2>1, <2>2 DEF TypeOK
      <3>2. Call(e, "Acquire", "acquire").exec = e
        BY DEF Call
      <3>3. \A l \in lambdas : l.exec \in Owners \ {e}
        BY <2>2, CallOwners
      <3>4. \A l \in lambdas' : \/ l \in lambdas
                                \/ l.exec = e /\ l = Call(e, "Acquire", "acquire")
        BY <2>1, <3>2
      <3>5. QED
        BY <3>1, <3>3, <3>4 DEF AcquireComesFirst
    <2>4. StepsInOrder'
      BY <2>1, <2>2, CallOwners DEF StepsInOrder, Call, LambdaSteps, TypeOK
    <2>5. RowRecords' /\ CompleteMeansCollected'
      <3>1. row.status # "NONE" => row.ownerToken # e /\ row.ownerToken \in Owners
        BY <2>1 DEF RowRecords
      <3>2. \A k \in lambdas' : k \in lambdas \/ k.step = "Acquire"
        BY <2>1 DEF Call
      <3>3. CompleteMeansCollected'
        BY <2>1, <3>1 DEF CompleteMeansCollected, TypeOK
      <3>4. RowRecords'
        BY <2>1, <3>1, <3>2 DEF RowRecords, Holds, TypeOK, LambdaSteps
      <3>5. QED
        BY <3>3, <3>4
    <2>6. RankingsKnown' /\ RankingsCoverRun'
      BY <2>1 DEF RankingsKnown, RankingsCoverRun, NoRankings, TypeOK
    <2>7. QED
      BY <2>1, <2>3, <2>4, <2>5, <2>6 DEF FinishedAreStored
  <1>2. ASSUME NEW e \in Owners, NEW s \in Shards, StartShard(e, s)
        PROVE  CollectInv'
    <2>1. /\ exec[e] = "CollectHistoryShards" /\ lambdas' = lambdas \cup {ShardCall(e, s, 1, 0)}
          /\ UNCHANGED <<row, exec, requested, finished, stored, rankings>>
      BY <1>2 DEF StartShard, Startable
    <2>2. \A l \in lambdas : l.step = "Acquire" /\ l.pc = "acquire" => l.exec # e
      BY <2>1 DEF AcquireComesFirst, Terminal
    <2>3. AcquireComesFirst'
      BY <2>1, <2>2 DEF AcquireComesFirst, ShardCall, LambdaSteps
    <2>4. StepsInOrder' /\ RowRecords'
      BY <2>1 DEF StepsInOrder, RowRecords, Holds, ShardCall, LambdaSteps
    <2>5. QED
      BY <2>1, <2>3, <2>4 DEF FinishedAreStored, RankingsKnown, CompleteMeansCollected,
         RankingsCoverRun
  <1>3. ASSUME NEW e \in Owners, AbortExecution(e)
        PROVE  CollectInv'
    BY <1>3, CallOwners DEF AbortExecution, AcquireComesFirst, StepsInOrder, RowRecords, Holds,
       FinishedAreStored, RankingsKnown, CompleteMeansCollected, RankingsCoverRun, Terminal, TypeOK
  <1>4. CASE Tick \/ UNCHANGED vars
    BY <1>4 DEF Tick, vars, AcquireComesFirst, StepsInOrder, RowRecords, Holds,
       FinishedAreStored, RankingsKnown, CompleteMeansCollected, RankingsCoverRun
  <1>5. QED
    BY <1>1, <1>2, <1>3, <1>4

LEMMA CollectInvariant == Spec => []CollectInv
  <1> USE OwnersAssumption, PipelineAssumption
  <1>1. Init => CollectInv
    BY DEF Init, CollectInv, AcquireComesFirst, StepsInOrder, RowRecords, Holds, FinishedAreStored,
       RankingsKnown, CompleteMeansCollected, RankingsCoverRun, NoRow, NoRankings
  <1>2. LeaseInv /\ CollectInv /\ [Next]_vars => CollectInv'
    BY AcquireLockCollects, StoreCollects, OwnerCollects, ReturnsCollect, FailuresCollect,
       RepliesLostCollect, ExecutionsCollect DEF Next, LambdaProgress
  <1>3. QED
    BY <1>1, <1>2, LeaseInvariant, PTL DEF Spec

\* Whatever is lost, retried or repaired, and whichever orphans still run, a
\* date is marked COMPLETE only once its row has every shard its owner was
\* asked for, and S3 has every shard the row has.
THEOREM CompleteCollected == Spec => []CompleteMeansCollected
  BY CollectInvariant, PTL DEF CollectInv

\* Rankings are never built from less than all the shards their execution was
\* asked for, those of a reducer nobody waits for any more included.
THEOREM RankingsCover == Spec => []RankingsCoverRun
  BY CollectInvariant, PTL DEF CollectInv

-----------------------------------------------------------------------------
(* The lock implements the abstract claim *)

\* The owner that is about to mark its date COMPLETE does so within its lease.
CompleteInTime ==
    \A l \in lambdas : l.step = "Complete" /\ l.pc = "mark" /\ Holds(l.exec) =>
        l.deadline < row.expiresAt

\* A live lease is never cut short: the row stays, or is renewed by its owner.
LEMMA InTimeStep ==
    LeaseInv /\ CollectInv /\ CompleteInTime /\ [Next]_vars => CompleteInTime'
  <1> SUFFICES ASSUME LeaseInv, CollectInv, CompleteInTime, [Next]_vars
               PROVE  CompleteInTime'
    OBVIOUS
  <1> USE PipelineAssumption, LeaseMarginAssumption, LeaseAssumption DEF LeaseInv, RunInv
  <1>1. ASSUME row' = row,
               \A k \in lambdas' : k.step = "Complete" /\ k.pc = "mark" => k \in lambdas
        PROVE  CompleteInTime'
    BY <1>1 DEF CompleteInTime, Holds
  <1>2. ASSUME NEW l \in lambdas, AcquireLock(l) \/ AcquireReplyLost(l)
        PROVE  CompleteInTime'
    <2>1. l.step = "Acquire" /\ \A k \in lambdas : k.exec = l.exec => k = l
      BY <1>2 DEF AcquireLock, AcquireReplyLost, CollectInv, AcquireComesFirst, StepsInOrder
    <2>2. \A k \in lambdas' : k.exec = l.exec => k.pc # "mark"
      <3>1. l \in Invocations
        BY CallOwners
      <3>2. QED
        BY <1>2, <2>1, <3>1 DEF AcquireLock, AcquireReplyLost, LockHeld, Advance, Invocations
    <2>3. \A e \in Owners : Holds(e)' => e = l.exec
      BY <1>2 DEF AcquireLock, AcquireReplyLost, Acquire, Holds
    <2>4. \A k \in lambdas' : k.exec \in Owners
      <3>1. l \in Invocations /\ \A k \in lambdas : k.exec \in Owners
        BY CallOwners
      <3>2. QED
        BY <1>2, <3>1 DEF AcquireLock, AcquireReplyLost, LockHeld, Advance, Invocations
    <2>5. QED
      BY <2>2, <2>3, <2>4 DEF CompleteInTime, Holds
  <1>3. ASSUME NEW l \in lambdas, RenewShard(l) \/ RenewReduce(l)
        PROVE  CompleteInTime'
    <2>1. \A k \in lambdas' : k.step = "Complete" /\ k.pc = "mark" => k \in lambdas
      BY <1>3, CallOwners DEF RenewShard, RenewReduce, Advance, Invocations
    <2>2. row'.expiresAt > clock + LambdaLimit
      <3>1. row'.expiresAt \in {clock + ShardRenewLease, clock + ReducerRenewLease}
        BY <1>3 DEF RenewShard, RenewReduce, Renew, TypeOK, Rows
      <3>2. LambdaLimit < ReducerRenewLease /\ ReducerRenewLease <= ShardRenewLease
        OBVIOUS
      <3>3. clock \in Nat
        BY DEF TypeOK
      <3>4. QED
        BY <3>1, <3>2, <3>3
    <2>3. \A k \in lambdas : k.step = "Complete" => k.deadline <= clock + LambdaLimit
      BY DEF Timely, LambdaSteps
    <2>4. \A k \in lambdas : k.deadline \in Nat
      BY CallOwners DEF Invocations
    <2>5. clock \in Nat /\ row'.expiresAt \in Nat
      BY <1>3, RowType, CallOwners DEF TypeOK, RenewShard, RenewReduce, Rows, Renew
    <2>6. QED
      BY <2>1, <2>2, <2>3, <2>4, <2>5 DEF CompleteInTime
  <1>4. ASSUME NEW l \in lambdas, MarkRow(l) \/ MarkReplyLost(l)
        PROVE  CompleteInTime'
    <2>1. row'.status # "IN_PROGRESS"
      BY <1>4 DEF MarkRow, MarkReplyLost, Mark, MarkComplete, MarkFailed, TypeOK, Rows
    <2>2. QED
      BY <2>1 DEF CompleteInTime, Holds
  <1>5. ASSUME NEW l \in lambdas, ReduceReturns(l)
        PROVE  CompleteInTime'
    <2>1. l \in Invocations /\ row' = row
      BY <1>5, CallOwners DEF ReduceReturns, Returns
    <2>2. CASE Awaited(l)
      <3>1. clock + LambdaLimit < row.expiresAt
        <4>1. l.deadline + LambdaLimit < row.expiresAt /\ clock <= l.deadline
          BY <1>5, <2>2 DEF ReduceReturns, Returns, LeaseAhead, Timely
        <4>2. clock \in Nat /\ l.deadline \in Nat /\ row.expiresAt \in Nat
          BY <2>1 DEF TypeOK, Invocations, Rows
        <4>3. QED
          BY <4>1, <4>2
      <3>2. \A k \in lambdas' : k \in lambdas \/ k.deadline = clock + LambdaLimit
        BY <1>5, <2>2 DEF ReduceReturns, Returns, Call
      <3>3. QED
        BY <2>1, <3>1, <3>2 DEF CompleteInTime, Holds
    <2>3. CASE ~Awaited(l)
      BY <1>1, <1>5, <2>1, <2>3 DEF ReduceReturns, Returns
    <2>4. QED
      BY <2>2, <2>3
  <1>6. ASSUME NEW l \in lambdas,
               \/ AcquireRefused(l) \/ AcquireReturns(l) \/ RenewLost(l) \/ ShardReturns(l)
               \/ MarkLost(l) \/ MarkReturns(l) \/ LambdaDies(l) \/ ServiceError(l)
        PROVE  CompleteInTime'
    BY <1>1, <1>6 DEF AcquireRefused, LockHeld, AcquireReturns, Returns, RenewLost, Raises, StepFails,
       Call, ShardReturns, MarkLost, MarkReturns, LambdaDies, ServiceError, ShardCall
  <1>7. ASSUME NEW l \in lambdas, CheckShard(l) \/ PutShard(l) \/ ReadShards(l) \/ PutRankings(l)
        PROVE  CompleteInTime'
    BY <1>1, <1>7, CallOwners DEF CheckShard, PutShard, ReadShards, PutRankings, Advance, Invocations
  <1>8. ASSUME NEW e \in Owners, NEW shards \in (SUBSET Shards) \ {{}}, StartExecution(e, shards)
        PROVE  CompleteInTime'
    BY <1>1, <1>8 DEF StartExecution, Call
  <1>9. ASSUME NEW e \in Owners, NEW s \in Shards, StartShard(e, s)
        PROVE  CompleteInTime'
    BY <1>1, <1>9 DEF StartShard, ShardCall
  <1>10. ASSUME \/ \E e \in Owners : AbortExecution(e)
                \/ Tick \/ UNCHANGED vars
         PROVE  CompleteInTime'
    BY <1>1, <1>10 DEF AbortExecution, Tick, vars
  <1>11. QED
    BY <1>2, <1>3, <1>4, <1>5, <1>6, <1>7, <1>8, <1>9, <1>10 DEF Next, LambdaProgress

LEMMA InTimeInvariant == Spec => []CompleteInTime
  <1>1. Init => CompleteInTime
    BY DEF Init, CompleteInTime
  <1>2. QED
    BY <1>1, InTimeStep, LeaseInvariant, CollectInvariant, PTL DEF Spec

\* A step that leaves the row and the clock alone takes at most one execution
\* off its work.
LEMMA WorkEnds ==
    ASSUME NEW e \in Owners, UNCHANGED <<clock, row>>, Working' \in {Working, Working \ {e}}
    PROVE  [Claim!ClaimNext]_(Claim!claimVars)
  BY DEF Claim!ClaimNext, Claim!Leave, Claim!claimVars, LeaseLive

\* The ASL state of an execution tells whether it works on the date.
LEMMA WorkingAfter ==
    ASSUME TypeOK, NEW e \in Owners, NEW x, exec' = [exec EXCEPT ![e] = x]
    PROVE  /\ x \notin {"CollectHistoryShards", "ReduceRankings"} => Working' = Working \ {e}
           /\ x \in {"CollectHistoryShards", "ReduceRankings"} => Working' = Working \cup {e}
  BY DEF Working, TypeOK

LEMMA SameWorking == exec' = exec => Working' = Working
  BY DEF Working

\* The acquire claims the date; whoever else might have held it has lapsed.
LEMMA AcquireClaims ==
    ASSUME TypeOK, NEW e \in Owners, Acquire(e, e \in Repairs), clock' = clock, Working' = Working
    PROVE  Claim!Claim(e)
  <1>1. clock < clock + AcquireLease
    BY PipelineAssumption, LeaseMarginAssumption, LeaseAssumption, RetryBudgetFacts
       DEF TypeOK, ShardBudget
  <1>2. LeaseLive' /\ row'.ownerToken = e
    BY <1>1 DEF Acquire, LeaseLive
  <1>3. ~LeaseLive /\ (row.status = "COMPLETE" => e \in Repairs)
    BY DEF Acquire, Acquirable, LeaseLive, TypeOK, Rows
  <1>4. QED
    BY <1>2, <1>3 DEF Claim!Claim

\* A renewal keeps the claim, or takes it up again when it had lapsed and
\* nobody came.
LEMMA RenewClaims ==
    ASSUME TypeOK, NEW e \in Owners, NEW lease \in Nat \ {0}, NEW phase \in Phases, NEW done \in SUBSET Shards,
           Renew(e, lease, phase, done), clock' = clock, Working' = Working
    PROVE  [Claim!ClaimNext]_(Claim!claimVars)
  <1>1. LeaseLive' /\ row'.ownerToken = e /\ row.ownerToken = e /\ row.status = "IN_PROGRESS"
    BY DEF Renew, Holds, LeaseLive, TypeOK, Rows
  <1>2. CASE LeaseLive
    BY <1>1, <1>2 DEF Claim!claimVars
  <1>3. CASE ~LeaseLive
    <2>1. Claim!Claim(e)
      BY <1>1, <1>3 DEF Claim!Claim
    <2>2. QED
      BY <2>1 DEF Claim!ClaimNext
  <1>4. QED
    BY <1>2, <1>3

\* Marking the date closes or releases it.
LEMMA MarkClaims ==
    ASSUME LeaseInv, CompleteInTime, NEW l \in lambdas, l.pc = "mark", Mark(l),
           clock' = clock, Working' = Working
    PROVE  [Claim!ClaimNext]_(Claim!claimVars)
  <1> USE DEF LeaseInv, RunInv
  <1>1. l.exec \in Owners /\ row \in Rows /\ clock \in Nat /\ l.deadline \in Nat
    BY CallOwners DEF TypeOK, Invocations
  <1>2. Holds(l.exec) /\ l.exec \notin Working
    BY DEF Mark, MarkComplete, MarkFailed, LambdasFollowExec, Working, Terminal
  <1>3. CASE l.step = "Complete" /\ MarkComplete(l.exec)
    <2>1. LeaseLive
      <3>1. l.deadline < row.expiresAt /\ clock <= l.deadline
        BY <1>2, <1>3 DEF CompleteInTime, Timely
      <3>2. row.expiresAt \in Nat
        BY <1>1 DEF Rows
      <3>3. QED
        BY <1>1, <1>2, <3>1, <3>2 DEF LeaseLive, Holds
    <2>2. ~LeaseLive' /\ row'.status = "COMPLETE"
      BY <1>1, <1>3 DEF MarkComplete, LeaseLive, Rows
    <2>3. Claim!Close
      BY <1>2, <2>1, <2>2 DEF Claim!Close, Holds
    <2>4. QED
      BY <2>3 DEF Claim!ClaimNext
  <1>4. CASE MarkFailed(l.exec)
    <2>1. ~LeaseLive' /\ row'.status = "FAILED" /\ row.status = "IN_PROGRESS"
      BY <1>1, <1>2, <1>4 DEF MarkFailed, LeaseLive, Rows, Holds
    <2>2. CASE LeaseLive
      <3>1. Claim!Release
        BY <1>2, <2>1, <2>2 DEF Claim!Release, Holds
      <3>2. QED
        BY <3>1 DEF Claim!ClaimNext
    <2>3. CASE ~LeaseLive
      BY <2>1, <2>3 DEF Claim!claimVars
    <2>4. QED
      BY <2>2, <2>3
  <1>5. QED
    BY <1>3, <1>4 DEF Mark

\* Every step of the pipeline is a step of the claim or leaves it alone.
LEMMA ClaimStep ==
    ASSUME LeaseInv, LeaseInv', LeaseOutlivesRun', CollectInv, CompleteInTime, [Next]_vars
    PROVE  [Claim!ClaimNext]_(Claim!claimVars)
  <1> USE PipelineAssumption DEF LeaseInv, RunInv
  <1>1. \A l \in lambdas : l \in Invocations /\ l.exec \in Owners
    BY CallOwners
  <1>2. ASSUME NEW l \in lambdas, AcquireLock(l) \/ AcquireReplyLost(l)
        PROVE  [Claim!ClaimNext]_(Claim!claimVars)
    <2>1. l.step = "Acquire" /\ Acquire(l.exec, l.exec \in Repairs) /\ clock' = clock
      BY <1>2 DEF AcquireLock, AcquireReplyLost, LockHeld, CollectInv, StepsInOrder
    <2>2. Working' = Working
      <3>1. CASE exec' = exec
        BY <3>1, SameWorking
      <3>2. CASE exec' = [exec EXCEPT ![l.exec] = "ExecutionLockHeld"] /\ Awaited(l)
        <4>1. l.exec \notin Working
          BY <2>1, <3>2 DEF Awaited, Working, LambdaSteps
        <4>2. Working' = Working \ {l.exec}
          BY <1>1, <3>2, WorkingAfter
        <4>3. QED
          BY <4>1, <4>2
      <3>3. QED
        BY <1>2, <3>1, <3>2 DEF AcquireLock, AcquireReplyLost, LockHeld
    <2>3. Claim!Claim(l.exec)
      BY <1>1, <2>1, <2>2, AcquireClaims
    <2>4. QED
      BY <1>1, <2>3 DEF Claim!ClaimNext
  <1>3. ASSUME NEW l \in lambdas, RenewShard(l) \/ RenewReduce(l)
        PROVE  [Claim!ClaimNext]_(Claim!claimVars)
    <2>1. ShardRenewLease \in Nat \ {0} /\ ReducerRenewLease \in Nat \ {0}
      BY LeaseMarginAssumption, LeaseAssumption
    <2>2. Working' = Working /\ clock' = clock
      BY <1>3, SameWorking DEF RenewShard, RenewReduce
    <2>3. CASE RenewShard(l)
      BY <1>1, <2>1, <2>2, <2>3, RenewClaims DEF RenewShard, Phases
    <2>4. CASE RenewReduce(l)
      BY <1>1, <2>1, <2>2, <2>4, RenewClaims DEF RenewReduce, Phases
    <2>5. QED
      BY <1>3, <2>3, <2>4
  <1>4. ASSUME NEW l \in lambdas, MarkRow(l) \/ MarkReplyLost(l)
        PROVE  [Claim!ClaimNext]_(Claim!claimVars)
    <2>1. l.pc = "mark" /\ Mark(l) /\ clock' = clock /\ l.step \in {"Complete", "Failed"}
      BY <1>4 DEF MarkRow, MarkReplyLost, Raises, Mark
    <2>2. l.exec \notin Working
      BY <2>1 DEF LambdasFollowExec, Working, Terminal
    <2>3. Working' = Working
      <3>1. CASE exec' = exec
        BY <3>1, SameWorking
      <3>2. CASE \E x \in {"Fail", "Aborted"} : exec' = [exec EXCEPT ![l.exec] = x]
        <4>1. Working' = Working \ {l.exec}
          BY <1>1, <3>2, WorkingAfter
        <4>2. QED
          BY <2>2, <4>1
      <3>3. QED
        BY <1>4, <2>1, <3>1, <3>2 DEF MarkRow, MarkReplyLost, Raises, StepFails, LambdaSteps
    <2>4. QED
      BY <2>1, <2>3, MarkClaims
  <1>5. ASSUME NEW l \in lambdas, AcquireReturns(l)
        PROVE  [Claim!ClaimNext]_(Claim!claimVars)
    <2>1. UNCHANGED <<clock, row>>
      BY <1>5 DEF AcquireReturns, Returns
    <2>2. CASE Awaited(l)
      <3>1. Working' = Working \cup {l.exec}
        BY <1>1, <1>5, <2>2, WorkingAfter DEF AcquireReturns, Returns
      <3>2. LeaseLive /\ row.ownerToken = l.exec
        BY <1>1, <2>1, <3>1 DEF LeaseOutlivesRun, LeaseLive
      <3>3. Claim!Begin(l.exec)
        BY <2>1, <3>1, <3>2 DEF Claim!Begin, LeaseLive
      <3>4. QED
        BY <1>1, <3>3 DEF Claim!ClaimNext
    <2>3. CASE ~Awaited(l)
      BY <1>1, <1>5, <2>1, <2>3, SameWorking, WorkEnds DEF AcquireReturns, Returns
    <2>4. QED
      BY <2>2, <2>3
  <1>6. ASSUME NEW l \in lambdas,
               \/ AcquireRefused(l) \/ RenewLost(l) \/ MarkLost(l) \/ LambdaDies(l)
               \/ ServiceError(l) \/ ShardReturns(l) \/ ReduceReturns(l) \/ MarkReturns(l)
        PROVE  [Claim!ClaimNext]_(Claim!claimVars)
    <2>1. UNCHANGED <<clock, row>>
      BY <1>6 DEF AcquireRefused, LockHeld, RenewLost, MarkLost, LambdaDies, Raises, ServiceError,
         ShardReturns, ReduceReturns, MarkReturns, Returns
    <2>2. \/ exec' = exec
          \/ \E x \in Terminal \cup {"MarkExecutionFailed", "MarkExecutionComplete"} :
                exec' = [exec EXCEPT ![l.exec] = x]
          \/ /\ l.exec \in Working
             /\ \E x \in {exec[l.exec], "ReduceRankings"} : exec' = [exec EXCEPT ![l.exec] = x]
      <3>1. CASE AcquireRefused(l) \/ RenewLost(l) \/ MarkLost(l) \/ LambdaDies(l) \/ ServiceError(l)
        BY <3>1 DEF AcquireRefused, LockHeld, RenewLost, MarkLost, LambdaDies, Raises, StepFails,
           ServiceError, Terminal
      <3>2. CASE ReduceReturns(l) \/ MarkReturns(l)
        BY <3>2 DEF ReduceReturns, MarkReturns, Returns, Terminal
      <3>3. CASE ShardReturns(l)
        <4>1. Awaited(l) => l.exec \in Working
          BY <1>1, <3>3 DEF ShardReturns, Awaited, Working, LambdaSteps
        <4>2. QED
          BY <3>3, <4>1 DEF ShardReturns, Returns
      <3>4. QED
        BY <1>6, <3>1, <3>2, <3>3
    <2>3. Working' \in {Working, Working \ {l.exec}}
      <3>1. CASE exec' = exec
        BY <3>1, SameWorking
      <3>2. CASE \E x \in Terminal \cup {"MarkExecutionFailed", "MarkExecutionComplete"} :
                   exec' = [exec EXCEPT ![l.exec] = x]
        BY <1>1, <3>2, WorkingAfter DEF Terminal
      <3>3. CASE /\ l.exec \in Working
                 /\ \E x \in {exec[l.exec], "ReduceRankings"} : exec' = [exec EXCEPT ![l.exec] = x]
        BY <1>1, <3>3, WorkingAfter DEF Working
      <3>4. QED
        BY <2>2, <3>1, <3>2, <3>3
    <2>4. QED
      BY <1>1, <2>1, <2>3, WorkEnds
  <1>7. ASSUME NEW l \in lambdas, CheckShard(l) \/ PutShard(l) \/ ReadShards(l) \/ PutRankings(l)
        PROVE  [Claim!ClaimNext]_(Claim!claimVars)
    BY <1>1, <1>7, SameWorking, WorkEnds DEF CheckShard, PutShard, ReadShards, PutRankings
  <1>8. ASSUME NEW e \in Owners, NEW shards \in (SUBSET Shards) \ {{}}, StartExecution(e, shards)
        PROVE  [Claim!ClaimNext]_(Claim!claimVars)
    BY <1>8, WorkingAfter, WorkEnds DEF StartExecution
  <1>9. ASSUME NEW e \in Owners, NEW s \in Shards, StartShard(e, s)
        PROVE  [Claim!ClaimNext]_(Claim!claimVars)
    BY <1>9, SameWorking, WorkEnds DEF StartShard
  <1>10. ASSUME NEW e \in Owners, AbortExecution(e)
         PROVE  [Claim!ClaimNext]_(Claim!claimVars)
    BY <1>10, WorkingAfter, WorkEnds DEF AbortExecution
  <1>11. ASSUME Tick
         PROVE  [Claim!ClaimNext]_(Claim!claimVars)
    <2>1. row' = row /\ clock' = clock + 1 /\ Working' = Working
      BY <1>11, SameWorking DEF Tick
    <2>2. LeaseLive' => LeaseLive
      BY <2>1 DEF LeaseLive, TypeOK, Rows
    <2>3. CASE LeaseLive /\ ~LeaseLive'
      <3>1. Working = {}
        BY <2>1, <2>3 DEF LeaseOutlivesRun
      <3>2. Claim!Release
        BY <2>1, <2>3, <3>1 DEF Claim!Release, LeaseLive
      <3>3. QED
        BY <3>2 DEF Claim!ClaimNext
    <2>4. CASE LeaseLive' = LeaseLive
      BY <2>1, <2>4 DEF Claim!claimVars
    <2>5. QED
      BY <2>2, <2>3, <2>4 DEF LeaseLive
  <1>12. CASE UNCHANGED vars
    BY <1>12, SameWorking DEF vars, Claim!claimVars, LeaseLive
  <1>13. QED
    BY <1>2, <1>3, <1>4, <1>5, <1>6, <1>7, <1>8, <1>9, <1>10, <1>11, <1>12 DEF Next, LambdaProgress

\* The lock implements the abstract claim of a report date: at most one
\* execution holds it, it ends only when its holder finishes, gives up or
\* works on the date no more, and only a repair reopens a COMPLETE date.
THEOREM ClaimImplemented == Spec => ImplementsClaim
  <1>1. Init => Claim!ClaimInit
    BY DEF Init, NoRow, LeaseLive, Working, Claim!ClaimInit
  <1>2. LeaseInv /\ LeaseInv' /\ LeaseOutlivesRun' /\ CollectInv /\ CompleteInTime /\ [Next]_vars
          => [Claim!ClaimNext]_(Claim!claimVars)
    BY ClaimStep
  <1>3. QED
    BY <1>1, <1>2, LeaseInvariant, LeaseSafe, CollectInvariant, InTimeInvariant, PTL
       DEF Spec, ImplementsClaim, Claim!ClaimSpec
=============================================================================
