-------------------------- MODULE ReportDateClaim --------------------------
(***************************************************************************)
(* What the execution lock promises a report date, without leases, rows or *)
(* Lambda invocations: the date is claimed by at most one execution, a     *)
(* claim ends only when its execution finishes, gives up, or stops         *)
(* working on the date, and a finished date is claimed again only by a     *)
(* repair.  HistoryPipeline implements this specification.                 *)
(***************************************************************************)
CONSTANTS
    Executions,
    Nobody,
    Repairs         \* the executions started with forceRecovery

VARIABLES
    state,          \* "open", "claimed" or "closed"
    holder,         \* whose claim it is
    working         \* executions collecting shards or reducing rankings

claimVars == <<state, holder, working>>

ClaimInit ==
    /\ state = "open"
    /\ holder = Nobody
    /\ working = {}

\* An open date is claimed by anyone, a closed one only by a repair.
Claim(e) ==
    /\ state = "open" \/ (state = "closed" /\ e \in Repairs)
    /\ state' = "claimed"
    /\ holder' = e
    /\ UNCHANGED working

\* Only the holder of the claim starts to work on the date.
Begin(e) ==
    /\ state = "claimed"
    /\ holder = e
    /\ working' = working \cup {e}
    /\ UNCHANGED <<state, holder>>

\* Work ends, for whatever reason.
Leave(e) ==
    /\ working' = working \ {e}
    /\ UNCHANGED <<state, holder>>

\* The claim is given up, or lapses, and never under a working execution.
Release ==
    /\ state = "claimed"
    /\ holder \notin working
    /\ state' = "open"
    /\ holder' = Nobody
    /\ UNCHANGED working

\* The holder, its work done, closes the date.
Close ==
    /\ state = "claimed"
    /\ holder \notin working
    /\ state' = "closed"
    /\ holder' = Nobody
    /\ UNCHANGED working

ClaimNext ==
    \/ \E e \in Executions : Claim(e) \/ Begin(e) \/ Leave(e)
    \/ Release
    \/ Close

ClaimSpec == ClaimInit /\ [][ClaimNext]_claimVars
=============================================================================
