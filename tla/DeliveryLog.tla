---------------------------- MODULE DeliveryLog ----------------------------
(***************************************************************************)
(* The notification delivery log (src/stores/                              *)
(* notification_delivery_log_store.py): one row per client and             *)
(* notification, claimed before the push, confirmed or released after it.  *)
(* Every operation is one DynamoDB access; the dispatchers call them.      *)
(***************************************************************************)
EXTENDS Integers

CONSTANTS
    Clients,
    Ids,            \* dedupe ids: a video, or a reminder kind and its start
    ClaimExpiry     \* _CLAIM_EXPIRY

VARIABLES
    clock,          \* the time every caller reads
    log             \* the row of each client and id

Keys == Clients \X Ids

NoEntry == [status |-> "none", at |-> 0]

Entries == [status : {"none", "claimed", "delivered", "suppressed"}, at : Nat]

\* Mutant: the expiry is far shorter than a run.
ExpiredAtOnce(key) == log[key].status = "claimed" /\ clock - log[key].at > 0

\* _is_expired, the condition of mark_delivered on a claimed row included.
Expired(key) == log[key].status = "claimed" /\ clock - log[key].at > ClaimExpiry

\* row_status of a caller whose own clock stands at `now`: "none" for an
\* abandoned claim too.
StatusAt(key, now) ==
    IF log[key].status = "claimed" /\ now - log[key].at > ClaimExpiry THEN "none" ELSE log[key].status

\* Mutant: a row of any status is forgotten once it is old.
HandledWhileFresh(key) == log[key].status # "none" /\ clock - log[key].at <= ClaimExpiry

\* already_delivered, and handled_ids for one id.
Handled(key) == log[key].status # "none" /\ ~Expired(key)

\* Mutant: a claim never stops anyone.
ClaimAnyClaimed(key, at) ==
    /\ log[key].status \in {"none", "claimed"}
    /\ log' = [log EXCEPT ![key] = [status |-> "claimed", at |-> at]]

\* mark_delivered: a row is claimed when there is none, or an expired claim.
Claim(key, at) ==
    /\ ~Handled(key)
    /\ log' = [log EXCEPT ![key] = [status |-> "claimed", at |-> at]]

\* confirm_delivered and release_claim are unconditional: they trust that
\* the caller still owns its claim.
Confirm(key, at) == log' = [log EXCEPT ![key] = [status |-> "delivered", at |-> at]]

Release(key) == log' = [log EXCEPT ![key] = NoEntry]
=============================================================================
