---------------------------- MODULE MessageQueue ----------------------------
(***************************************************************************)
(* One row of the message_queue table and the operations of                *)
(* backend/websocket/queue_operations.py and queue_maintenance.py that     *)
(* move it through its life cycle.  The operators are pure: the modules    *)
(* that use them say which session runs them and when they are committed.  *)
(*                                                                         *)
(* Time is counted in minutes.  The three datetimes of a row that the code *)
(* compares with "now" become saturating timers, which is exact because    *)
(* the code only ever asks whether a threshold has been passed:            *)
(*   age    minutes since created_at                                       *)
(*   timer  pending:     minutes until scheduled_at (0 = due or NULL)      *)
(*          in_progress: minutes since started_at, up to 1                 *)
(*          sent:        minutes since started_at                          *)
(*          completed:   minutes since completed_at                        *)
(* A timer no later code reads is kept at 0.                               *)
(***************************************************************************)
EXTENDS Naturals

CONSTANTS
  MaxRetries,     \* the max_retries column, 3 unless the caller says otherwise
  AckTimeout,     \* minutes a SENT row waits for its acknowledgment: 1
  ExpireAfter,    \* expiration_timeout_minutes of the configuration: 60
  KeepCompleted   \* minutes a COMPLETED row is kept: 7 days

ASSUME QueueAssumption ==
  /\ MaxRetries \in Nat \ {0}
  /\ AckTimeout \in Nat
  /\ ExpireAfter \in Nat
  /\ KeepCompleted \in Nat

\* "absent" is not a status of the code: no such row, not yet inserted or deleted.
Status == {"absent", "pending", "in_progress", "sent", "completed", "failed", "expired"}
Live == {"pending", "in_progress", "sent"}
Terminal == {"completed", "failed", "expired"}

Row == [status : Status, retries : 0..MaxRetries, timer : Nat, age : 0..ExpireAfter + 1]

Absent == [status |-> "absent", retries |-> 0, timer |-> 0, age |-> 0]

NewRow == [status |-> "pending", retries |-> 0, timer |-> 0, age |-> 0]

\* min(60 * 2 ** (n - 1), 3600) seconds, in minutes.
Backoff(n) == IF n \in 1..6 THEN <<1, 2, 4, 8, 16, 32>>[n] ELSE 60

MarkProcessing(r) == [r EXCEPT !.status = "in_progress", !.timer = 0]

MarkSent(r) == [r EXCEPT !.status = "sent", !.timer = 0]

MarkCompleted(r) == [r EXCEPT !.status = "completed", !.timer = 0, !.age = 0]

\* Mutation: the status is not looked at.
MarkAcknowledgedUnguarded(r) == MarkCompleted(r)

\* Only a SENT row is acknowledged; any other row is left as it is.
MarkAcknowledged(r) == IF r.status = "sent" THEN MarkCompleted(r) ELSE r

\* Mutation: one attempt too many.
MarkFailedOffByOne(r) ==
  IF r.retries + 1 <= MaxRetries
  THEN [r EXCEPT !.status = "pending", !.retries = @ + 1, !.timer = Backoff(r.retries + 1)]
  ELSE [r EXCEPT !.status = "failed", !.retries = @ + 1, !.timer = 0, !.age = 0]

MarkFailed(r) ==
  IF r.retries + 1 < MaxRetries
  THEN [r EXCEPT !.status = "pending", !.retries = @ + 1, !.timer = Backoff(r.retries + 1)]
  ELSE [r EXCEPT !.status = "failed", !.retries = @ + 1, !.timer = 0, !.age = 0]

\* Mutations: the step is skipped; the row is queued again without counting a retry.
RetryUnacknowledgedSkipped(r) == r
RetryUnacknowledgedUncounted(r) ==
  IF r.status = "sent" /\ r.timer > AckTimeout
  THEN [r EXCEPT !.status = "pending", !.timer = 0] ELSE r

RetryUnacknowledged(r) ==
  IF r.status = "sent" /\ r.timer > AckTimeout THEN MarkFailed(r) ELSE r

\* Mutation: nothing expires.
ExpirableNever(r) == FALSE

Expirable(r) == r.status \in {"pending", "in_progress"} /\ r.age > ExpireAfter

ExpireOld(r) == [r EXCEPT !.status = "expired", !.timer = 0, !.age = 0]

\* Mutation: scheduled_at is not part of the filter.
DueUnscheduled(r) == r.status = "pending"

\* The filter of the outbound query: PENDING and scheduled_at NULL or in the past.
Due(r) == r.status = "pending" /\ r.timer = 0

Purgeable(r) == r.status = "completed" /\ r.timer > KeepCompleted

\* A minute passes.
UpTo(n, bound) == IF n < bound THEN n + 1 ELSE bound

Older(r) ==
  LET grown == UpTo(r.age, ExpireAfter + 1) IN
  CASE r.status = "pending"     -> [r EXCEPT !.age = grown, !.timer = IF @ = 0 THEN 0 ELSE @ - 1]
    [] r.status = "in_progress" -> [r EXCEPT !.age = grown, !.timer = UpTo(@, 1)]
    [] r.status = "sent"        -> [r EXCEPT !.age = grown, !.timer = UpTo(@, AckTimeout + 1)]
    [] r.status = "completed"   -> [r EXCEPT !.timer = UpTo(@, KeepCompleted + 1)]
    [] OTHER                    -> r
=============================================================================
