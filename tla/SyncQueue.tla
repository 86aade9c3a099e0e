----------------------------- MODULE SyncQueue -----------------------------
(***************************************************************************)
(* The queue of what a federation site has to tell its coordinator: one    *)
(* row per deduplication key.  A queue is a function from the keys to a    *)
(* row or NoRow; a row's value stands for its payload.                     *)
(*                                                                         *)
(* Modelled code: backend/services/federation_sync_queue_service.py and    *)
(* the dead-letter rule of federation_retry_policy.py.  A back-off only    *)
(* delays an attempt and is left to the scheduling.                        *)
(***************************************************************************)
EXTENDS Naturals, FiniteSets

CONSTANTS
  NoRow,        \* no row has the key
  MaxAttempts   \* retry_policy.MAX_ATTEMPTS

ASSUME AttemptsAssumption == MaxAttempts \in Nat \ {0}

\* `at' is created_at.
Row(Value) == [value : Value, attempts : 0..MaxAttempts, at : Nat]

\* Mutation: one attempt too many.
DeadLetteredLate(attempts) == attempts > MaxAttempts

DeadLettered(attempts) == attempts >= MaxAttempts

Queued(q) == {k \in DOMAIN q : q[k] # NoRow}

\* Mutation: a row that has the key already is kept.
EnqueueOnce(q, k, v, t) ==
  IF q[k] # NoRow THEN q ELSE [q EXCEPT ![k] = [value |-> v, attempts |-> 0, at |-> t]]

\* A row that has the key already is overwritten in place, as if it were new.
Enqueue(q, k, v, t) == [q EXCEPT ![k] = [value |-> v, attempts |-> 0, at |-> t]]

\* Mutation: a row that failed is not tried again.
ReadyOnce(q) == {k \in Queued(q) : q[k].attempts = 0}

Ready(q) == {k \in Queued(q) : ~ DeadLettered(q[k].attempts)}

MarkSent(q, k) == [q EXCEPT ![k] = NoRow]

\* Mutation: a row that fails for the last time is deleted.
MarkFailedDropping(q, k) ==
  IF DeadLettered(q[k].attempts + 1) THEN MarkSent(q, k)
  ELSE [q EXCEPT ![k].attempts = @ + 1]

MarkFailed(q, k) == [q EXCEPT ![k].attempts = @ + 1]

\* The cut-off is the created_at of the first row that is too many; every row
\* that is as old goes, those made in the same instant included.
NotOlder(q, k) == {j \in Queued(q) : q[j].at >= q[k].at}

TooMany(q, keep) == {k \in Queued(q) : Cardinality(NotOlder(q, k)) > keep}

PurgeOldest(q, keep) == [k \in DOMAIN q |-> IF k \in TooMany(q, keep) THEN NoRow ELSE q[k]]
=============================================================================
