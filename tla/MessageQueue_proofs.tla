------------------------ MODULE MessageQueue_proofs ------------------------
(***************************************************************************)
(* What the operations on a row of the message queue return, for every     *)
(* retry limit and timeout.  The modules that prove something of the       *)
(* queues cite these lemmas.                                               *)
(***************************************************************************)
EXTENDS MessageQueue, FiniteSetTheorems, WellFoundedInduction, TLAPS

\* Every set of numbers that is not empty has a least element.
LEMMA Least ==
  ASSUME NEW S \in SUBSET Nat, S # {} PROVE \E x \in S : \A y \in S : x <= y
<1>1. PICK x \in S : \A y \in S : ~ (<<y, x>> \in OpToRel(<, Nat))
  BY NatLessThanWellFounded, WFMin
<1>2. \A y \in S : ~ (y < x)
  BY <1>1 DEF OpToRel
<1> QED BY <1>2

\* Fields read, and rows rebuilt, without looking at the record's shape again.
LEMMA RowFields ==
  ASSUME NEW r \in Row
  PROVE  /\ r.status \in Status /\ r.retries \in 0..MaxRetries
         /\ r.timer \in Nat /\ r.age \in 0..ExpireAfter + 1
         /\ r.retries \in Nat /\ r.age \in Nat
BY QueueAssumption DEF Row

\* The backoff of any attempt is a number of minutes.
LEMMA BackoffNat ==
  ASSUME NEW n \in Nat PROVE Backoff(n) \in Nat
<1>1. CASE n \in 1..6
  <2>1. n = 1 \/ n = 2 \/ n = 3 \/ n = 4 \/ n = 5 \/ n = 6
    BY <1>1
  <2> QED BY <2>1 DEF Backoff
<1>2. CASE n \notin 1..6
  BY <1>2 DEF Backoff
<1> QED BY <1>1, <1>2

\* The backoff grows with the attempts.
LEMMA BackoffGrows ==
  ASSUME NEW n \in Nat \ {0}, NEW k \in Nat, n <= k PROVE Backoff(n) <= Backoff(k)
<1>1. \A i \in 1..6 : Backoff(i) <= 60 /\ \A j \in 1..6 : i <= j => Backoff(i) <= Backoff(j)
  <2> SUFFICES ASSUME NEW i \in 1..6
               PROVE  Backoff(i) <= 60 /\ \A j \in 1..6 : i <= j => Backoff(i) <= Backoff(j)
    OBVIOUS
  <2>1. /\ Backoff(1) = 1 /\ Backoff(2) = 2 /\ Backoff(3) = 4
        /\ Backoff(4) = 8 /\ Backoff(5) = 16 /\ Backoff(6) = 32
    BY DEF Backoff
  <2>2. i = 1 \/ i = 2 \/ i = 3 \/ i = 4 \/ i = 5 \/ i = 6
    OBVIOUS
  <2>3. \A j \in 1..6 : j = 1 \/ j = 2 \/ j = 3 \/ j = 4 \/ j = 5 \/ j = 6
    OBVIOUS
  <2> QED BY <2>1, <2>2, <2>3
<1>2. \A i \in Nat : i \notin 1..6 => Backoff(i) = 60
  BY DEF Backoff
<1>3. CASE n \in 1..6
  BY <1>1, <1>2, <1>3
<1>4. CASE n \notin 1..6
  BY <1>2, <1>4
<1> QED BY <1>3, <1>4

\* A row that does not exist and a row just inserted are rows.
LEMMA FreshRows == Absent \in Row /\ NewRow \in Row
BY QueueAssumption DEF Row, Absent, NewRow, Status

\* A failed attempt uses up a retry: the row is queued again, or FAILED.
LEMMA MarkFailedRow ==
  ASSUME NEW r \in Row, r.retries < MaxRetries
  PROVE  /\ MarkFailed(r) \in Row
         /\ MarkFailed(r).status \in {"pending", "failed"}
         /\ MarkFailed(r).status = "pending" =>
              MarkFailed(r).retries = r.retries + 1 /\ r.retries + 1 < MaxRetries
<1>1. /\ r.retries \in Nat /\ r.retries + 1 \in 0..MaxRetries
      /\ Backoff(r.retries + 1) \in Nat /\ 0 \in 0..ExpireAfter + 1
  BY RowFields, BackoffNat, QueueAssumption
<1>2. CASE r.retries + 1 < MaxRetries
  <2>1. MarkFailed(r) = [status |-> "pending", retries |-> r.retries + 1,
                         timer |-> Backoff(r.retries + 1), age |-> r.age]
    BY <1>2 DEF MarkFailed, Row
  <2> QED BY <2>1, <1>1, <1>2, RowFields DEF Row, Status
<1>3. CASE ~(r.retries + 1 < MaxRetries)
  <2>1. MarkFailed(r) = [status |-> "failed", retries |-> r.retries + 1,
                         timer |-> 0, age |-> 0]
    BY <1>3 DEF MarkFailed, Row
  <2> QED BY <2>1, <1>1, RowFields DEF Row, Status
<1> QED BY <1>2, <1>3

\* A row that is queued again waits for the backoff of its attempts.
LEMMA MarkFailedTimer ==
  ASSUME NEW r \in Row, MarkFailed(r).status = "pending"
  PROVE  MarkFailed(r).timer = Backoff(MarkFailed(r).retries)
BY DEF MarkFailed, Row

\* mark_processing, mark_sent, mark_completed and the expiry give rows of the status
\* they are named for; the first two keep the retries.
LEMMA MarkRow ==
  ASSUME NEW r \in Row
  PROVE  /\ MarkProcessing(r) \in Row /\ MarkProcessing(r).status = "in_progress"
         /\ MarkProcessing(r).retries = r.retries
         /\ MarkSent(r) \in Row /\ MarkSent(r).status = "sent"
         /\ MarkSent(r).retries = r.retries
         /\ MarkCompleted(r) \in Row /\ MarkCompleted(r).status = "completed"
         /\ ExpireOld(r) \in Row /\ ExpireOld(r).status = "expired"
<1>1. /\ MarkProcessing(r) \in Row /\ MarkProcessing(r).status = "in_progress"
      /\ MarkProcessing(r).retries = r.retries
  BY DEF MarkProcessing, Row, Status
<1>2. /\ MarkSent(r) \in Row /\ MarkSent(r).status = "sent"
      /\ MarkSent(r).retries = r.retries
  BY DEF MarkSent, Row, Status
<1>3. 0 \in 0..ExpireAfter + 1
  BY QueueAssumption
<1>4. MarkCompleted(r) \in Row /\ MarkCompleted(r).status = "completed"
  BY <1>3 DEF MarkCompleted, Row, Status
<1>5. ExpireOld(r) \in Row /\ ExpireOld(r).status = "expired"
  BY <1>3 DEF ExpireOld, Row, Status
<1> QED BY <1>1, <1>2, <1>4, <1>5

\* An acknowledgment completes a SENT row and leaves every other row alone.
LEMMA MarkAcknowledgedRow ==
  ASSUME NEW r \in Row
  PROVE  /\ MarkAcknowledged(r) \in Row
         /\ r.status # "sent" => MarkAcknowledged(r) = r
         /\ r.status = "sent" => MarkAcknowledged(r).status = "completed"
BY MarkRow DEF MarkAcknowledged

\* A SENT row is kept, queued again with one retry more, or FAILED.
LEMMA RetryUnacknowledgedRow ==
  ASSUME NEW r \in Row, r.status \in Live => r.retries < MaxRetries
  PROVE  /\ RetryUnacknowledged(r) \in Row
         /\ \/ RetryUnacknowledged(r) = r
            \/ r.status = "sent" /\ RetryUnacknowledged(r).status = "failed"
            \/ /\ r.status = "sent" /\ RetryUnacknowledged(r).status = "pending"
               /\ RetryUnacknowledged(r).retries = r.retries + 1
               /\ r.retries + 1 < MaxRetries
BY MarkFailedRow DEF RetryUnacknowledged, Live

\* The passing of time changes neither the status nor the retries of a row.
LEMMA OlderRow ==
  ASSUME NEW r \in Row
  PROVE  /\ Older(r) \in Row
         /\ Older(r).status = r.status
         /\ Older(r).retries = r.retries
         /\ r = Absent => Older(r) = r
<1>1. /\ UpTo(r.age, ExpireAfter + 1) \in 0..ExpireAfter + 1
      /\ UpTo(r.timer, 1) \in Nat
      /\ UpTo(r.timer, AckTimeout + 1) \in Nat
      /\ UpTo(r.timer, KeepCompleted + 1) \in Nat
      /\ r.timer # 0 => r.timer - 1 \in Nat
  BY RowFields, QueueAssumption DEF UpTo
<1>2. Older(r) \in Row /\ Older(r).status = r.status /\ Older(r).retries = r.retries
  BY <1>1 DEF Older, Row, Status
<1>3. r = Absent => Older(r) = r
  BY DEF Older, Absent
<1> QED BY <1>2, <1>3
=============================================================================
