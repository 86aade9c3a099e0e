------------------------ MODULE PackageCatalog_proofs ------------------------
(***************************************************************************)
(* Proofs about PackageCatalog for every set of hosts and packages and any *)
(* number of batches, deltas and faults.  The inductive invariant adds to  *)
(* the properties                                                          *)
(*   QueueOK     what no fault has touched of a batch is an uninterrupted  *)
(*               rest of it: its messages follow each other, a chunk for   *)
(*               each package that is left, and the end                    *)
(*   SessionOK   while such a batch is open, the rows are those of the     *)
(*               packages that are not left                                *)
(* and, as long as there has been no fault,                                *)
(*   Calm        every batch names its catalog, a message that needs an    *)
(*               open batch finds it open, a batch that is open has its    *)
(*               end in the queue, and what is recorded for a host is true *)
(*               or a batch of it is open                                  *)
(***************************************************************************)
EXTENDS PackageCatalog, FiniteSetTheorems, TLAPS

StartMsg == [type : {"start"}, batch : Nat, fingerprint : Catalog \cup {None}]
ChunkMsg == [type : {"chunk"}, batch : Nat, package : Package]
EndMsg   == [type : {"end"}, batch : Nat]
DeltaMsg == [type : {"delta"}, batch : Nat, base : Catalog, fingerprint : Catalog]
Message  == StartMsg \cup ChunkMsg \cup EndMsg \cup DeltaMsg

\* The packages a queue has still to add for a batch.
Left(q, i) == {q[k].package : k \in {k \in DOMAIN q : q[k].type = "chunk" /\ q[k].batch = i}}

\* A message is left that its batch must be open for.
Pending(q, i) == \E k \in DOMAIN q : q[k].type \in {"chunk", "end"} /\ q[k].batch = i

\* Two messages of the same batch, the first before the second.
PairOK(q, j, k) ==
  /\ q[j].type \in {"start", "chunk"} /\ q[k].type \in {"chunk", "end"}
  /\ \A l \in DOMAIN q : j < l /\ l < k => q[l].batch = q[j].batch
  /\ q[j].type = "chunk" /\ q[k].type = "chunk" => q[j].package # q[k].package

QueueOK(q, T) ==
  /\ \A j, k \in DOMAIN q :
       j < k /\ q[j].batch = q[k].batch /\ q[j].batch \notin T => PairOK(q, j, k)
  /\ \A k \in DOMAIN q :
       q[k].type = "start" /\ q[k].batch \notin T => Left(q, q[k].batch) = q[k].fingerprint

\* An open batch no fault has touched, before its end.
OpenOK(q, r, T, s) ==
  s.batch \notin T /\ Pending(q, s.batch) =>
    /\ q[1].batch = s.batch
    /\ Left(q, s.batch) \subseteq s.fingerprint
    /\ \A p \in Package : r[p] = IF p \in s.fingerprint \ Left(q, s.batch) THEN 1 ELSE 0

SessionOK(s) == OpenOK(queue[s.host], rows[s.host], tainted, s)

Types ==
  /\ TypeOK
  /\ queue \in [Host -> Seq(Message)]

IInv ==
  /\ Types
  /\ \A h \in Host : QueueOK(queue[h], tainted)
  /\ \A s \in sessions : SessionOK(s)
  /\ WholeIsFaithful

-----------------------------------------------------------------------------
(* Catalogs and messages.                                                  *)

\* A list of the elements of a finite set has each of them once.
LEMMA Listing ==
  ASSUME NEW S, IsFiniteSet(S)
  PROVE  /\ Cardinality(S) \in Nat
         /\ SetToSeq(S) \in [1..Cardinality(S) -> S]
         /\ \A j, k \in 1..Cardinality(S) : j # k => SetToSeq(S)[j] # SetToSeq(S)[k]
         /\ \A p \in S : \E k \in 1..Cardinality(S) : SetToSeq(S)[k] = p
<1>1. Cardinality(S) \in Nat /\ ExistsBijection(1..Cardinality(S), S)
  BY FS_CardinalityType
<1>2. PICK f \in [1..Cardinality(S) -> S] : IsInjective(f)
  BY <1>1 DEF ExistsBijection, Bijection, Injection
<1>3. SetToSeq(S) \in [1..Cardinality(S) -> S] /\ IsInjective(SetToSeq(S))
  BY <1>2 DEF SetToSeq
<1>4. IsFiniteSet(1..Cardinality(S)) /\ Cardinality(1..Cardinality(S)) = Cardinality(S)
  BY <1>1, FS_Interval
<1>5. SetToSeq(S) \in Surjection(1..Cardinality(S), S)
  BY <1>3, <1>4, FS_Injection DEF Injection
<1>6. \A p \in S : \E k \in 1..Cardinality(S) : SetToSeq(S)[k] = p
  BY <1>5 DEF Surjection
<1>7. \A j, k \in 1..Cardinality(S) : j # k => SetToSeq(S)[j] # SetToSeq(S)[k]
  BY <1>3 DEF IsInjective
<1> QED BY <1>1, <1>3, <1>6, <1>7

LEMMA CatalogFinite ==
  ASSUME NEW c \in Catalog PROVE c \subseteq Package /\ IsFiniteSet(c)
BY CatalogAssumption, FS_Subset DEF Catalog

\* Where the elements of a concatenation come from.
LEMMA Appended ==
  ASSUME NEW S, NEW q \in Seq(S), NEW r \in Seq(S)
  PROVE  /\ q \o r \in Seq(S)
         /\ Len(q) \in Nat /\ Len(r) \in Nat /\ Len(q \o r) = Len(q) + Len(r)
         /\ \A k \in 1..Len(q) : (q \o r)[k] = q[k]
         /\ \A k \in 1..Len(r) : (q \o r)[Len(q) + k] = r[k]
OBVIOUS

\* What is in a batch.
LEMMA BatchMessages ==
  ASSUME NEW i \in Nat, NEW c \in Catalog, NEW f \in Catalog \cup {None}
  PROVE  /\ Batch(i, c, f) \in Seq(Message)
         /\ Len(Batch(i, c, f)) = Cardinality(c) + 2 /\ Cardinality(c) \in Nat
         /\ Batch(i, c, f)[1] = [type |-> "start", batch |-> i, fingerprint |-> f]
         /\ \A k \in 1..Cardinality(c) :
              Batch(i, c, f)[k + 1] = [type |-> "chunk", batch |-> i, package |-> SetToSeq(c)[k]]
         /\ Batch(i, c, f)[Cardinality(c) + 2] = [type |-> "end", batch |-> i]
<1> DEFINE n == Cardinality(c)
           a == <<[type |-> "start", batch |-> i, fingerprint |-> f]>>
           b == [k \in 1..n |-> [type |-> "chunk", batch |-> i, package |-> SetToSeq(c)[k]]]
           e == <<[type |-> "end", batch |-> i]>>
<1>1. Batch(i, c, f) = (a \o b) \o e
  BY DEF Batch
<1>2. n \in Nat /\ \A k \in 1..n : SetToSeq(c)[k] \in Package
  BY CatalogFinite, Listing
<1>3. a \in Seq(Message) /\ Len(a) = 1 /\ a[1] = [type |-> "start", batch |-> i, fingerprint |-> f]
  BY DEF Message, StartMsg
<1>4. b \in Seq(Message) /\ Len(b) = n
  BY <1>2 DEF Message, ChunkMsg
<1>5. e \in Seq(Message) /\ Len(e) = 1 /\ e[1] = [type |-> "end", batch |-> i]
  BY DEF Message, EndMsg
<1>6. \A k \in 1..n : b[k] = [type |-> "chunk", batch |-> i, package |-> SetToSeq(c)[k]]
  OBVIOUS
<1> HIDE DEF n, a, b, e
<1>7. /\ a \o b \in Seq(Message) /\ Len(a \o b) = 1 + n
      /\ (a \o b)[1] = a[1] /\ \A k \in 1..n : (a \o b)[1 + k] = b[k]
  <2>1. /\ a \o b \in Seq(Message) /\ Len(a \o b) = Len(a) + Len(b)
        /\ \A k \in 1..Len(a) : (a \o b)[k] = a[k]
        /\ \A k \in 1..Len(b) : (a \o b)[Len(a) + k] = b[k]
    <3>1. a \in Seq(Message) /\ b \in Seq(Message)
      BY <1>3, <1>4
    <3> QED BY <3>1, Appended
  <2>2. 1 \in 1..Len(a)
    BY <1>3
  <2> QED BY <2>1, <2>2, <1>3, <1>4
<1>8. /\ (a \o b) \o e \in Seq(Message) /\ Len((a \o b) \o e) = n + 2
      /\ \A k \in 1..1 + n : ((a \o b) \o e)[k] = (a \o b)[k]
      /\ ((a \o b) \o e)[n + 2] = e[1]
  <2> DEFINE ab == a \o b
  <2>1. /\ ab \o e \in Seq(Message) /\ Len(ab \o e) = Len(ab) + Len(e)
        /\ \A k \in 1..Len(ab) : (ab \o e)[k] = ab[k]
        /\ \A k \in 1..Len(e) : (ab \o e)[Len(ab) + k] = e[k]
    <3>1. ab \in Seq(Message) /\ e \in Seq(Message)
      BY <1>5, <1>7
    <3> HIDE DEF ab
    <3> QED BY <3>1, Appended
  <2>2. 1 \in 1..Len(e) /\ Len(ab) + 1 = n + 2 /\ Len(ab) + Len(e) = n + 2
    BY <1>2, <1>5, <1>7
  <2> QED BY <2>1, <2>2, <1>7
<1>9. 1 \in 1..1 + n /\ \A k \in 1..n : 1 + k \in 1..1 + n /\ k + 1 = 1 + k
  BY <1>2
<1> QED BY <1>1, <1>2, <1>3, <1>5, <1>6, <1>7, <1>8, <1>9 DEF n

\* A message is of one of the four types.
LEMMA MessageTypes ==
  ASSUME NEW m \in Message
  PROVE  /\ m.batch \in Nat /\ m.type \in {"start", "chunk", "end", "delta"}
         /\ m.type = "start" => m.fingerprint \in Catalog \cup {None}
         /\ m.type = "chunk" => m.package \in Package
         /\ m.type = "delta" => m.base \in Catalog /\ m.fingerprint \in Catalog
BY DEF Message, StartMsg, ChunkMsg, EndMsg, DeltaMsg

-----------------------------------------------------------------------------
(* Queues.                                                                 *)

LEMMA LeftIn ==
  ASSUME NEW q, NEW i, NEW k \in DOMAIN q, q[k].type = "chunk", q[k].batch = i
  PROVE  q[k].package \in Left(q, i)
BY DEF Left

LEMMA LeftFrom ==
  ASSUME NEW q, NEW i, NEW p \in Left(q, i)
  PROVE  \E k \in DOMAIN q : q[k].type = "chunk" /\ q[k].batch = i /\ q[k].package = p
BY DEF Left

\* The rest of a queue.
LEMMA TailElements ==
  ASSUME NEW q \in Seq(Message), q # << >>
  PROVE  /\ Tail(q) \in Seq(Message) /\ Head(q) = q[1] /\ q[1] \in Message /\ 1 \in DOMAIN q
         /\ \A k \in DOMAIN Tail(q) : k \in Nat /\ k + 1 \in DOMAIN q /\ 1 < k + 1 /\ Tail(q)[k] = q[k + 1]
         /\ \A k \in DOMAIN q : k \in Nat /\ k >= 1 /\ (k # 1 => k - 1 \in DOMAIN Tail(q) /\ Tail(q)[k - 1] = q[k])
         /\ \A k \in DOMAIN Tail(q) : k # 1 => 1 \in DOMAIN Tail(q)
OBVIOUS

\* A start leaves the queue with its chunks behind it, a chunk takes its package along.
LEMMA TailLeft ==
  ASSUME NEW q \in Seq(Message), q # << >>, NEW T, QueueOK(q, T), NEW i
  PROVE  /\ ~ (q[1].type = "chunk" /\ q[1].batch = i) => Left(Tail(q), i) = Left(q, i)
         /\ q[1].type = "chunk" /\ q[1].batch = i /\ i \notin T
              => Left(Tail(q), i) = Left(q, i) \ {q[1].package} /\ q[1].package \in Left(q, i)
<1> DEFINE r == Tail(q)
<1>0. /\ 1 \in DOMAIN q
      /\ \A k \in DOMAIN r : k + 1 \in DOMAIN q /\ 1 < k + 1 /\ r[k] = q[k + 1]
      /\ \A k \in DOMAIN q : k # 1 => k - 1 \in DOMAIN r /\ r[k - 1] = q[k]
  BY TailElements
<1> HIDE DEF r
<1>1. ASSUME NEW p \in Left(r, i)
      PROVE  p \in Left(q, i) /\ (q[1].type = "chunk" /\ q[1].batch = i /\ i \notin T => p # q[1].package)
  <2>1. PICK k \in DOMAIN r : r[k].type = "chunk" /\ r[k].batch = i /\ r[k].package = p
    BY <1>1, LeftFrom
  <2>2. k + 1 \in DOMAIN q /\ 1 < k + 1 /\ q[k + 1] = r[k]
    BY <1>0
  <2>3. q[k + 1].package \in Left(q, i)
    BY <2>1, <2>2, LeftIn
  <2>4. ASSUME q[1].type = "chunk", q[1].batch = i, i \notin T PROVE p # q[1].package
    <3>1. PairOK(q, 1, k + 1)
      BY <1>0, <2>1, <2>2, <2>4 DEF QueueOK
    <3> QED BY <3>1, <2>1, <2>2, <2>4 DEF PairOK
  <2> QED BY <2>1, <2>2, <2>3, <2>4
<1>2. ASSUME NEW p \in Left(q, i), p \notin Left(r, i)
      PROVE  q[1].type = "chunk" /\ q[1].batch = i /\ p = q[1].package
  <2>1. PICK k \in DOMAIN q : q[k].type = "chunk" /\ q[k].batch = i /\ q[k].package = p
    BY <1>2, LeftFrom
  <2>2. CASE k = 1
    BY <2>1, <2>2
  <2>3. CASE k # 1
    <3>1. k - 1 \in DOMAIN r /\ r[k - 1] = q[k]
      BY <1>0, <2>3
    <3>2. r[k - 1].package \in Left(r, i)
      BY <3>1, <2>1, LeftIn
    <3> QED BY <3>1, <3>2, <2>1, <1>2
  <2> QED BY <2>2, <2>3
<1>3. ASSUME q[1].type = "chunk", q[1].batch = i PROVE q[1].package \in Left(q, i)
  BY <1>0, <1>3, LeftIn
<1> QED BY <1>1, <1>2, <1>3 DEF r

LEMMA TailOK ==
  ASSUME NEW q \in Seq(Message), q # << >>, NEW T, QueueOK(q, T)
  PROVE  QueueOK(Tail(q), T)
<1> DEFINE r == Tail(q)
<1>0. /\ 1 \in DOMAIN q
      /\ \A k \in DOMAIN r : k \in Nat /\ k + 1 \in DOMAIN q /\ 1 < k + 1 /\ r[k] = q[k + 1]
      /\ \A k \in DOMAIN q : k \in Nat /\ (k # 1 => k - 1 \in DOMAIN r /\ r[k - 1] = q[k])
      /\ \A k \in DOMAIN r : k # 1 => 1 \in DOMAIN r
  BY TailElements
<1>1. ASSUME NEW j \in DOMAIN r, NEW k \in DOMAIN r, j < k, r[j].batch = r[k].batch, r[j].batch \notin T
      PROVE  PairOK(r, j, k)
  <2>1. PairOK(q, j + 1, k + 1)
    BY <1>0, <1>1 DEF QueueOK
  <2>2. ASSUME NEW l \in DOMAIN r, j < l, l < k PROVE r[l].batch = r[j].batch
    <3>1. j + 1 < l + 1 /\ l + 1 < k + 1
      BY <1>0, <2>2
    <3> QED BY <1>0, <2>1, <3>1 DEF PairOK
  <2> QED BY <1>0, <2>1, <2>2 DEF PairOK
<1>2. ASSUME NEW k \in DOMAIN r, r[k].type = "start", r[k].batch \notin T
      PROVE  Left(r, r[k].batch) = r[k].fingerprint
  <2>1. Left(q, r[k].batch) = r[k].fingerprint
    BY <1>0, <1>2 DEF QueueOK
  <2>2. ~ (q[1].type = "chunk" /\ q[1].batch = r[k].batch)
    <3> SUFFICES ASSUME q[1].batch = r[k].batch PROVE FALSE
      OBVIOUS
    <3>1. PairOK(q, 1, k + 1)
      BY <1>0, <1>2 DEF QueueOK
    <3> QED BY <3>1, <1>0, <1>2 DEF PairOK
  <2> QED BY <2>1, <2>2, TailLeft
<1> HIDE DEF r
<1> QED BY <1>1, <1>2 DEF QueueOK, r

\* A batch or a delta with a number of its own at the end of a queue.
LEMMA AppendOK ==
  ASSUME NEW q \in Seq(Message), NEW r \in Seq(Message), NEW T, NEW i,
         QueueOK(q, T), QueueOK(r, T),
         \A k \in DOMAIN q : q[k].batch # i,
         \A k \in DOMAIN r : r[k].batch = i
  PROVE  /\ QueueOK(q \o r, T)
         /\ \A b : b # i => /\ Left(q \o r, b) = Left(q, b)
                            /\ Pending(q \o r, b) => Pending(q, b) /\ (q \o r)[1] = q[1]
<1> DEFINE w == q \o r  n == Len(q)
<1>1. /\ n \in Nat /\ DOMAIN q = 1..n /\ DOMAIN r = 1..Len(r) /\ Len(r) \in Nat
      /\ w \in Seq(Message) /\ DOMAIN w = 1..(n + Len(r))
      /\ \A k \in DOMAIN q : w[k] = q[k]
      /\ \A k \in DOMAIN r : w[n + k] = r[k]
  BY Appended
<1> HIDE DEF w, n
<1>2. /\ \A k \in DOMAIN w : k \notin DOMAIN q => k - n \in DOMAIN r /\ k = n + (k - n) /\ w[k] = r[k - n]
      /\ \A k \in DOMAIN q : k \in DOMAIN w /\ k \in Nat
      /\ \A k \in DOMAIN r : n + k \in DOMAIN w /\ k \in Nat
      /\ \A k \in DOMAIN w : k \in Nat
  <2>1. ASSUME NEW k \in DOMAIN w
        PROVE  k \notin DOMAIN q => k - n \in DOMAIN r /\ k = n + (k - n) /\ w[k] = r[k - n]
    <3>1. k \in Nat /\ (k \notin DOMAIN q => k - n \in DOMAIN r /\ n + (k - n) = k)
      BY <1>1
    <3>2. k \notin DOMAIN q => w[n + (k - n)] = r[k - n]
      BY <1>1, <3>1
    <3> QED BY <3>1, <3>2
  <2> QED BY <2>1, <1>1
<1>3. \A k \in DOMAIN w : w[k].batch = i <=> k \notin DOMAIN q
  BY <1>1, <1>2
<1>4. ASSUME NEW b, b # i
      PROVE  /\ Left(w, b) = Left(q, b)
             /\ Pending(w, b) => Pending(q, b) /\ w[1] = q[1]
  <2>1. \A k \in DOMAIN w : w[k].batch = b => k \in DOMAIN q /\ w[k] = q[k]
    BY <1>1, <1>3, <1>4
  <2>2. \A p : p \in Left(w, b) <=> p \in Left(q, b)
    <3>1. ASSUME NEW p \in Left(w, b) PROVE p \in Left(q, b)
      <4>1. PICK k \in DOMAIN w : w[k].type = "chunk" /\ w[k].batch = b /\ w[k].package = p
        BY <3>1, LeftFrom
      <4>2. q[k].package \in Left(q, b) /\ q[k] = w[k]
        BY <2>1, <4>1, LeftIn
      <4> QED BY <4>1, <4>2
    <3>2. ASSUME NEW p \in Left(q, b) PROVE p \in Left(w, b)
      <4>1. PICK k \in DOMAIN q : q[k].type = "chunk" /\ q[k].batch = b /\ q[k].package = p
        BY <3>2, LeftFrom
      <4>2. w[k].package \in Left(w, b) /\ w[k] = q[k]
        BY <1>1, <1>2, <4>1, LeftIn
      <4> QED BY <4>1, <4>2
    <3> QED BY <3>1, <3>2
  <2>3. Pending(w, b) => Pending(q, b) /\ w[1] = q[1]
    <3> SUFFICES ASSUME Pending(w, b) PROVE Pending(q, b) /\ w[1] = q[1]
      OBVIOUS
    <3>1. PICK k \in DOMAIN q : q[k].type \in {"chunk", "end"} /\ q[k].batch = b
      BY <2>1 DEF Pending
    <3>2. 1 \in DOMAIN q
      BY <1>1
    <3> QED BY <3>1, <3>2, <1>1 DEF Pending
  <2> QED BY <2>2, <2>3
<1>5. Left(w, i) = Left(r, i)
  <2>1. \A p : p \in Left(w, i) => p \in Left(r, i)
    <3> SUFFICES ASSUME NEW p, p \in Left(w, i) PROVE p \in Left(r, i)
      OBVIOUS
    <3>1. PICK k \in DOMAIN w : w[k].type = "chunk" /\ w[k].batch = i /\ w[k].package = p
      BY LeftFrom
    <3>2. k - n \in DOMAIN r /\ w[k] = r[k - n]
      BY <1>2, <1>3, <3>1
    <3>3. r[k - n].package \in Left(r, i)
      BY <3>1, <3>2, LeftIn
    <3> QED BY <3>1, <3>2, <3>3
  <2>2. \A p : p \in Left(r, i) => p \in Left(w, i)
    <3> SUFFICES ASSUME NEW p, p \in Left(r, i) PROVE p \in Left(w, i)
      OBVIOUS
    <3>1. PICK k \in DOMAIN r : r[k].type = "chunk" /\ r[k].batch = i /\ r[k].package = p
      BY LeftFrom
    <3>2. n + k \in DOMAIN w /\ w[n + k] = r[k]
      BY <1>1, <1>2
    <3>3. w[n + k].package \in Left(w, i)
      BY <3>1, <3>2, LeftIn
    <3> QED BY <3>1, <3>2, <3>3
  <2> QED BY <2>1, <2>2
<1>7. ASSUME NEW j \in DOMAIN w, NEW k \in DOMAIN w, j < k, w[j].batch = w[k].batch, w[j].batch \notin T
      PROVE  PairOK(w, j, k)
  <2>1. CASE j \in DOMAIN q
    <3>1. k \in DOMAIN q
      BY <1>3, <1>7, <2>1
    <3>2. PairOK(q, j, k)
      BY <1>1, <1>7, <2>1, <3>1 DEF QueueOK
    <3>3. \A l \in DOMAIN w : j < l /\ l < k => l \in DOMAIN q
      BY <1>1, <2>1, <3>1
    <3> QED BY <1>1, <2>1, <3>1, <3>2, <3>3 DEF PairOK
  <2>2. CASE j \notin DOMAIN q
    <3>1. k \notin DOMAIN q
      BY <1>3, <1>7, <2>2
    <3>2. j - n \in DOMAIN r /\ k - n \in DOMAIN r /\ w[j] = r[j - n] /\ w[k] = r[k - n]
      BY <1>2, <2>2, <3>1
    <3>3. j - n < k - n
      BY <1>1, <1>2, <1>7
    <3>4. PairOK(r, j - n, k - n)
      BY <1>7, <3>2, <3>3 DEF QueueOK
    <3>5. \A l \in DOMAIN w : j < l => l \notin DOMAIN q
      BY <1>1, <1>2, <2>2
    <3>6. \A l \in DOMAIN w : j < l /\ l < k => w[l].batch = w[j].batch
      BY <1>3, <2>2, <3>5
    <3> QED BY <3>2, <3>4, <3>6 DEF PairOK
  <2> QED BY <2>1, <2>2
<1>8. ASSUME NEW k \in DOMAIN w, w[k].type = "start", w[k].batch \notin T
      PROVE  Left(w, w[k].batch) = w[k].fingerprint
  <2>1. CASE k \in DOMAIN q
    BY <1>1, <1>3, <1>4, <1>8, <2>1 DEF QueueOK
  <2>2. CASE k \notin DOMAIN q
    <3>1. k - n \in DOMAIN r /\ w[k] = r[k - n] /\ w[k].batch = i
      BY <1>2, <1>3, <2>2
    <3> QED BY <3>1, <1>5, <1>8 DEF QueueOK
  <2> QED BY <2>1, <2>2
<1>9. QueueOK(w, T)
  BY <1>7, <1>8 DEF QueueOK
<1> QED BY <1>4, <1>9 DEF w

\* A batch as it is sent.
LEMMA BatchOK ==
  ASSUME NEW i \in Nat, NEW c \in Catalog, NEW f \in Catalog \cup {None}, NEW T,
         f = c \/ i \in T
  PROVE  /\ Batch(i, c, f) \in Seq(Message)
         /\ QueueOK(Batch(i, c, f), T)
         /\ \A k \in DOMAIN Batch(i, c, f) :
              /\ Batch(i, c, f)[k].batch = i
              /\ Batch(i, c, f)[k].type = "start" => Batch(i, c, f)[k].fingerprint = f
<1> DEFINE q == Batch(i, c, f)  n == Cardinality(c)
<1>1. /\ q \in Seq(Message) /\ n \in Nat /\ DOMAIN q = 1..n + 2
      /\ q[1] = [type |-> "start", batch |-> i, fingerprint |-> f]
      /\ \A k \in 1..n : q[k + 1] = [type |-> "chunk", batch |-> i, package |-> SetToSeq(c)[k]]
      /\ q[n + 2] = [type |-> "end", batch |-> i]
  <2>1. q \in Seq(Message) /\ Len(q) = n + 2 /\ n \in Nat
    BY BatchMessages
  <2>2. DOMAIN q = 1..n + 2
    BY <2>1
  <2> QED BY <2>1, <2>2, BatchMessages
<1>2. /\ \A j, k \in 1..n : j # k => SetToSeq(c)[j] # SetToSeq(c)[k]
      /\ \A k \in 1..n : SetToSeq(c)[k] \in c
      /\ \A p \in c : \E k \in 1..n : SetToSeq(c)[k] = p
  BY CatalogFinite, Listing
<1> HIDE DEF q, n
<1>3. \A k \in DOMAIN q : k \in Nat /\ (k = 1 \/ k = n + 2 \/ (k - 1 \in 1..n /\ k = (k - 1) + 1))
  BY <1>1
<1>4. ASSUME NEW k \in DOMAIN q
      PROVE  /\ q[k].batch = i
             /\ q[k].type = "start" <=> k = 1
             /\ q[k].type = "end" <=> k = n + 2
             /\ q[k].type \in {"start", "chunk", "end"}
             /\ q[k].type = "chunk" => k - 1 \in 1..n /\ q[k].package = SetToSeq(c)[k - 1]
  <2>1. CASE k = 1
    BY <1>1, <2>1
  <2>2. CASE k = n + 2
    BY <1>1, <2>2
  <2>3. CASE k - 1 \in 1..n /\ k = (k - 1) + 1
    <3>1. q[k] = [type |-> "chunk", batch |-> i, package |-> SetToSeq(c)[k - 1]]
      BY <1>1, <2>3
    <3>2. k # 1 /\ k # n + 2
      BY <1>1, <2>3
    <3> QED BY <2>3, <3>1, <3>2
  <2> QED BY <1>3, <2>1, <2>2, <2>3
<1>6. ASSUME NEW j \in DOMAIN q, NEW k \in DOMAIN q, j < k PROVE PairOK(q, j, k)
  <2>1. q[k].type \in {"chunk", "end"} /\ q[j].type \in {"start", "chunk"}
    <3>1. k # 1 /\ j # n + 2
      BY <1>1, <1>6
    <3> QED BY <3>1, <1>4
  <2>2. ASSUME q[j].type = "chunk", q[k].type = "chunk" PROVE q[j].package # q[k].package
    <3>1. j - 1 # k - 1
      BY <1>1, <1>6
    <3> QED BY <3>1, <2>2, <1>2, <1>4
  <2> QED BY <2>1, <2>2, <1>4 DEF PairOK
<1>7. Left(q, i) = c
  <2>1. \A p : p \in Left(q, i) => p \in c
    <3> SUFFICES ASSUME NEW p \in Left(q, i) PROVE p \in c
      OBVIOUS
    <3>1. PICK k \in DOMAIN q : q[k].type = "chunk" /\ q[k].batch = i /\ q[k].package = p
      BY LeftFrom
    <3> QED BY <3>1, <1>2, <1>4
  <2>2. ASSUME NEW p, p \in c PROVE p \in Left(q, i)
    <3>1. PICK k \in 1..n : SetToSeq(c)[k] = p
      BY <1>2, <2>2
    <3>2. q[k + 1] = [type |-> "chunk", batch |-> i, package |-> p]
      BY <1>1, <3>1
    <3>3. k + 1 \in DOMAIN q
      BY <1>1
    <3>4. q[k + 1].package \in Left(q, i)
      BY <3>2, <3>3, LeftIn
    <3> QED BY <3>2, <3>4
  <2> QED BY <2>1, <2>2
<1>8. QueueOK(q, T)
  BY <1>1, <1>4, <1>6, <1>7 DEF QueueOK
<1>9. \A k \in DOMAIN q : q[k].type = "start" => q[k].fingerprint = f
  BY <1>1, <1>4
<1> QED BY <1>1, <1>4, <1>8, <1>9 DEF q

\* A delta as it is sent.
LEMMA DeltaOK ==
  ASSUME NEW i \in Nat, NEW base \in Catalog, NEW c \in Catalog, NEW T
  PROVE  /\ Delta(i, base, c) \in Seq(Message)
         /\ QueueOK(Delta(i, base, c), T)
         /\ \A k \in DOMAIN Delta(i, base, c) :
              Delta(i, base, c)[k].batch = i /\ Delta(i, base, c)[k].type = "delta"
<1> DEFINE m == [type |-> "delta", batch |-> i, base |-> base, fingerprint |-> c]
<1>1. m \in Message /\ m.batch = i /\ m.type = "delta"
  BY DEF Message, DeltaMsg
<1> HIDE DEF m
<1>2. <<m>> \in Seq(Message) /\ \A k \in DOMAIN <<m>> : k = 1 /\ <<m>>[k] = m
  BY <1>1
<1>3. QueueOK(<<m>>, T)
  BY <1>1, <1>2 DEF QueueOK
<1> QED BY <1>1, <1>2, <1>3 DEF Delta, m

\* Faults only weaken what is asked of a queue ...
LEMMA MoreTainted ==
  ASSUME NEW q, NEW T, NEW U, T \subseteq U, QueueOK(q, T)
  PROVE  QueueOK(q, U)
BY DEF QueueOK

\* ... and nothing is asked when they have touched every batch in it.
LEMMA AllTainted ==
  ASSUME NEW q \in Seq(Message), NEW k \in 2..Len(q), NEW T,
         {q[j].batch : j \in DOMAIN q} \subseteq T
  PROVE  /\ RemoveAt(q, k) \in Seq(Message)
         /\ \A j \in DOMAIN RemoveAt(q, k) : \E l \in DOMAIN q : RemoveAt(q, k)[j] = q[l]
         /\ QueueOK(RemoveAt(q, k), T)
<1> DEFINE r == RemoveAt(q, k)
<1>1. /\ r \in Seq(Message)
      /\ \A j \in DOMAIN r : \E l \in DOMAIN q : r[j] = q[l]
  <2> DEFINE u == SubSeq(q, 1, k - 1)  v == SubSeq(q, k + 1, Len(q))
  <2>1. /\ u \in Seq(Message) /\ v \in Seq(Message)
        /\ \A j \in DOMAIN u : \E l \in DOMAIN q : u[j] = q[l]
        /\ \A j \in DOMAIN v : \E l \in DOMAIN q : v[j] = q[l]
    <3>1. u \in Seq(Message) /\ \A j \in DOMAIN u : j \in DOMAIN q /\ u[j] = q[j]
      OBVIOUS
    <3>2. v \in Seq(Message) /\ \A j \in DOMAIN v : k + j \in DOMAIN q /\ v[j] = q[k + j]
      OBVIOUS
    <3> QED BY <3>1, <3>2
  <2>2. r = u \o v
    BY DEF RemoveAt
  <2> HIDE DEF u, v, r
  <2>3. /\ u \o v \in Seq(Message) /\ Len(u) \in Nat /\ Len(v) \in Nat
        /\ DOMAIN (u \o v) = 1..(Len(u) + Len(v)) /\ DOMAIN u = 1..Len(u) /\ DOMAIN v = 1..Len(v)
        /\ \A j \in 1..Len(u) : (u \o v)[j] = u[j]
        /\ \A j \in 1..Len(v) : (u \o v)[Len(u) + j] = v[j]
    BY <2>1, Appended
  <2>4. ASSUME NEW j \in DOMAIN (u \o v) PROVE \E l \in DOMAIN q : (u \o v)[j] = q[l]
    <3>1. CASE j \in DOMAIN u
      BY <3>1, <2>1, <2>3
    <3>2. CASE j \notin DOMAIN u
      <4>1. j - Len(u) \in DOMAIN v /\ Len(u) + (j - Len(u)) = j
        BY <2>3, <3>2
      <4>2. (u \o v)[Len(u) + (j - Len(u))] = v[j - Len(u)]
        BY <2>3, <4>1
      <4> QED BY <2>1, <4>1, <4>2
    <3> QED BY <3>1, <3>2
  <2> QED BY <2>2, <2>3, <2>4
<1> HIDE DEF r
<1>2. \A j \in DOMAIN r : r[j].batch \in T
  BY <1>1
<1>3. QueueOK(r, T)
  BY <1>2 DEF QueueOK
<1> QED BY <1>1, <1>2, <1>3 DEF r

-----------------------------------------------------------------------------
(* The handlers.                                                           *)

\* The rows of a catalog, each package once.
Once(c) == [p \in Package |-> IF p \in c THEN 1 ELSE 0]

LEMMA FaithfulOnce ==
  ASSUME Types, NEW h \in Host
  PROVE  Faithful(h) <=> recorded[h] # None /\ rows[h] = Once(recorded[h])
BY DEF Faithful, Once, Types, TypeOK

\* The packages of a delta from base to c that take over a row of q, and its effect on rows.
TurnedInto(base, c, old, q) == {p \in c \ base : old[p] = q}

After(r, base, c, old) ==
  WithPuts(WithoutTakes(r, {Name(p) : p \in base} \ {Name(p) : p \in c}), c \ base, old)

\* A delta turns at most one row into a given package, and one of the same name.
LEMMA Turned ==
  ASSUME NEW r \in [Package -> Nat], NEW h \in Host, rows[h] = r,
         NEW base \in Catalog, NEW c \in Catalog,
         NEW old \in [c \ base -> Package \cup {None}],
         \A p \in c \ base : old[p] \in Updated(h, p),
         NEW q \in Package
  PROVE  \/ TurnedInto(base, c, old, q) = {} /\ Cardinality(TurnedInto(base, c, old, q)) = 0
         \/ /\ Cardinality(TurnedInto(base, c, old, q)) = 1
            /\ r[q] > 0
            /\ \E p \in c \ base : old[p] = q /\ Name(p) = Name(q)
<1> DEFINE turned == TurnedInto(base, c, old, q)
<1> USE DEF TurnedInto
<1>1. CASE turned = {}
  BY <1>1, FS_EmptySet
<1>2. CASE turned # {}
  <2>1. \A p \in turned : p \in c /\ Name(p) = Name(q) /\ r[q] > 0
    BY CatalogAssumption DEF Updated, Versions
  <2>2. PICK p \in turned : TRUE
    BY <1>2
  <2>3. turned = {p}
    BY <2>1, <2>2 DEF Catalog
  <2> QED BY <2>1, <2>2, <2>3, FS_Singleton
<1> QED BY <1>1, <1>2

\* What a delta makes of the rows: it never takes away a row that is not there, and
\* makes the rows of the one catalog those of the other.
LEMMA DeltaRows ==
  ASSUME NEW r \in [Package -> Nat], NEW h \in Host, rows[h] = r,
         NEW base \in Catalog, NEW c \in Catalog,
         NEW old \in [c \ base -> Package \cup {None}],
         \A p \in c \ base : old[p] \in Updated(h, p)
  PROVE  /\ After(r, base, c, old) \in [Package -> Nat]
         /\ r = Once(base) => After(r, base, c, old) = Once(c)
<1> DEFINE takes == {Name(p) : p \in base} \ {Name(p) : p \in c}
           puts == c \ base
           after == WithPuts(WithoutTakes(r, takes), puts, old)
           turned(q) == TurnedInto(base, c, old, q)
<1>1. base \subseteq Package /\ c \subseteq Package
  BY CatalogFinite
<1>2. ASSUME NEW q \in Package
      PROVE  /\ after[q] = (IF Name(q) \in takes THEN 0 ELSE r[q])
                             + (IF q \in puts THEN 1 ELSE 0) - Cardinality(turned(q))
             /\ \/ turned(q) = {} /\ Cardinality(turned(q)) = 0
                \/ /\ Cardinality(turned(q)) = 1 /\ r[q] > 0
                   /\ \E p \in puts : old[p] = q /\ Name(p) = Name(q)
  <2>1. WithoutTakes(r, takes)[q] = IF Name(q) \in takes THEN 0 ELSE r[q]
    BY <1>2 DEF WithoutTakes
  <2>2. after[q] = WithoutTakes(r, takes)[q] + (IF q \in puts THEN 1 ELSE 0) - Cardinality(turned(q))
    BY <1>2 DEF WithPuts, TurnedInto
  <2>3. \/ turned(q) = {} /\ Cardinality(turned(q)) = 0
        \/ /\ Cardinality(turned(q)) = 1 /\ r[q] > 0
           /\ \E p \in puts : old[p] = q /\ Name(p) = Name(q)
    BY <1>2, Turned
  <2> HIDE DEF takes, puts, after, turned
  <2> QED BY <2>1, <2>2, <2>3
<1>3. ASSUME NEW q \in Package PROVE after[q] \in Nat
  <2>0. r[q] \in Nat
    BY <1>3
  <2>1. CASE Cardinality(turned(q)) = 0
    <3> HIDE DEF takes, puts, after, turned
    <3> QED BY <1>2, <1>3, <2>0, <2>1
  <2>2. CASE Cardinality(turned(q)) = 1 /\ r[q] > 0 /\ \E p \in puts : Name(p) = Name(q)
    <3>1. Name(q) \notin takes
      BY <2>2
    <3> HIDE DEF takes, puts, after, turned
    <3> QED BY <1>2, <1>3, <2>0, <2>2, <3>1
  <2> QED BY <1>2, <1>3, <2>1, <2>2
<1>4. after \in [Package -> Nat]
  <2>1. after = [q \in Package |-> after[q]]
    BY DEF WithPuts
  <2> HIDE DEF after
  <2> QED BY <1>3, <2>1
<1>5. ASSUME r = Once(base), NEW q \in Package PROVE after[q] = IF q \in c THEN 1 ELSE 0
  <2>1. r[q] = IF q \in base THEN 1 ELSE 0
    BY <1>5 DEF Once
  <2>2. CASE q \in base /\ q \in c
    <3>1. Name(q) \notin takes /\ q \notin puts
      BY <2>2
    <3>2. \A p \in puts : Name(p) # Name(q)
      BY <2>2 DEF Catalog
    <3> HIDE DEF takes, puts, after, turned
    <3> QED BY <1>2, <2>1, <2>2, <3>1, <3>2
  <2>3. CASE q \in base /\ q \notin c
    <3>1. q \notin puts
      BY <2>3
    <3>2. CASE Name(q) \in takes
      <4>1. \A p \in puts : Name(p) # Name(q)
        BY <3>2
      <4> HIDE DEF takes, puts, after, turned
      <4> QED BY <1>2, <2>3, <3>1, <3>2, <4>1
    <3>3. CASE Name(q) \notin takes
      <4>1. PICK p \in c : Name(p) = Name(q)
        BY <2>3, <3>3
      <4>2. p \in puts
        BY <2>3, <4>1 DEF Catalog
      <4>3. \A v \in Package : v \in Versions(h, Name(p)) <=> v = q
        <5>1. \A v \in Package : rows[h][v] > 0 <=> v \in base
          BY <1>5 DEF Once
        <5>2. \A v \in base : Name(v) = Name(q) => v = q
          BY <2>3 DEF Catalog
        <5> QED BY <1>1, <2>3, <4>1, <5>1, <5>2 DEF Versions
      <4>4. Updated(h, p) = {q}
        BY <4>3 DEF Updated, Versions
      <4>5. turned(q) # {}
        BY <4>2, <4>4 DEF TurnedInto
      <4>6. Cardinality(turned(q)) = 1
        BY <1>2, <4>5
      <4> HIDE DEF takes, puts, after, turned
      <4> QED BY <1>2, <2>1, <2>3, <3>1, <3>3, <4>6
    <3> QED BY <3>2, <3>3
  <2>4. CASE q \notin base
    <3>1. q \in puts <=> q \in c
      BY <2>4
    <3>2. Cardinality(turned(q)) = 0
      <4> HIDE DEF takes, puts, after, turned
      <4> QED BY <1>2, <1>5, <2>1, <2>4
    <3>3. (IF Name(q) \in takes THEN 0 ELSE r[q]) = 0
      BY <2>1, <2>4
    <3> HIDE DEF takes, puts, after, turned
    <3> QED BY <1>2, <3>1, <3>2, <3>3
  <2> QED BY <2>2, <2>3, <2>4
<1>6. r = Once(base) => after = Once(c)
  <2>1. after = [q \in Package |-> after[q]]
    BY DEF WithPuts
  <2> HIDE DEF after
  <2> QED BY <1>5, <2>1 DEF Once
<1> QED BY <1>4, <1>6 DEF After

LEMMA DeltaOnce ==
  ASSUME NEW h \in Host, NEW base \in Catalog, rows[h] = Once(base), NEW c \in Catalog,
         NEW old \in [c \ base -> Package \cup {None}],
         \A p \in c \ base : old[p] \in Updated(h, p)
  PROVE  After(Once(base), base, c, old) = Once(c)
<1> DEFINE r == Once(base)
<1>1. r \in [Package -> Nat] /\ rows[h] = r
  BY DEF Once
<1> HIDE DEF r
<1>2. r = Once(base) => After(r, base, c, old) = Once(c)
  BY <1>1, DeltaRows
<1> QED BY <1>2 DEF r

\* The state of a handler: what it leaves alone, and the types of what it changes.
LEMMA ApplyTypes ==
  ASSUME Types, NEW h \in Host, NEW m \in Message, m.batch \in 1..sent, Apply(h, m)
  PROVE  /\ rows' \in [Host -> [Package -> Nat]]
         /\ recorded' \in [Host -> Catalog \cup {None}]
         /\ whole' \subseteq Host
         /\ \A s \in sessions' :
              s.batch \in 1..sent /\ s.host \in Host /\ s.fingerprint \in Catalog \cup {None}
         /\ \A k \in Host \ {h} : rows'[k] = rows[k] /\ recorded'[k] = recorded[k]
         /\ whole' \ {h} = whole \ {h}
<1> USE DEF Types, TypeOK
<1>1. CASE BatchStart(h, m)
  BY <1>1, MessageTypes DEF BatchStart, Cleared
<1>2. CASE BatchChunk(h, m)
  BY <1>2, MessageTypes DEF BatchChunk
<1>3. CASE BatchEnd(h, m)
  <2>1. PICK s \in sessions :
          /\ recorded' = [recorded EXCEPT ![h] = IF s.fingerprint = None THEN @ ELSE s.fingerprint]
          /\ sessions' = sessions \ {s}
          /\ whole' \in {whole \ {h}, whole \cup {h}}
    BY <1>3 DEF BatchEnd
  <2> QED BY <1>3, <2>1 DEF BatchEnd
<1>4. CASE ApplyDelta(h, m)
  <2>1. m.base \in Catalog /\ m.fingerprint \in Catalog
    BY <1>4, MessageTypes DEF ApplyDelta
  <2>2. PICK old \in [m.fingerprint \ m.base -> Package \cup {None}] :
          /\ \A p \in m.fingerprint \ m.base : old[p] \in Updated(h, p)
          /\ rows' = [rows EXCEPT ![h] = After(@, m.base, m.fingerprint, old)]
    BY <1>4 DEF ApplyDelta, After
  <2>3. rows' \in [Host -> [Package -> Nat]] /\ \A k \in Host \ {h} : rows'[k] = rows[k]
    <3>1. rows[h] \in [Package -> Nat]
      OBVIOUS
    <3>2. After(rows[h], m.base, m.fingerprint, old) \in [Package -> Nat]
      BY <2>1, <2>2, <3>1, DeltaRows
    <3> QED BY <2>2, <3>2
  <2> QED BY <1>4, <2>1, <2>3 DEF ApplyDelta
<1>5. CASE Refuse(h, m)
  BY <1>5 DEF Refuse, serverVars
<1> QED BY <1>1, <1>2, <1>3, <1>4, <1>5 DEF Apply

\* A delta that applies to a true fingerprint leaves a true one.
LEMMA DeltaFaithful ==
  ASSUME Types, NEW h \in Host, NEW m \in Message, ApplyDelta(h, m), Faithful(h)
  PROVE  rows'[h] = Once(recorded'[h]) /\ recorded'[h] # None
<1>1. m.base \in Catalog /\ m.fingerprint \in Catalog
  BY MessageTypes DEF ApplyDelta
<1>2. PICK old \in [m.fingerprint \ m.base -> Package \cup {None}] :
        /\ \A p \in m.fingerprint \ m.base : old[p] \in Updated(h, p)
        /\ rows' = [rows EXCEPT ![h] = After(@, m.base, m.fingerprint, old)]
  BY DEF ApplyDelta, After
<1>3. rows[h] = Once(m.base) /\ rows[h] \in [Package -> Nat]
  BY FaithfulOnce DEF ApplyDelta, Applicable, Types, TypeOK
<1>4. After(Once(m.base), m.base, m.fingerprint, old) = Once(m.fingerprint)
  BY <1>1, <1>2, <1>3, DeltaOnce
<1>5. rows'[h] = Once(m.fingerprint)
  BY <1>2, <1>3, <1>4 DEF Types, TypeOK
<1>6. recorded'[h] = m.fingerprint
  BY DEF ApplyDelta, Types, TypeOK
<1> QED BY <1>1, <1>5, <1>6, CatalogAssumption

\* Only a message of an open batch makes a true fingerprint false.
LEMMA ApplyFaithful ==
  ASSUME Types, Types', NEW h \in Host, NEW m \in Message, m.batch \in 1..sent, Apply(h, m),
         NEW k \in Host, Faithful(k)
  PROVE  \/ Faithful(k)'
         \/ k = h /\ (BatchStart(h, m) \/ BatchChunk(h, m) \/ BatchEnd(h, m))
<1>1. Faithful(k)' <=> recorded'[k] # None /\ rows'[k] = Once(recorded'[k])
  BY DEF Faithful, Once, Types, TypeOK
<1>2. recorded[k] # None /\ rows[k] = Once(recorded[k])
  BY FaithfulOnce
<1>3. CASE k # h
  BY <1>1, <1>2, <1>3, ApplyTypes
<1>4. CASE k = h /\ ApplyDelta(h, m)
  BY <1>1, <1>4, DeltaFaithful
<1>5. CASE k = h /\ Refuse(h, m)
  BY <1>1, <1>2, <1>5 DEF Refuse, serverVars
<1> QED BY <1>3, <1>4, <1>5 DEF Apply

-----------------------------------------------------------------------------
(* Open batches.                                                           *)

\* A message that a queue has yet for an open batch comes right behind its head.
LEMMA HeadOfBatch ==
  ASSUME NEW q \in Seq(Message), q # << >>, NEW T, QueueOK(q, T), NEW i,
         i \notin T, q[1].batch = i, Pending(Tail(q), i)
  PROVE  /\ q[1].type \in {"start", "chunk"}
         /\ Tail(q)[1].batch = i
<1> DEFINE r == Tail(q)
<1>0. /\ 1 \in DOMAIN q
      /\ \A k \in DOMAIN r : k \in Nat /\ k + 1 \in DOMAIN q /\ 1 < k + 1 /\ r[k] = q[k + 1]
      /\ \A k \in DOMAIN r : k # 1 => 1 \in DOMAIN r
  BY TailElements
<1> HIDE DEF r
<1>1. PICK k \in DOMAIN r : r[k].type \in {"chunk", "end"} /\ r[k].batch = i
  BY DEF Pending, r
<1>2. PairOK(q, 1, k + 1)
  BY <1>0, <1>1 DEF QueueOK
<1>3. r[1].batch = i
  <2>1. CASE k = 1
    BY <1>1, <2>1
  <2>2. CASE k # 1
    <3>1. 1 \in DOMAIN r /\ 1 + 1 \in DOMAIN q /\ 1 < 1 + 1 /\ r[1] = q[1 + 1]
      BY <1>0, <2>2
    <3>2. 1 + 1 < k + 1
      <4>1. k \in Nat /\ 1 < k + 1
        BY <1>0
      <4> QED BY <2>2, <4>1
    <3>3. q[1 + 1].batch = q[1].batch
      BY <1>2, <3>1, <3>2 DEF PairOK
    <3> QED BY <3>1, <3>3
  <2> QED BY <2>1, <2>2
<1> QED BY <1>2, <1>3 DEF PairOK, r

LEMMA PendingTail ==
  ASSUME NEW q \in Seq(Message), q # << >>, NEW i, Pending(Tail(q), i)
  PROVE  Pending(q, i)
<1>1. PICK k \in DOMAIN Tail(q) : Tail(q)[k].type \in {"chunk", "end"} /\ Tail(q)[k].batch = i
  BY DEF Pending
<1>2. k + 1 \in DOMAIN q /\ Tail(q)[k] = q[k + 1]
  BY TailElements
<1> QED BY <1>1, <1>2 DEF Pending

\* A batch that starts has all its packages left and no row.
LEMMA StartOpens ==
  ASSUME NEW q \in Seq(Message), q # << >>, NEW T, QueueOK(q, T), q[1].type = "start",
         NEW s, s.batch = q[1].batch, s.fingerprint = q[1].fingerprint,
         NEW r, \A p \in Package : r[p] = 0
  PROVE  OpenOK(q, r, T, s) /\ OpenOK(Tail(q), r, T, s)
<1> SUFFICES ASSUME s.batch \notin T PROVE OpenOK(q, r, T, s) /\ OpenOK(Tail(q), r, T, s)
  BY DEF OpenOK
<1>1. Left(q, s.batch) = s.fingerprint
  BY TailElements DEF QueueOK
<1>2. Left(Tail(q), s.batch) = s.fingerprint
  BY <1>1, TailLeft
<1>3. Pending(Tail(q), s.batch) => Tail(q)[1].batch = s.batch
  BY HeadOfBatch
<1> QED BY <1>1, <1>2, <1>3 DEF OpenOK

\* What becomes of an open batch when the head of its queue is gone: a chunk of its has
\* added its package, or nothing of it has happened.
LEMMA HeadGone ==
  ASSUME NEW q \in Seq(Message), q # << >>, NEW T, QueueOK(q, T), NEW s, NEW r \in [Package -> Nat],
         OpenOK(q, r, T, s), s.batch \notin T, Pending(Tail(q), s.batch)
  PROVE  /\ q[1].batch = s.batch /\ q[1].type \in {"start", "chunk"}
         /\ q[1].type = "start" => OpenOK(Tail(q), r, T, s)
         /\ q[1].type = "chunk" => OpenOK(Tail(q), [r EXCEPT ![q[1].package] = @ + 1], T, s)
<1> DEFINE left == Left(q, s.batch)  rest == Left(Tail(q), s.batch)
<1>1. /\ q[1].batch = s.batch /\ left \subseteq s.fingerprint
      /\ \A p \in Package : r[p] = IF p \in s.fingerprint \ left THEN 1 ELSE 0
  BY PendingTail DEF OpenOK
<1>2. q[1].type \in {"start", "chunk"} /\ Tail(q)[1].batch = s.batch
  BY <1>1, HeadOfBatch
<1>3. ASSUME q[1].type = "start" PROVE OpenOK(Tail(q), r, T, s)
  <2>1. rest = left
    BY <1>3, TailLeft
  <2> QED BY <1>1, <1>2, <2>1 DEF OpenOK
<1>4. ASSUME q[1].type = "chunk" PROVE OpenOK(Tail(q), [r EXCEPT ![q[1].package] = @ + 1], T, s)
  <2>1. rest = left \ {q[1].package} /\ q[1].package \in left
    BY <1>1, <1>4, TailLeft
  <2>2. q[1].package \in Package
    BY <1>4, TailElements, MessageTypes
  <2> DEFINE u == [r EXCEPT ![q[1].package] = @ + 1]
  <2>3. \A p \in Package : u[p] = IF p \in s.fingerprint \ rest THEN 1 ELSE 0
    <3> SUFFICES ASSUME NEW p \in Package PROVE u[p] = IF p \in s.fingerprint \ rest THEN 1 ELSE 0
      OBVIOUS
    <3>1. CASE p = q[1].package
      <4>1. u[p] = r[p] + 1 /\ r[p] = 0 /\ p \in s.fingerprint \ rest
        BY <1>1, <2>1, <2>2, <3>1
      <4> QED BY <4>1
    <3>2. CASE p # q[1].package
      <4>1. u[p] = r[p]
        BY <3>2
      <4> QED BY <1>1, <2>1, <3>2, <4>1
    <3> QED BY <3>1, <3>2
  <2> QED BY <1>1, <1>2, <2>1, <2>3 DEF OpenOK
<1> QED BY <1>1, <1>2, <1>3, <1>4

\* The end of a batch finds no chunk of it left.
LEMMA EndIsLast ==
  ASSUME NEW q \in Seq(Message), q # << >>, NEW T, QueueOK(q, T), NEW r, NEW s,
         OpenOK(q, r, T, s), s.batch \notin T, q[1].type = "end", q[1].batch = s.batch
  PROVE  \A p \in Package : r[p] = IF p \in s.fingerprint THEN 1 ELSE 0
<1>1. 1 \in DOMAIN q /\ \A k \in DOMAIN q : k \in Nat /\ k >= 1
  BY TailElements
<1>2. \A p : p \notin Left(q, s.batch)
  <2> SUFFICES ASSUME NEW p, p \in Left(q, s.batch) PROVE FALSE
    OBVIOUS
  <2>1. PICK k \in DOMAIN q : q[k].type = "chunk" /\ q[k].batch = s.batch
    BY LeftFrom
  <2>2. 1 < k
    <3>1. k # 1
      BY <2>1
    <3> QED BY <1>1, <3>1
  <2>3. PairOK(q, 1, k)
    BY <1>1, <2>1, <2>2 DEF QueueOK
  <2> QED BY <2>3 DEF PairOK
<1>3. Pending(q, s.batch)
  BY <1>1 DEF Pending
<1> QED BY <1>2, <1>3 DEF OpenOK

LEMMA OpenMoreTainted ==
  ASSUME NEW q, NEW r, NEW T, NEW U, T \subseteq U, NEW s, OpenOK(q, r, T, s)
  PROVE  OpenOK(q, r, U, s)
BY DEF OpenOK

\* The sessions of the other hosts, and those a handler opens.
LEMMA ApplySessions ==
  ASSUME Types, NEW h \in Host, NEW m \in Message, Apply(h, m), NEW s \in sessions'
  PROVE  \/ s \in sessions /\ ~ (m.type = "start" /\ s.batch = m.batch)
         \/ /\ m.type = "start" /\ s.batch = m.batch /\ s.fingerprint = m.fingerprint
            /\ s.host = h /\ \A p \in Package : rows'[h][p] = 0
BY DEF Apply, BatchStart, BatchChunk, BatchEnd, ApplyDelta, Refuse, serverVars, Cleared, Types, TypeOK

\* What a handler does to the rows while the batch of a message is open.
LEMMA ApplyRows ==
  ASSUME Types, NEW h \in Host, NEW m \in Message, Apply(h, m),
         NEW s \in sessions, s.batch = m.batch, s.host = h, m.type \in {"chunk", "end"}
  PROVE  /\ m.type = "chunk" => rows'[h] = [rows[h] EXCEPT ![m.package] = @ + 1]
         /\ m.type = "end" => rows' = rows
<1>1. Open(h, m.batch)
  BY DEF Open
<1> QED
  BY <1>1 DEF Apply, BatchStart, BatchChunk, BatchEnd, ApplyDelta, Refuse, serverVars, Types, TypeOK

\* The head of a queue is handled and leaves the queue.
LEMMA HandleSessions ==
  ASSUME IInv, NEW h \in Host, Handle(h), NEW s \in sessions'
  PROVE  SessionOK(s)'
<1> DEFINE q == queue[h]  m == q[1]
<1>1. /\ q \in Seq(Message) /\ q # << >> /\ QueueOK(q, tainted) /\ m \in Message /\ Head(q) = m
      /\ Types /\ Apply(h, m) /\ tainted' = tainted
      /\ queue' = [queue EXCEPT ![h] = Tail(@)] /\ m.batch \in 1..sent
  BY TailElements DEF IInv, Types, TypeOK, Handle
<1>2. /\ \A k \in Host \ {h} : rows'[k] = rows[k] /\ queue'[k] = queue[k]
      /\ queue'[h] = Tail(q) /\ rows[h] \in [Package -> Nat]
  BY <1>1, ApplyTypes DEF Types, TypeOK
<1> HIDE DEF m
<1> SUFFICES OpenOK(queue'[s.host], rows'[s.host], tainted', s)
  BY DEF SessionOK
<1>3. CASE s.host = h /\ m.type = "start" /\ s.batch = m.batch /\ s.fingerprint = m.fingerprint
           /\ \A p \in Package : rows'[h][p] = 0
  <2>1. OpenOK(Tail(q), rows'[h], tainted, s)
    BY <1>1, <1>3, StartOpens DEF m
  <2> QED BY <1>1, <1>2, <1>3, <2>1
<1>4. CASE s \in sessions /\ s.host # h
  BY <1>1, <1>2, <1>4 DEF IInv, SessionOK, Types, TypeOK
<1>5. CASE s \in sessions /\ s.host = h /\ ~ (m.type = "start" /\ s.batch = m.batch)
  <2> SUFFICES ASSUME s.batch \notin tainted, Pending(Tail(q), s.batch)
               PROVE  OpenOK(Tail(q), rows'[h], tainted, s)
    BY <1>1, <1>2, <1>5 DEF OpenOK
  <2>1. OpenOK(q, rows[h], tainted, s)
    BY <1>5 DEF IInv, SessionOK
  <2>2. /\ m.batch = s.batch /\ m.type \in {"start", "chunk"}
        /\ m.type = "chunk" => OpenOK(Tail(q), [rows[h] EXCEPT ![m.package] = @ + 1], tainted, s)
    BY <1>1, <1>2, <2>1, HeadGone DEF m
  <2>3. m.type = "chunk"
    BY <1>5, <2>2
  <2>4. rows'[h] = [rows[h] EXCEPT ![m.package] = @ + 1]
    BY <1>1, <1>5, <2>2, <2>3, ApplyRows
  <2> QED BY <2>2, <2>3, <2>4
<1> QED BY <1>1, <1>3, <1>4, <1>5, ApplySessions

\* The head of a queue is handled and stays.
LEMMA RepeatSessions ==
  ASSUME IInv, NEW h \in Host, HandleUncompleted(h), NEW s \in sessions'
  PROVE  SessionOK(s)'
<1> DEFINE q == queue[h]  m == q[1]
<1>1. /\ q \in Seq(Message) /\ q # << >> /\ QueueOK(q, tainted) /\ m \in Message /\ Head(q) = m
      /\ Types /\ Apply(h, m) /\ tainted' = IF m.type = "chunk" THEN tainted \cup {m.batch} ELSE tainted
      /\ queue' = queue /\ m.batch \in 1..sent
  BY TailElements DEF IInv, Types, TypeOK, HandleUncompleted
<1>2. /\ \A k \in Host \ {h} : rows'[k] = rows[k]
      /\ rows[h] \in [Package -> Nat] /\ tainted \subseteq tainted'
  BY <1>1, ApplyTypes DEF Types, TypeOK
<1>3. 1 \in DOMAIN q /\ \A k \in DOMAIN q : k \in Nat /\ k >= 1
  BY <1>1, TailElements
<1> HIDE DEF m
<1> SUFFICES OpenOK(queue[s.host], rows'[s.host], tainted', s)
  BY <1>1 DEF SessionOK
<1>4. CASE s.host = h /\ m.type = "start" /\ s.batch = m.batch /\ s.fingerprint = m.fingerprint
           /\ \A p \in Package : rows'[h][p] = 0
  BY <1>1, <1>4, StartOpens DEF m
<1>5. CASE s \in sessions /\ s.host # h
  BY <1>1, <1>2, <1>5, OpenMoreTainted DEF IInv, SessionOK, Types, TypeOK
<1>6. CASE s \in sessions /\ s.host = h /\ ~ (m.type = "start" /\ s.batch = m.batch)
  <2> SUFFICES ASSUME s.batch \notin tainted', Pending(q, s.batch)
               PROVE  OpenOK(q, rows'[h], tainted', s)
    BY <1>6 DEF OpenOK
  <2>1. OpenOK(q, rows[h], tainted', s)
    BY <1>2, <1>6, OpenMoreTainted DEF IInv, SessionOK
  <2>2. m.batch = s.batch
    BY <2>1 DEF OpenOK, m
  <2>3. m.type # "chunk" /\ m.type # "start"
    BY <1>1, <1>6, <2>2
  <2>4. m.type # "delta"
    <3> SUFFICES ASSUME m.type = "delta" PROVE FALSE
      OBVIOUS
    <3>1. PICK k \in DOMAIN q : q[k].type \in {"chunk", "end"} /\ q[k].batch = s.batch
      BY DEF Pending
    <3>2. 1 < k
      <4>1. k # 1
        BY <3>1 DEF m
      <4> QED BY <1>3, <4>1
    <3>3. PairOK(q, 1, k)
      BY <1>1, <1>2, <1>3, <2>2, <3>1, <3>2 DEF QueueOK, m
    <3> QED BY <3>3 DEF PairOK, m
  <2>5. m.type = "end"
    BY <1>1, <2>3, <2>4, MessageTypes
  <2>6. rows'[h] = rows[h]
    BY <1>1, <1>6, <2>2, <2>5, ApplyRows
  <2> QED BY <2>1, <2>6
<1> QED BY <1>1, <1>4, <1>5, <1>6, ApplySessions

\* The head of a queue leaves it unhandled.
LEMMA FailSessions ==
  ASSUME IInv, NEW h \in Host, HandlerFails(h), NEW s \in sessions'
  PROVE  SessionOK(s)'
<1> DEFINE q == queue[h]  m == q[1]
<1>1. /\ q \in Seq(Message) /\ q # << >> /\ QueueOK(q, tainted) /\ m \in Message /\ Head(q) = m
      /\ tainted' = IF m.type = "chunk" THEN tainted \cup {m.batch} ELSE tainted
      /\ queue' = [queue EXCEPT ![h] = Tail(@)]
      /\ rows' = rows /\ s \in sessions /\ rows[h] \in [Package -> Nat]
  BY TailElements DEF IInv, Types, TypeOK, HandlerFails, serverVars
<1>2. tainted \subseteq tainted' /\ QueueOK(q, tainted')
  BY <1>1, MoreTainted
<1>3. OpenOK(queue[s.host], rows'[s.host], tainted', s)
  BY <1>1, <1>2, OpenMoreTainted DEF IInv, SessionOK
<1>4. s.host \in Host /\ \A k \in Host \ {h} : queue'[k] = queue[k]
  BY <1>1 DEF IInv, Types, TypeOK
<1> HIDE DEF m
<1> SUFFICES OpenOK(queue'[s.host], rows'[s.host], tainted', s)
  BY DEF SessionOK
<1>5. CASE s.host # h
  BY <1>3, <1>4, <1>5
<1>6. CASE s.host = h
  <2>1. queue'[h] = Tail(q)
    BY <1>1 DEF IInv, Types
  <2> SUFFICES ASSUME s.batch \notin tainted', Pending(Tail(q), s.batch)
               PROVE  OpenOK(Tail(q), rows'[h], tainted', s)
    BY <1>6, <2>1 DEF OpenOK
  <2>2. /\ m.batch = s.batch /\ m.type \in {"start", "chunk"}
        /\ m.type = "start" => OpenOK(Tail(q), rows'[h], tainted', s)
    BY <1>1, <1>2, <1>3, <1>6, HeadGone DEF m
  <2> QED BY <1>1, <2>2
<1> QED BY <1>5, <1>6

\* A message overtakes others: every batch of the host is touched, and every open one.
LEMMA ReorderSessions ==
  ASSUME IInv, NEW h \in Host, HandleOutOfOrder(h), NEW s \in sessions'
  PROVE  SessionOK(s)'
<1>1. PICK k \in 2..Len(queue[h]) : Apply(h, queue[h][k])
  BY DEF HandleOutOfOrder
<1>2. /\ k \in DOMAIN queue[h] /\ queue[h][k] \in Message /\ Types
      /\ tainted' = tainted \cup {queue[h][j].batch : j \in DOMAIN queue[h]} \cup {t.batch : t \in sessions}
  BY DEF IInv, Types, HandleOutOfOrder
<1>3. s \in sessions \/ s.batch = queue[h][k].batch
  BY <1>1, <1>2, ApplySessions
<1>4. s.batch \in tainted'
  BY <1>2, <1>3
<1> QED BY <1>4 DEF SessionOK, OpenOK

\* A batch of a new number is put into a queue.
LEMMA AppendStep ==
  ASSUME IInv, NEW h \in Host, NEW r \in Seq(Message),
         queue' = [queue EXCEPT ![h] = @ \o r],
         \A k \in DOMAIN r : r[k].batch = sent + 1,
         UNCHANGED <<rows, recorded, sessions, hints, whole>>,
         sent < MaxSends, sent' = sent + 1, faults' \in 0..MaxFaults,
         tainted \subseteq tainted', tainted' \subseteq 1..sent', QueueOK(r, tainted')
  PROVE  IInv'
<1>1. queue' = [queue EXCEPT ![h] = @ \o r] /\ \A k \in DOMAIN r : r[k].batch = sent + 1
  OBVIOUS
<1>2. /\ rows' = rows /\ recorded' = recorded /\ sessions' = sessions /\ hints' = hints
      /\ whole' = whole
      /\ sent' = sent + 1 /\ sent < MaxSends /\ sent \in Nat /\ MaxSends \in Nat
  BY CatalogAssumption DEF IInv, Types, TypeOK
<1>3. /\ queue[h] \in Seq(Message) /\ QueueOK(queue[h], tainted')
      /\ \A k \in DOMAIN queue[h] : queue[h][k].batch \in 1..sent
      /\ queue'[h] = queue[h] \o r
      /\ \A k \in Host \ {h} : queue'[k] = queue[k]
  <2>1. queue[h] \in Seq(Message) /\ QueueOK(queue[h], tainted)
    BY DEF IInv, Types
  <2>2. QueueOK(queue[h], tainted')
    BY <2>1, MoreTainted
  <2> QED BY <1>1, <2>1, <2>2 DEF IInv, Types, TypeOK
<1>4. \A k \in DOMAIN queue[h] : queue[h][k].batch # sent + 1
  BY <1>2, <1>3
<1>5. /\ QueueOK(queue[h] \o r, tainted')
      /\ \A b : b # sent + 1 => /\ Left(queue[h] \o r, b) = Left(queue[h], b)
                                /\ Pending(queue[h] \o r, b)
                                     => Pending(queue[h], b) /\ (queue[h] \o r)[1] = queue[h][1]
  <2> DEFINE q == queue[h]  i == sent + 1
  <2>1. /\ q \in Seq(Message) /\ QueueOK(q, tainted') /\ QueueOK(r, tainted')
        /\ \A k \in DOMAIN q : q[k].batch # i
        /\ \A k \in DOMAIN r : r[k].batch = i
    BY <1>1, <1>3, <1>4
  <2> HIDE DEF q, i
  <2>2. /\ QueueOK(q \o r, tainted')
        /\ \A b : b # i => /\ Left(q \o r, b) = Left(q, b)
                           /\ Pending(q \o r, b) => Pending(q, b) /\ (q \o r)[1] = q[1]
    BY <2>1, AppendOK
  <2> QED BY <2>2 DEF q, i
<1>6. Types'
  <2>1. queue' \in [Host -> Seq(Message)]
    BY <1>1, <1>3 DEF IInv, Types
  <2>2. \A k \in Host : \A j \in DOMAIN queue'[k] : queue'[k][j].batch \in 1..sent'
    <3>1. ASSUME NEW j \in DOMAIN (queue[h] \o r) PROVE (queue[h] \o r)[j].batch \in 1..sent'
      <4>1. /\ Len(queue[h]) \in Nat /\ Len(r) \in Nat
            /\ DOMAIN (queue[h] \o r) = 1..(Len(queue[h]) + Len(r))
            /\ DOMAIN queue[h] = 1..Len(queue[h]) /\ DOMAIN r = 1..Len(r)
            /\ \A k \in 1..Len(queue[h]) : (queue[h] \o r)[k] = queue[h][k]
            /\ \A k \in 1..Len(r) : (queue[h] \o r)[Len(queue[h]) + k] = r[k]
        BY <1>3, Appended
      <4>2. CASE j \in 1..Len(queue[h])
        <5>1. (queue[h] \o r)[j].batch \in 1..sent
          BY <1>3, <4>1, <4>2
        <5> QED BY <1>2, <5>1
      <4>3. CASE j \notin 1..Len(queue[h])
        <5>1. j - Len(queue[h]) \in 1..Len(r) /\ Len(queue[h]) + (j - Len(queue[h])) = j
          BY <4>1, <4>3
        <5>2. (queue[h] \o r)[Len(queue[h]) + (j - Len(queue[h]))] = r[j - Len(queue[h])]
          BY <4>1, <5>1
        <5>3. (queue[h] \o r)[j].batch = sent + 1
          BY <1>1, <4>1, <5>1, <5>2
        <5> QED BY <1>2, <5>3
      <4> QED BY <4>2, <4>3
    <3>2. \A k \in Host \ {h} : \A j \in DOMAIN queue[k] : queue[k][j].batch \in 1..sent'
      BY <1>2 DEF IInv, Types, TypeOK
    <3> QED BY <1>3, <3>1, <3>2
  <2>3. sent' \in 0..MaxSends /\ 1..sent \subseteq 1..sent'
    BY <1>2
  <2> QED BY <1>2, <2>1, <2>2, <2>3 DEF IInv, Types, TypeOK
<1>7. ASSUME NEW k \in Host PROVE QueueOK(queue'[k], tainted')
  <2>1. QueueOK(queue[k], tainted) /\ queue[k] \in Seq(Message)
    BY DEF IInv, Types
  <2>2. QueueOK(queue[k], tainted')
    BY <2>1, MoreTainted
  <2> QED BY <1>3, <1>5, <2>2
<1>8. ASSUME NEW s \in sessions' PROVE SessionOK(s)'
  <2>1. s.batch # sent + 1 /\ s.host \in Host
    BY <1>2 DEF IInv, Types, TypeOK
  <2>2. OpenOK(queue[s.host], rows[s.host], tainted', s)
    <3>1. OpenOK(queue[s.host], rows[s.host], tainted, s)
      BY <1>2 DEF IInv, SessionOK
    <3> QED BY <3>1, OpenMoreTainted
  <2>3. OpenOK(queue'[s.host], rows[s.host], tainted', s)
    <3>1. CASE s.host = h
      <4>1. /\ Left(queue'[h], s.batch) = Left(queue[h], s.batch)
            /\ Pending(queue'[h], s.batch)
                 => Pending(queue[h], s.batch) /\ queue'[h][1] = queue[h][1]
        BY <1>3, <1>5, <2>1
      <4>2. OpenOK(queue[h], rows[h], tainted', s)
        BY <2>2, <3>1
      <4>3. OpenOK(queue'[h], rows[h], tainted', s)
        BY <4>1, <4>2 DEF OpenOK
      <4> QED BY <3>1, <4>3
    <3>2. CASE s.host # h
      BY <1>3, <2>1, <2>2, <3>2
    <3> QED BY <3>1, <3>2
  <2> QED BY <1>2, <2>3 DEF SessionOK
<1>9. WholeIsFaithful'
  BY <1>2 DEF IInv, WholeIsFaithful, Faithful
<1> QED BY <1>6, <1>7, <1>8, <1>9 DEF IInv

\* What the agent puts into a queue when it answers.
LEMMA AnswerQueue ==
  ASSUME IInv, NEW h \in Host, Answer(h)
  PROVE  \E r \in Seq(Message) :
           /\ queue' = [queue EXCEPT ![h] = @ \o r]
           /\ QueueOK(r, tainted)
           /\ \A k \in DOMAIN r : r[k].batch = sent + 1
<1>1. PICK known \in hints[h], c \in Catalog :
        \/ queue' = [queue EXCEPT ![h] = @ \o Batch(sent', c, c)]
        \/ known # None /\ queue' = [queue EXCEPT ![h] = @ \o Delta(sent', known, c)]
  BY DEF Answer
<1>2. sent' = sent + 1 /\ sent' \in Nat /\ (known # None => known \in Catalog)
  BY CatalogAssumption DEF IInv, Types, TypeOK, Answer
<1>3. CASE queue' = [queue EXCEPT ![h] = @ \o Batch(sent', c, c)]
  <2>1. /\ Batch(sent', c, c) \in Seq(Message) /\ QueueOK(Batch(sent', c, c), tainted)
        /\ \A k \in DOMAIN Batch(sent', c, c) : Batch(sent', c, c)[k].batch = sent'
    BY <1>2, c \in Catalog \cup {None}, BatchOK
  <2> QED BY <1>2, <1>3, <2>1
<1>4. CASE known # None /\ queue' = [queue EXCEPT ![h] = @ \o Delta(sent', known, c)]
  <2>1. known \in Catalog /\ c \in Catalog
    BY <1>2, <1>4
  <2>2. /\ Delta(sent', known, c) \in Seq(Message)
        /\ QueueOK(Delta(sent', known, c), tainted)
        /\ \A k \in DOMAIN Delta(sent', known, c) : Delta(sent', known, c)[k].batch = sent'
    BY <1>2, <2>1, DeltaOK
  <2> QED BY <1>2, <1>4, <2>2
<1> QED BY <1>1, <1>3, <1>4

LEMMA AnswerStep ==
  ASSUME IInv, NEW h \in Host, Answer(h)
  PROVE  IInv'
<1>1. PICK r \in Seq(Message) :
        /\ queue' = [queue EXCEPT ![h] = @ \o r]
        /\ QueueOK(r, tainted)
        /\ \A k \in DOMAIN r : r[k].batch = sent + 1
  BY AnswerQueue
<1>2. /\ UNCHANGED <<rows, recorded, sessions, hints, faults, tainted, whole>>
      /\ sent' = sent + 1 /\ sent < MaxSends
      /\ faults \in 0..MaxFaults /\ tainted \subseteq 1..sent /\ 1..sent \subseteq 1..(sent + 1)
  BY DEF IInv, Types, TypeOK, Answer, serverVars, history
<1>3. /\ faults' \in 0..MaxFaults /\ tainted \subseteq tainted' /\ tainted' \subseteq 1..sent'
      /\ QueueOK(r, tainted')
  BY <1>1, <1>2
<1> QED BY <1>1, <1>2, <1>3, AppendStep

\* A batch without a fingerprint is one no property counts on.
LEMMA UnsignedStep ==
  ASSUME IInv, NEW h \in Host, AnswerUnsigned(h)
  PROVE  IInv'
<1>1. PICK c \in Catalog : queue' = [queue EXCEPT ![h] = @ \o Batch(sent + 1, c, None)]
  BY DEF AnswerUnsigned
<1>2. /\ UNCHANGED <<rows, recorded, sessions, hints, whole>>
      /\ sent \in Nat /\ sent' = sent + 1 /\ sent < MaxSends
      /\ tainted' = tainted \cup {sent + 1} /\ tainted \subseteq 1..sent
      /\ faults \in 0..MaxFaults /\ faults < MaxFaults /\ faults' = faults + 1 /\ MaxFaults \in Nat
  BY CatalogAssumption DEF IInv, Types, TypeOK, AnswerUnsigned, Fault, serverVars
<1> DEFINE r == Batch(sent + 1, c, None)
<1>3. /\ r \in Seq(Message) /\ QueueOK(r, tainted')
      /\ \A k \in DOMAIN r : r[k].batch = sent + 1
  <2>1. sent + 1 \in Nat /\ sent + 1 \in tainted' /\ None \in Catalog \cup {None}
    BY <1>2
  <2> QED BY <2>1, BatchOK
<1>4. faults' \in 0..MaxFaults /\ tainted \subseteq tainted' /\ tainted' \subseteq 1..sent'
  BY <1>2
<1> HIDE DEF r
<1>5. queue' = [queue EXCEPT ![h] = @ \o r]
  BY <1>1 DEF r
<1> QED BY <1>2, <1>3, <1>4, <1>5, AppendStep

\* The types after a step of a handler that took the messages of a queue from it.
LEMMA HandlerTypes ==
  ASSUME Types, NEW h \in Host, NEW m \in Message, m.batch \in 1..sent, Apply(h, m), Hand,
         sent' = sent, faults' \in 0..MaxFaults, tainted' \subseteq 1..sent,
         queue' \in [Host -> Seq(Message)],
         \A k \in Host : \A j \in DOMAIN queue'[k] : \E l \in DOMAIN queue[k] : queue'[k][j] = queue[k][l]
  PROVE  Types'
<1>1. /\ rows' \in [Host -> [Package -> Nat]]
      /\ recorded' \in [Host -> Catalog \cup {None}]
      /\ whole' \subseteq Host
      /\ \A s \in sessions' :
           s.batch \in 1..sent /\ s.host \in Host /\ s.fingerprint \in Catalog \cup {None}
  BY ApplyTypes
<1>2. \A k \in Host : hints'[k] \subseteq Catalog \cup {None}
  BY <1>1 DEF Hand, Types, TypeOK
<1>3. \A k \in Host : \A j \in DOMAIN queue'[k] : queue'[k][j].batch \in 1..sent'
  BY DEF Types, TypeOK
<1> QED BY <1>1, <1>2, <1>3 DEF Types, TypeOK

\* What is in a queue whose head is gone.
LEMMA TailQueue ==
  ASSUME Types, NEW h \in Host, queue[h] # << >>, queue' = [queue EXCEPT ![h] = Tail(@)]
  PROVE  /\ queue' \in [Host -> Seq(Message)]
         /\ \A k \in Host : \A j \in DOMAIN queue'[k] : \E l \in DOMAIN queue[k] : queue'[k][j] = queue[k][l]
         /\ queue'[h] = Tail(queue[h]) /\ \A k \in Host \ {h} : queue'[k] = queue[k]
<1>1. queue[h] \in Seq(Message) /\ queue \in [Host -> Seq(Message)]
  BY DEF Types
<1>2. Tail(queue[h]) \in Seq(Message)
      /\ \A j \in DOMAIN Tail(queue[h]) : j + 1 \in DOMAIN queue[h] /\ Tail(queue[h])[j] = queue[h][j + 1]
  BY <1>1, TailElements
<1>3. queue'[h] = Tail(queue[h]) /\ \A k \in Host \ {h} : queue'[k] = queue[k]
  BY <1>1
<1> QED BY <1>1, <1>2, <1>3

\* The end of an untouched batch makes the fingerprint of its host true, and no other
\* message makes that of a host in whole false.
LEMMA HandlerWhole ==
  ASSUME IInv, Types', NEW h \in Host, queue[h] # << >>, NEW m \in Message, m.batch \in 1..sent,
         Apply(h, m), tainted \subseteq tainted', m = queue[h][1] \/ m.batch \in tainted'
  PROVE  WholeIsFaithful'
<1>1. Types /\ WholeIsFaithful
  BY DEF IInv
<1> SUFFICES ASSUME NEW k \in Host, k \in whole' PROVE Faithful(k)'
  BY DEF WholeIsFaithful, Types, TypeOK
<1>2. CASE k = h /\ BatchEnd(h, m)
  <2>1. m.batch \notin tainted' /\ m = queue[h][1] /\ m.type = "end" /\ rows' = rows
    BY <1>2 DEF BatchEnd
  <2>2. PICK s \in sessions : /\ s.batch = m.batch /\ s.host = h /\ s.fingerprint # None
                              /\ recorded' = [recorded EXCEPT ![h] = s.fingerprint]
    BY <1>2 DEF BatchEnd
  <2>3. /\ queue[h] \in Seq(Message) /\ QueueOK(queue[h], tainted)
        /\ OpenOK(queue[h], rows[h], tainted, s) /\ s.batch \notin tainted
    BY <2>1, <2>2 DEF IInv, SessionOK, Types
  <2>4. \A p \in Package : rows[h][p] = IF p \in s.fingerprint THEN 1 ELSE 0
    BY <2>1, <2>2, <2>3, EndIsLast
  <2>5. recorded'[h] = s.fingerprint /\ s.fingerprint # None
    BY <1>1, <2>2, CatalogAssumption DEF Types, TypeOK
  <2> QED BY <1>2, <2>1, <2>4, <2>5 DEF Faithful
<1>3. CASE ~ (k = h /\ BatchEnd(h, m))
  <2>1. k \in whole /\ ~ (k = h /\ (BatchStart(h, m) \/ BatchChunk(h, m)))
    BY <1>1, <1>3, ApplyTypes DEF Apply, BatchStart, BatchChunk, ApplyDelta, Refuse
  <2>2. Faithful(k)
    BY <1>1, <2>1 DEF WholeIsFaithful
  <2> QED BY <1>1, <1>3, <2>1, <2>2, ApplyFaithful
<1> QED BY <1>2, <1>3

LEMMA HandleStep ==
  ASSUME IInv, NEW h \in Host, Handle(h)
  PROVE  IInv'
<1> DEFINE q == queue[h]  m == q[1]
<1>1. /\ q \in Seq(Message) /\ q # << >> /\ m \in Message /\ m.batch \in 1..sent /\ Types
      /\ Apply(h, m) /\ Hand /\ queue' = [queue EXCEPT ![h] = Tail(@)]
      /\ tainted' = tainted /\ sent' = sent /\ faults' = faults
      /\ faults \in 0..MaxFaults /\ tainted \subseteq 1..sent
  BY TailElements DEF IInv, Types, TypeOK, Handle
<1>2. Types'
  BY <1>1, TailQueue, HandlerTypes
<1>3. ASSUME NEW k \in Host PROVE QueueOK(queue'[k], tainted')
  BY <1>1, TailQueue, TailOK DEF IInv
<1>4. WholeIsFaithful'
  BY <1>1, <1>2, HandlerWhole
<1> QED BY <1>2, <1>3, <1>4, HandleSessions DEF IInv

LEMMA FailStep ==
  ASSUME IInv, NEW h \in Host, HandlerFails(h)
  PROVE  IInv'
<1> DEFINE q == queue[h]  m == q[1]
<1>1. /\ q \in Seq(Message) /\ q # << >> /\ m \in Message /\ m.batch \in 1..sent /\ Types
      /\ queue' = [queue EXCEPT ![h] = Tail(@)] /\ Head(q) = m
      /\ tainted' = IF m.type = "chunk" THEN tainted \cup {m.batch} ELSE tainted
      /\ rows' = rows /\ recorded' = recorded /\ sessions' = sessions /\ whole' = whole
      /\ hints' = hints /\ sent' = sent /\ faults < MaxFaults /\ faults' = faults + 1
      /\ faults \in 0..MaxFaults /\ tainted \subseteq 1..sent /\ MaxFaults \in Nat
  BY TailElements, CatalogAssumption DEF IInv, Types, TypeOK, HandlerFails, Fault, serverVars
<1>2. faults' \in 0..MaxFaults
  BY <1>1
<1>3. tainted \subseteq tainted' /\ tainted' \subseteq 1..sent
  BY <1>1
<1>4. Types'
  <2>1. \A k \in Host : \A j \in DOMAIN queue'[k] : queue'[k][j].batch \in 1..sent'
    BY <1>1, TailQueue DEF Types, TypeOK
  <2>2. queue' \in [Host -> Seq(Message)]
    BY <1>1, TailQueue
  <2> HIDE DEF q, m
  <2> QED BY <1>1, <1>2, <1>3, <2>1, <2>2 DEF Types, TypeOK
<1>5. ASSUME NEW k \in Host PROVE QueueOK(queue'[k], tainted')
  <2>1. QueueOK(queue'[k], tainted)
    BY <1>1, TailQueue, TailOK DEF IInv
  <2> QED BY <1>3, <2>1, MoreTainted
<1>6. WholeIsFaithful'
  BY <1>1 DEF IInv, WholeIsFaithful, Faithful
<1> QED BY <1>4, <1>5, <1>6, FailSessions DEF IInv

LEMMA RepeatStep ==
  ASSUME IInv, NEW h \in Host, HandleUncompleted(h)
  PROVE  IInv'
<1> DEFINE q == queue[h]  m == q[1]
<1>1. /\ q \in Seq(Message) /\ q # << >> /\ m \in Message /\ m.batch \in 1..sent /\ Types
      /\ Apply(h, m) /\ Hand /\ queue' = queue
      /\ tainted' = IF m.type = "chunk" THEN tainted \cup {m.batch} ELSE tainted
      /\ sent' = sent /\ faults < MaxFaults /\ faults' = faults + 1
      /\ faults \in 0..MaxFaults /\ tainted \subseteq 1..sent /\ MaxFaults \in Nat
  BY TailElements, CatalogAssumption DEF IInv, Types, TypeOK, HandleUncompleted, Fault
<1>2. faults' \in 0..MaxFaults /\ tainted \subseteq tainted' /\ tainted' \subseteq 1..sent
  <2>1. faults' \in 0..MaxFaults
    BY <1>1
  <2> QED BY <1>1, <2>1
<1>3. Types'
  <2>1. queue' \in [Host -> Seq(Message)]
    BY <1>1 DEF Types
  <2> QED BY <1>1, <1>2, <2>1, HandlerTypes
<1>4. ASSUME NEW k \in Host PROVE QueueOK(queue'[k], tainted')
  BY <1>1, <1>2, MoreTainted DEF IInv
<1>5. WholeIsFaithful'
  BY <1>1, <1>2, <1>3, HandlerWhole
<1> QED BY <1>3, <1>4, <1>5, RepeatSessions DEF IInv

LEMMA ReorderStep ==
  ASSUME IInv, NEW h \in Host, HandleOutOfOrder(h)
  PROVE  IInv'
<1> DEFINE q == queue[h]
<1>1. PICK k \in 2..Len(q) : Apply(h, q[k]) /\ queue' = [queue EXCEPT ![h] = RemoveAt(@, k)]
  BY DEF HandleOutOfOrder
<1> DEFINE m == q[k]
<1>2. /\ q \in Seq(Message) /\ q # << >> /\ k \in DOMAIN q /\ m \in Message /\ Types
      /\ \A j \in DOMAIN q : q[j].batch \in 1..sent
  BY DEF IInv, Types, TypeOK
<1>3. /\ Hand /\ sent' = sent /\ faults < MaxFaults /\ faults' = faults + 1
      /\ faults \in 0..MaxFaults /\ tainted \subseteq 1..sent /\ MaxFaults \in Nat
      /\ tainted' = tainted \cup {q[j].batch : j \in DOMAIN q} \cup {s.batch : s \in sessions}
      /\ \A s \in sessions : s.batch \in 1..sent
  BY CatalogAssumption DEF IInv, Types, TypeOK, HandleOutOfOrder, Fault
<1>4. faults' \in 0..MaxFaults
  BY <1>3
<1>5. tainted \subseteq tainted' /\ tainted' \subseteq 1..sent /\ {q[j].batch : j \in DOMAIN q} \subseteq tainted'
  BY <1>2, <1>3
<1>6. /\ RemoveAt(q, k) \in Seq(Message)
      /\ \A j \in DOMAIN RemoveAt(q, k) : \E l \in DOMAIN q : RemoveAt(q, k)[j] = q[l]
      /\ QueueOK(RemoveAt(q, k), tainted')
  BY <1>2, <1>5, AllTainted
<1>7. /\ queue'[h] = RemoveAt(q, k) /\ \A j \in Host \ {h} : queue'[j] = queue[j]
      /\ queue' \in [Host -> Seq(Message)]
  BY <1>1, <1>2, <1>6 DEF Types
<1>8. \A j \in Host : \A l \in DOMAIN queue'[j] : \E o \in DOMAIN queue[j] : queue'[j][l] = queue[j][o]
  <2>1. \A l \in DOMAIN queue'[h] : \E o \in DOMAIN queue[h] : queue'[h][l] = queue[h][o]
    BY <1>6, <1>7
  <2>2. \A j \in Host \ {h} : \A l \in DOMAIN queue'[j] : queue'[j][l] = queue[j][l] /\ l \in DOMAIN queue[j]
    BY <1>7
  <2> QED BY <2>1, <2>2
<1>9. Types'
  BY <1>1, <1>2, <1>3, <1>4, <1>5, <1>7, <1>8, HandlerTypes
<1>10. ASSUME NEW j \in Host PROVE QueueOK(queue'[j], tainted')
  BY <1>5, <1>6, <1>7, MoreTainted DEF IInv
<1>11. WholeIsFaithful'
  <2>1. m.batch \in tainted' /\ m.batch \in 1..sent
    BY <1>2, <1>3
  <2> QED BY <1>1, <1>2, <1>5, <1>9, <2>1, HandlerWhole
<1> QED BY <1>9, <1>10, <1>11, ReorderSessions DEF IInv

LEMMA RestartStep ==
  ASSUME IInv, Restart
  PROVE  IInv'
<1>1. /\ faults < MaxFaults /\ faults' = faults + 1 /\ faults \in 0..MaxFaults /\ MaxFaults \in Nat
      /\ sessions' = {} /\ rows' = rows /\ recorded' = recorded /\ queue' = queue /\ sent' = sent
      /\ hints' = hints /\ tainted' = tainted /\ whole' = whole
  BY CatalogAssumption DEF IInv, Types, TypeOK, Restart, Fault, history
<1>2. faults' \in 0..MaxFaults
  BY <1>1
<1>3. Types'
  BY <1>1, <1>2 DEF IInv, Types, TypeOK
<1> QED BY <1>1, <1>3 DEF IInv, WholeIsFaithful, Faithful

LEMMA Initially == Init => IInv
<1> SUFFICES ASSUME Init PROVE IInv
  OBVIOUS
<1>1. Types
  <2>1. queue \in [Host -> Seq(Message)] /\ \A h \in Host : DOMAIN queue[h] = {}
    BY DEF Init
  <2>2. rows \in [Host -> [Package -> Nat]]
    BY DEF Init
  <2>3. 0 \in 0..MaxSends /\ 0 \in 0..MaxFaults
    BY CatalogAssumption
  <2> QED BY <2>1, <2>2, <2>3 DEF Init, Types, TypeOK
<1>2. \A h \in Host : QueueOK(queue[h], tainted)
  <2>1. \A h \in Host : DOMAIN queue[h] = {}
    BY DEF Init
  <2> QED BY <2>1 DEF QueueOK
<1> QED BY <1>1, <1>2 DEF Init, IInv, WholeIsFaithful

-----------------------------------------------------------------------------
(* The theorems.                                                           *)

\* The invariant is inductive: it holds in every reachable state.
THEOREM Invariant == Spec => []IInv
<1>1. ASSUME IInv, [Next]_vars PROVE IInv'
  <2>1. ASSUME NEW h \in Host, Answer(h) PROVE IInv'
    BY <1>1, <2>1, AnswerStep
  <2>2. ASSUME NEW h \in Host, Handle(h) PROVE IInv'
    BY <1>1, <2>2, HandleStep
  <2>3. ASSUME NEW h \in Host, HandlerFails(h) PROVE IInv'
    BY <1>1, <2>3, FailStep
  <2>4. ASSUME NEW h \in Host, HandleUncompleted(h) PROVE IInv'
    BY <1>1, <2>4, RepeatStep
  <2>5. ASSUME NEW h \in Host, HandleOutOfOrder(h) PROVE IInv'
    BY <1>1, <2>5, ReorderStep
  <2>6. CASE Restart
    BY <1>1, <2>6, RestartStep
  <2>7. ASSUME NEW h \in Host, AnswerUnsigned(h) PROVE IInv'
    BY <1>1, <2>7, UnsignedStep
  <2>8. CASE UNCHANGED vars
    BY <1>1, <2>8
    DEF vars, serverVars, history, IInv, Types, TypeOK, SessionOK, WholeIsFaithful, Faithful
  <2> QED BY <1>1, <2>1, <2>2, <2>3, <2>4, <2>5, <2>6, <2>7, <2>8 DEF Next
<1> QED BY <1>1, Initially, PTL DEF Spec

\* The type invariant of the catalog: what the server stores, hands out and remembers of
\* open batches is always of the kind the handlers expect.
THEOREM TypeCorrect == Spec => []TypeOK
<1>1. IInv => TypeOK
  BY DEF IInv, Types
<1> QED BY <1>1, Invariant, PTL

\* handle_packages_batch_start, _batch, _batch_end: a batch that no fault has touched leaves
\* exactly the rows of its fingerprint, for every number of hosts, batches and faults.
THEOREM WholeBatchesAreFaithful == Spec => []WholeIsFaithful
<1>1. IInv => WholeIsFaithful
  BY DEF IInv
<1> QED BY <1>1, Invariant, PTL

\* handle_packages_delta and the rest: only a batch of the host itself, under way, makes
\* the fingerprint the server holds for it false.
THEOREM DeltasKeepFaith == Spec => OnlyBatchesBreak
<1> DEFINE Kept(h) == Faithful(h) /\ ~Faithful(h)' => \E s \in sessions \cup sessions' : s.host = h
<1>1. ASSUME Types, Types', [Next]_vars, NEW h \in Host PROVE Kept(h)
  <2>1. ASSUME NEW g \in Host, NEW m \in Message, m.batch \in 1..sent, Apply(g, m) PROVE Kept(h)
    <3> SUFFICES ASSUME Faithful(h), ~Faithful(h)' PROVE \E s \in sessions \cup sessions' : s.host = h
      OBVIOUS
    <3>1. h = g /\ (BatchStart(g, m) \/ BatchChunk(g, m) \/ BatchEnd(g, m))
      BY <1>1, <2>1, ApplyFaithful
    <3>2. CASE BatchStart(g, m)
      <4> DEFINE s == [batch |-> m.batch, host |-> g, fingerprint |-> m.fingerprint]
      <4>1. s \in sessions' /\ s.host = g
        BY <3>2 DEF BatchStart
      <4> HIDE DEF s
      <4> QED BY <3>1, <4>1
    <3>3. CASE BatchChunk(g, m)
      BY <3>1, <3>3 DEF BatchChunk, Open
    <3>4. CASE BatchEnd(g, m)
      <4>1. \E s \in sessions : s.host = g
        BY <3>4 DEF BatchEnd
      <4> QED BY <3>1, <4>1
    <3> QED BY <3>1, <3>2, <3>3, <3>4
  <2>2. ASSUME rows' = rows, recorded' = recorded PROVE Kept(h)
    BY <2>2 DEF Faithful
  <2>3. ASSUME NEW g \in Host, Handle(g) \/ HandleUncompleted(g) PROVE Kept(h)
    <3>1. queue[g] \in Seq(Message) /\ queue[g] # << >> /\ Apply(g, Head(queue[g]))
      BY <1>1, <2>3 DEF Types, Handle, HandleUncompleted
    <3>2. Head(queue[g]) \in Message /\ Head(queue[g]).batch \in 1..sent
      BY <1>1, <3>1, TailElements DEF Types, TypeOK
    <3> QED BY <2>1, <3>1, <3>2
  <2>4. ASSUME NEW g \in Host, HandleOutOfOrder(g) PROVE Kept(h)
    <3>1. PICK k \in 2..Len(queue[g]) : Apply(g, queue[g][k])
      BY <2>4 DEF HandleOutOfOrder
    <3>2. queue[g][k] \in Message /\ queue[g][k].batch \in 1..sent
      BY <1>1 DEF Types, TypeOK
    <3> QED BY <2>1, <3>1, <3>2
  <2> HIDE DEF Kept
  <2> QED BY <1>1, <2>2, <2>3, <2>4
          DEF Next, Answer, AnswerUnsigned, HandlerFails, Restart, vars, serverVars
<1>2. IInv => Types
  BY DEF IInv
<1>3. Types /\ Types' /\ [Next]_vars => [\A h \in Host : Kept(h)]_vars
  BY <1>1
<1> HIDE DEF Kept
<1>4. [\A h \in Host : Kept(h)]_vars
        => [\A h \in Host : Faithful(h) /\ ~Faithful(h)' => \E s \in sessions \cup sessions' : s.host = h]_vars
  BY DEF Kept
<1> QED BY <1>2, <1>3, <1>4, Invariant, PTL DEF Spec, OnlyBatchesBreak

-----------------------------------------------------------------------------
(* Without a fault.  What the comment of handle_packages_batch_end         *)
(* promises holds as long as nothing goes wrong: a batch is handled from   *)
(* its start to its end, and until the end its session accounts for the    *)
(* rows.                                                                   *)

\* A queue has the end of every batch it has a start or a chunk of.
Complete(q) ==
  \A k \in DOMAIN q : q[k].type \in {"start", "chunk"}
    => \E l \in DOMAIN q : k < l /\ q[l].type = "end" /\ q[l].batch = q[k].batch

\* The start of the batch of the k-th message comes before it.
Led(q, k) == \E j \in DOMAIN q : j < k /\ q[j].type = "start" /\ q[j].batch = q[k].batch

\* The batch of every message that needs an open one is open or starts before it.
Prepared(h) ==
  \A k \in DOMAIN queue[h] :
    queue[h][k].type \in {"chunk", "end"} => Open(h, queue[h][k].batch) \/ Led(queue[h], k)

\* No batch is in the queues of two hosts, nor in two sessions.
Apart ==
  /\ \A g, h \in Host : g # h =>
       \A j \in DOMAIN queue[g], k \in DOMAIN queue[h] : queue[g][j].batch # queue[h][k].batch
  /\ \A s, t \in sessions : s.batch = t.batch => s = t

\* A session waits for messages that are in the queue.
Awaited == \A s \in sessions : Pending(queue[s.host], s.batch)

\* What is recorded for a host is true, or a batch of the host is open.
Accounted(h) == recorded[h] # None => Faithful(h) \/ \E s \in sessions : s.host = h

\* Every batch came with a fingerprint.
Signed ==
  /\ \A h \in Host : \A k \in DOMAIN queue[h] :
       queue[h][k].type = "start" => queue[h][k].fingerprint # None
  /\ \A s \in sessions : s.fingerprint # None

Calm ==
  /\ Signed
  /\ tainted = {}
  /\ \A h \in Host : Complete(queue[h]) /\ Prepared(h) /\ Accounted(h)
  /\ Apart
  /\ Awaited

\* Where the messages of a longer queue come from.
LEMMA AppendedFrom ==
  ASSUME NEW q \in Seq(Message), NEW r \in Seq(Message)
  PROVE  /\ Len(q) \in Nat
         /\ \A k \in DOMAIN q : k \in Nat /\ k <= Len(q) /\ k \in DOMAIN (q \o r) /\ (q \o r)[k] = q[k]
         /\ \A k \in DOMAIN r : k \in Nat /\ k > 0 /\ Len(q) + k \in DOMAIN (q \o r) /\ (q \o r)[Len(q) + k] = r[k]
         /\ \A k \in DOMAIN (q \o r) :
              k \in DOMAIN q \/ \E j \in DOMAIN r : k = Len(q) + j /\ (q \o r)[k] = r[j]
<1> DEFINE w == q \o r  n == Len(q)
<1>1. /\ n \in Nat /\ DOMAIN q = 1..n /\ DOMAIN r = 1..Len(r) /\ Len(r) \in Nat
      /\ DOMAIN w = 1..(n + Len(r))
      /\ \A k \in DOMAIN q : w[k] = q[k]
      /\ \A k \in DOMAIN r : w[n + k] = r[k]
  BY Appended
<1> HIDE DEF w, n
<1>2. ASSUME NEW k \in DOMAIN w, k \notin DOMAIN q
      PROVE  \E j \in DOMAIN r : k = n + j /\ w[k] = r[j]
  <2>1. k - n \in DOMAIN r /\ k = n + (k - n)
    BY <1>1, <1>2
  <2>2. w[n + (k - n)] = r[k - n]
    BY <1>1, <2>1
  <2> QED BY <2>1, <2>2
<1>3. /\ \A k \in DOMAIN q : k \in Nat /\ k <= n /\ k \in DOMAIN w
      /\ \A k \in DOMAIN r : k \in Nat /\ k > 0 /\ n + k \in DOMAIN w
  BY <1>1
<1> QED BY <1>1, <1>2, <1>3 DEF w, n

\* A batch is sent with its start and its end.
LEMMA BatchIsWhole ==
  ASSUME NEW i \in Nat, NEW c \in Catalog, NEW f \in Catalog \cup {None}
  PROVE  /\ Complete(Batch(i, c, f))
         /\ \A k \in DOMAIN Batch(i, c, f) : Batch(i, c, f)[k].type \in {"chunk", "end"} => Led(Batch(i, c, f), k)
<1> DEFINE q == Batch(i, c, f)  n == Cardinality(c)
<1>1. /\ q \in Seq(Message) /\ n \in Nat /\ Len(q) = n + 2
      /\ q[1] = [type |-> "start", batch |-> i, fingerprint |-> f]
      /\ q[n + 2] = [type |-> "end", batch |-> i]
  BY BatchMessages
<1>2. DOMAIN q = 1..n + 2
  BY <1>1
<1>3. \A k \in DOMAIN q : q[k].batch = i
  BY i \in {i}, BatchOK
<1> HIDE DEF q, n
<1>4. /\ 1 \in DOMAIN q /\ n + 2 \in DOMAIN q /\ q[1].type = "start" /\ q[n + 2].type = "end"
      /\ \A k \in DOMAIN q : k \in Nat /\ (k = 1 \/ 1 < k) /\ (k = n + 2 \/ k < n + 2)
  BY <1>1, <1>2
<1>5. ASSUME NEW k \in DOMAIN q, q[k].type \in {"start", "chunk"} PROVE k < n + 2
  BY <1>4, <1>5
<1>6. ASSUME NEW k \in DOMAIN q, q[k].type \in {"chunk", "end"} PROVE 1 < k
  BY <1>4, <1>6
<1>7. Complete(q)
  BY <1>3, <1>4, <1>5 DEF Complete
<1>8. \A k \in DOMAIN q : q[k].type \in {"chunk", "end"} => Led(q, k)
  BY <1>3, <1>4, <1>6 DEF Led
<1> QED BY <1>7, <1>8 DEF q

LEMMA AnswerIsWhole ==
  ASSUME IInv, NEW h \in Host, Answer(h)
  PROVE  \E r \in Seq(Message) :
           /\ queue' = [queue EXCEPT ![h] = @ \o r]
           /\ \A k \in DOMAIN r : r[k].batch = sent + 1
           /\ Complete(r)
           /\ \A k \in DOMAIN r : r[k].type \in {"chunk", "end"} => Led(r, k)
           /\ \A k \in DOMAIN r : r[k].type = "start" => r[k].fingerprint # None
<1>1. PICK known \in hints[h], c \in Catalog :
        \/ queue' = [queue EXCEPT ![h] = @ \o Batch(sent', c, c)]
        \/ known # None /\ queue' = [queue EXCEPT ![h] = @ \o Delta(sent', known, c)]
  BY DEF Answer
<1>2. sent' = sent + 1 /\ sent' \in Nat /\ (known # None => known \in Catalog)
  BY CatalogAssumption DEF IInv, Types, TypeOK, Answer
<1>3. CASE queue' = [queue EXCEPT ![h] = @ \o Batch(sent', c, c)]
  <2> DEFINE r == Batch(sent', c, c)
  <2>1. c \in Catalog \cup {None} /\ c # None
    BY CatalogAssumption
  <2>2. /\ r \in Seq(Message) /\ \A k \in DOMAIN r : r[k].batch = sent'
        /\ \A k \in DOMAIN r : r[k].type = "start" => r[k].fingerprint # None
    BY <1>2, <2>1, BatchOK
  <2>3. Complete(r) /\ \A k \in DOMAIN r : r[k].type \in {"chunk", "end"} => Led(r, k)
    BY <1>2, <2>1, BatchIsWhole
  <2> HIDE DEF r
  <2>4. queue' = [queue EXCEPT ![h] = @ \o r]
    BY <1>3 DEF r
  <2> QED BY <1>2, <2>2, <2>3, <2>4
<1>4. CASE known # None /\ queue' = [queue EXCEPT ![h] = @ \o Delta(sent', known, c)]
  <2> DEFINE r == Delta(sent', known, c)
  <2>1. known \in Catalog /\ c \in Catalog
    BY <1>2, <1>4
  <2>2. r \in Seq(Message) /\ \A k \in DOMAIN r : r[k].batch = sent' /\ r[k].type = "delta"
    BY <1>2, <2>1, DeltaOK
  <2> HIDE DEF r
  <2>3. Complete(r) /\ \A k \in DOMAIN r : ~ (r[k].type \in {"chunk", "end"})
    BY <2>2 DEF Complete
  <2> QED BY <1>2, <1>4, <2>2, <2>3 DEF r
<1> QED BY <1>1, <1>3, <1>4

\* Appending a whole batch.
LEMMA AppendWhole ==
  ASSUME NEW q \in Seq(Message), NEW r \in Seq(Message), Complete(q), Complete(r)
  PROVE  /\ Complete(q \o r)
         /\ \A k \in DOMAIN q : Led(q, k) => Led(q \o r, k)
         /\ \A k \in DOMAIN r : Led(r, k) => Led(q \o r, Len(q) + k)
         /\ \A i : Pending(q, i) => Pending(q \o r, i)
<1> DEFINE w == q \o r  n == Len(q)
<1>1. /\ n \in Nat
      /\ \A k \in DOMAIN q : k \in Nat /\ k \in DOMAIN w /\ w[k] = q[k]
      /\ \A k \in DOMAIN r : k \in Nat /\ n + k \in DOMAIN w /\ w[n + k] = r[k]
      /\ \A k \in DOMAIN w : k \in DOMAIN q \/ \E j \in DOMAIN r : k = n + j /\ w[k] = r[j]
  BY AppendedFrom
<1> HIDE DEF w, n
<1>2. \A j, k \in DOMAIN r : j < k => n + j < n + k
  BY <1>1
<1>3. ASSUME NEW k \in DOMAIN w, w[k].type \in {"start", "chunk"}
      PROVE  \E l \in DOMAIN w : k < l /\ w[l].type = "end" /\ w[l].batch = w[k].batch
  <2>1. CASE k \in DOMAIN q
    BY <1>1, <1>3, <2>1 DEF Complete
  <2>2. CASE k \notin DOMAIN q
    <3>1. PICK j \in DOMAIN r : k = n + j /\ w[k] = r[j]
      BY <1>1, <2>2
    <3>2. PICK l \in DOMAIN r : j < l /\ r[l].type = "end" /\ r[l].batch = r[j].batch
      BY <1>3, <3>1 DEF Complete
    <3> QED BY <1>1, <1>2, <3>1, <3>2
  <2> QED BY <2>1, <2>2
<1>4. \A k \in DOMAIN q : Led(q, k) => Led(w, k)
  BY <1>1 DEF Led
<1>5. \A k \in DOMAIN r : Led(r, k) => Led(w, n + k)
  BY <1>1, <1>2 DEF Led
<1>6. \A i : Pending(q, i) => Pending(w, i)
  BY <1>1 DEF Pending
<1>7. Complete(w)
  BY <1>3 DEF Complete
<1> QED BY <1>4, <1>5, <1>6, <1>7 DEF w, n

LEMMA CalmAnswer ==
  ASSUME IInv, Calm, NEW h \in Host, Answer(h)
  PROVE  Calm'
<1>1. PICK r \in Seq(Message) :
        /\ queue' = [queue EXCEPT ![h] = @ \o r]
        /\ \A k \in DOMAIN r : r[k].batch = sent + 1
        /\ Complete(r)
        /\ \A k \in DOMAIN r : r[k].type \in {"chunk", "end"} => Led(r, k)
        /\ \A k \in DOMAIN r : r[k].type = "start" => r[k].fingerprint # None
  BY AnswerIsWhole
<1> DEFINE q == queue[h]  w == q \o r
<1>2. /\ q \in Seq(Message) /\ Complete(q) /\ Prepared(h)
      /\ queue'[h] = w /\ \A g \in Host \ {h} : queue'[g] = queue[g]
      /\ \A g \in Host : \A k \in DOMAIN queue[g] : queue[g][k].batch \in 1..sent
      /\ rows' = rows /\ recorded' = recorded /\ sessions' = sessions /\ tainted' = tainted
      /\ sent \in Nat
  BY <1>1, CatalogAssumption DEF Calm, IInv, Types, TypeOK, Answer, serverVars, history
<1>3. /\ Complete(w)
      /\ \A k \in DOMAIN q : Led(q, k) => Led(w, k)
      /\ \A k \in DOMAIN r : Led(r, k) => Led(w, Len(q) + k)
      /\ \A i : Pending(q, i) => Pending(w, i)
  BY <1>1, <1>2, AppendWhole
<1>4. /\ \A k \in DOMAIN q : w[k] = q[k]
      /\ \A k \in DOMAIN w : k \in DOMAIN q \/ \E j \in DOMAIN r : k = Len(q) + j /\ w[k] = r[j]
  BY <1>1, <1>2, AppendedFrom
<1> HIDE DEF w
<1>5. ASSUME NEW g \in Host PROVE Complete(queue'[g]) /\ Prepared(g)' /\ Accounted(g)'
  <2>1. Complete(queue'[g])
    BY <1>2, <1>3 DEF Calm
  <2>2. CASE g # h
    BY <1>2, <2>1, <2>2 DEF Calm, Prepared, Open, Accounted, Faithful
  <2>3. CASE g = h
    <3>1. Prepared(h)'
      <4> SUFFICES ASSUME NEW k \in DOMAIN w, w[k].type \in {"chunk", "end"}
                   PROVE  Open(h, w[k].batch) \/ Led(w, k)
        BY <1>2 DEF Prepared, Open
      <4>1. CASE k \in DOMAIN q
        BY <1>2, <1>3, <1>4, <4>1 DEF Prepared
      <4>2. CASE k \notin DOMAIN q
        BY <1>1, <1>3, <1>4, <4>2
      <4> QED BY <4>1, <4>2
    <3> QED BY <1>2, <2>1, <2>3, <3>1 DEF Calm, Accounted, Faithful
  <2> QED BY <2>2, <2>3
<1>6. Apart'
  <2>1. ASSUME NEW k \in DOMAIN w PROVE w[k].batch = sent + 1 \/ \E j \in DOMAIN q : w[k] = q[j]
    BY <1>1, <1>4
  <2>2. \A g \in Host : \A k \in DOMAIN queue[g] : queue[g][k].batch # sent + 1
    BY <1>2
  <2>3. ASSUME NEW f \in Host, NEW g \in Host, f # g, NEW j \in DOMAIN queue'[f], NEW k \in DOMAIN queue'[g]
        PROVE  queue'[f][j].batch # queue'[g][k].batch
    <3>1. CASE f = h
      BY <1>2, <2>1, <2>2, <2>3, <3>1 DEF Calm, Apart
    <3>2. CASE g = h
      BY <1>2, <2>1, <2>2, <2>3, <3>2 DEF Calm, Apart
    <3>3. CASE f # h /\ g # h
      BY <1>2, <2>3, <3>3 DEF Calm, Apart
    <3> QED BY <3>1, <3>2, <3>3
  <2> QED BY <1>2, <2>3 DEF Calm, Apart
<1>7. Awaited'
  <2> SUFFICES ASSUME NEW s \in sessions PROVE Pending(queue'[s.host], s.batch)
    BY <1>2 DEF Awaited
  <2>1. s.host \in Host /\ Pending(queue[s.host], s.batch)
    BY DEF Calm, Awaited, IInv, Types, TypeOK
  <2> QED BY <1>2, <1>3, <2>1
<1>8. Signed'
  <2> SUFFICES ASSUME NEW g \in Host, NEW k \in DOMAIN queue'[g], queue'[g][k].type = "start"
               PROVE  queue'[g][k].fingerprint # None
    BY <1>2 DEF Calm, Signed
  <2>1. CASE g # h
    BY <1>2, <2>1 DEF Calm, Signed
  <2>2. CASE g = h
    <3>1. k \in DOMAIN q \/ \E j \in DOMAIN r : w[k] = r[j]
      BY <1>2, <1>4, <2>2
    <3> QED BY <1>1, <1>2, <1>4, <2>2, <3>1 DEF Calm, Signed
  <2> QED BY <2>1, <2>2
<1> QED BY <1>2, <1>5, <1>6, <1>7, <1>8 DEF Calm

\* Without a fault the only open batch of a host is that of the head of its queue, and a
\* batch that is open has its end in the queue.
LEMMA OpenIsHead ==
  ASSUME IInv, Calm, NEW s \in sessions
  PROVE  /\ s.host \in Host /\ queue[s.host] \in Seq(Message) /\ queue[s.host] # << >>
         /\ queue[s.host][1].batch = s.batch
<1>1. Pending(queue[s.host], s.batch) /\ s.batch \notin tainted
  BY DEF Calm, Awaited
<1>2. s.host \in Host /\ queue[s.host] \in Seq(Message) /\ SessionOK(s)
  BY DEF IInv, Types, TypeOK
<1>3. queue[s.host] # << >>
  BY <1>1 DEF Pending
<1> QED BY <1>1, <1>2, <1>3 DEF SessionOK, OpenOK

\* An open batch that has more to come is not closed by the head of its queue.
LEMMA NotYetEnd ==
  ASSUME NEW q \in Seq(Message), q # << >>, QueueOK(q, {}),
         NEW k \in DOMAIN Tail(q), Tail(q)[k].type \in {"chunk", "end"}, Tail(q)[k].batch = q[1].batch
  PROVE  q[1].type \in {"start", "chunk"}
<1>1. Pending(Tail(q), q[1].batch)
  BY DEF Pending
<1> QED BY <1>1, HeadOfBatch

\* What the handlers do to sessions: they keep those of other batches ...
LEMMA SessionsKept ==
  ASSUME NEW h \in Host, NEW m, Apply(h, m), NEW s \in sessions, s.batch # m.batch
  PROVE  s \in sessions'
<1>1. CASE BatchEnd(h, m)
  BY <1>1 DEF BatchEnd
<1> QED BY <1>1 DEF Apply, BatchStart, BatchChunk, ApplyDelta, Refuse, serverVars

\* ... and one of a batch at most.
LEMMA SessionsUnique ==
  ASSUME NEW h \in Host, NEW m, Apply(h, m), \A s, t \in sessions : s.batch = t.batch => s = t
  PROVE  \A s, t \in sessions' : s.batch = t.batch => s = t
<1>1. CASE BatchStart(h, m)
  BY <1>1 DEF BatchStart
<1>2. CASE BatchEnd(h, m)
  <2>1. sessions' \subseteq sessions
    BY <1>2 DEF BatchEnd
  <2> QED BY <2>1
<1> QED BY <1>1, <1>2 DEF Apply, BatchChunk, ApplyDelta, Refuse, serverVars

LEMMA CalmHandle ==
  ASSUME IInv, IInv', Calm, NEW h \in Host, Handle(h)
  PROVE  Calm'
<1> DEFINE q == queue[h]  m == q[1]  r == Tail(q)
<1>1. /\ q \in Seq(Message) /\ q # << >> /\ m \in Message /\ m.batch \in 1..sent
      /\ Types /\ Types' /\ Apply(h, m) /\ queue' = [queue EXCEPT ![h] = Tail(@)]
      /\ tainted = {} /\ tainted' = {} /\ QueueOK(q, {}) /\ Complete(q)
  BY TailElements DEF Calm, IInv, Types, TypeOK, Handle
<1>2. /\ queue'[h] = r /\ \A g \in Host \ {h} : queue'[g] = queue[g]
      /\ 1 \in DOMAIN q
      /\ \A k \in DOMAIN r : k \in Nat /\ k + 1 \in DOMAIN q /\ 1 < k + 1 /\ r[k] = q[k + 1]
      /\ \A k \in DOMAIN q : k \in Nat /\ (k # 1 => k - 1 \in DOMAIN r /\ r[k - 1] = q[k])
  <2>1. queue'[h] = r /\ \A g \in Host \ {h} : queue'[g] = queue[g]
    BY <1>1, TailQueue
  <2>2. q \in Seq(Message) /\ q # << >>
    BY <1>1
  <2> HIDE DEF q
  <2> QED BY <2>1, <2>2, TailElements
<1>3. \A g \in Host \ {h} : rows'[g] = rows[g] /\ recorded'[g] = recorded[g]
  BY <1>1, ApplyTypes
<1>4. ASSUME NEW s \in sessions
      PROVE  s.host \in Host /\ (s.host = h <=> s.batch = m.batch)
  <2>1. s.host \in Host /\ queue[s.host] \in Seq(Message) /\ queue[s.host] # << >>
        /\ queue[s.host][1].batch = s.batch /\ 1 \in DOMAIN queue[s.host]
    BY OpenIsHead
  <2> QED BY <1>2, <2>1 DEF Calm, Apart
<1> HIDE DEF m, r, q
<1>5. \A s \in sessions : s.host # h => s \in sessions'
  BY <1>1, <1>4, SessionsKept
<1>6. m.type = "start" => \E s \in sessions' : s.host = h /\ s.batch = m.batch
  <2> SUFFICES ASSUME m.type = "start"
               PROVE  [batch |-> m.batch, host |-> h, fingerprint |-> m.fingerprint] \in sessions'
    OBVIOUS
  <2>1. BatchStart(h, m)
    BY <1>1 DEF Apply, BatchChunk, BatchEnd, ApplyDelta, Refuse
  <2> QED BY <2>1 DEF BatchStart
<1>7. m.type = "chunk" => sessions' = sessions
  BY <1>1 DEF Apply, BatchStart, BatchChunk, BatchEnd, ApplyDelta, Refuse, serverVars
<1>8. ASSUME m.type \in {"start", "chunk"} PROVE Pending(r, m.batch)
  <2>1. PICK l \in DOMAIN q : 1 < l /\ q[l].type = "end" /\ q[l].batch = m.batch
    BY <1>1, <1>2, <1>8 DEF Complete, m
  <2>2. l - 1 \in DOMAIN r /\ r[l - 1] = q[l]
    BY <1>2, <2>1
  <2> QED BY <2>1, <2>2 DEF Pending
<1>9. Complete(r)
  <2> SUFFICES ASSUME NEW k \in DOMAIN r, r[k].type \in {"start", "chunk"}
               PROVE  \E l \in DOMAIN r : k < l /\ r[l].type = "end" /\ r[l].batch = r[k].batch
    BY DEF Complete
  <2>1. PICK l \in DOMAIN q : k + 1 < l /\ q[l].type = "end" /\ q[l].batch = r[k].batch
    BY <1>1, <1>2 DEF Complete
  <2>2. l \in Nat /\ k \in Nat /\ l # 1 /\ k < l - 1
    BY <1>2, <2>1
  <2> QED BY <1>2, <2>1, <2>2
<1>10. Prepared(h)'
  <2> SUFFICES ASSUME NEW k \in DOMAIN r, r[k].type \in {"chunk", "end"}
               PROVE  (\E s \in sessions' : s.batch = r[k].batch /\ s.host = h) \/ Led(r, k)
    BY <1>2 DEF Prepared, Open
  <2>1. Open(h, r[k].batch) \/ Led(q, k + 1)
    BY <1>2 DEF Calm, Prepared, q
  <2>2. ASSUME r[k].batch = m.batch PROVE m.type \in {"start", "chunk"}
    BY <1>1, <2>2, NotYetEnd DEF m, r
  <2>3. CASE Open(h, r[k].batch)
    <3>1. PICK s \in sessions : s.batch = r[k].batch /\ s.host = h
      BY <2>3 DEF Open
    <3>2. r[k].batch = m.batch
      BY <1>4, <3>1
    <3> QED BY <1>6, <1>7, <2>2, <3>1, <3>2
  <2>4. CASE Led(q, k + 1)
    <3>1. PICK j \in DOMAIN q : j < k + 1 /\ q[j].type = "start" /\ q[j].batch = r[k].batch
      BY <1>2, <2>4 DEF Led
    <3>2. CASE j = 1
      BY <1>6, <3>1, <3>2 DEF m
    <3>3. CASE j # 1
      <4>1. j - 1 \in DOMAIN r /\ r[j - 1] = q[j] /\ j - 1 < k
        BY <1>2, <3>1, <3>3
      <4> QED BY <3>1, <4>1 DEF Led
    <3> QED BY <3>2, <3>3
  <2> QED BY <2>1, <2>3, <2>4
<1>11. Accounted(h)'
  <2> SUFFICES ASSUME recorded'[h] # None, ~ \E s \in sessions' : s.host = h
               PROVE  Faithful(h)'
    BY DEF Accounted
  <2>1. ~ BatchStart(h, m)
    BY <1>6 DEF BatchStart
  <2>2. ~ BatchChunk(h, m)
    BY DEF BatchChunk, Open
  <2>3. CASE BatchEnd(h, m)
    <3>1. h \in whole'
      BY <1>1, <2>3 DEF BatchEnd, Calm, Signed
    <3> QED BY <3>1 DEF IInv, WholeIsFaithful
  <2>4. CASE ApplyDelta(h, m)
    <3>1. Faithful(h)
      <4>1. recorded[h] # None
        BY <1>1, <2>4, MessageTypes, CatalogAssumption DEF ApplyDelta, Applicable
      <4> QED BY <2>4, <4>1 DEF Calm, Accounted, ApplyDelta
    <3>2. m.type = "delta"
      BY <2>4 DEF ApplyDelta
    <3> QED BY <1>1, <3>1, <3>2, ApplyFaithful DEF BatchStart, BatchChunk, BatchEnd
  <2>5. CASE Refuse(h, m)
    BY <2>5 DEF Refuse, serverVars, Calm, Accounted, Faithful
  <2> QED BY <1>1, <2>1, <2>2, <2>3, <2>4, <2>5 DEF Apply
<1>12. ASSUME NEW g \in Host, g # h PROVE Complete(queue'[g]) /\ Prepared(g)' /\ Accounted(g)'
  BY <1>2, <1>3, <1>5, <1>12 DEF Calm, Prepared, Open, Accounted, Faithful
<1>13. Apart'
  <2>1. \A s, t \in sessions' : s.batch = t.batch => s = t
    BY <1>1, SessionsUnique DEF Calm, Apart
  <2>2. \A g \in Host : \A j \in DOMAIN queue'[g] : \E l \in DOMAIN queue[g] : queue'[g][j] = queue[g][l]
    BY <1>1, TailQueue DEF q
  <2>3. ASSUME NEW f \in Host, NEW g \in Host, f # g, NEW j \in DOMAIN queue'[f], NEW k \in DOMAIN queue'[g]
        PROVE  queue'[f][j].batch # queue'[g][k].batch
    <3>1. PICK a \in DOMAIN queue[f] : queue'[f][j] = queue[f][a]
      BY <2>2
    <3>2. PICK b \in DOMAIN queue[g] : queue'[g][k] = queue[g][b]
      BY <2>2
    <3> QED BY <2>3, <3>1, <3>2 DEF Calm, Apart
  <2> QED BY <2>1, <2>3 DEF Apart
<1>14. Awaited'
  <2> SUFFICES ASSUME NEW s \in sessions' PROVE Pending(queue'[s.host], s.batch)
    BY DEF Awaited
  <2>1. CASE s \in sessions /\ s.host # h
    BY <1>2, <1>4, <2>1 DEF Calm, Awaited
  <2>2. CASE s \in sessions /\ s.host = h /\ ~ (m.type = "start" /\ s.batch = m.batch)
    <3>1. s.batch = m.batch /\ m.type # "start"
      BY <1>4, <2>2
    <3>2. m.type # "end"
      <4> SUFFICES ASSUME m.type = "end" PROVE FALSE
        OBVIOUS
      <4>1. BatchEnd(h, m)
        BY <1>1, <2>2, <3>1 DEF Apply, BatchStart, BatchChunk, ApplyDelta, Refuse, Open
      <4> QED BY <2>2, <3>1, <4>1 DEF BatchEnd, Calm, Apart
    <3>3. m.type # "delta"
      <4> SUFFICES ASSUME m.type = "delta" PROVE FALSE
        OBVIOUS
      <4>1. PICK k \in DOMAIN q : q[k].type \in {"chunk", "end"} /\ q[k].batch = m.batch
        BY <2>2, <3>1 DEF Calm, Awaited, Pending, q
      <4>2. k # 1
        BY <4>1 DEF m
      <4>3. k - 1 \in DOMAIN r /\ r[k - 1] = q[k]
        BY <1>2, <4>2
      <4> QED BY <1>1, <4>1, <4>3, NotYetEnd DEF m, r
    <3> QED BY <1>1, <1>2, <1>8, <2>2, <3>1, <3>2, <3>3, MessageTypes
  <2>3. CASE m.type = "start" /\ s.batch = m.batch /\ s.host = h
    BY <1>2, <1>8, <2>3
  <2> QED BY <1>1, <2>1, <2>2, <2>3, ApplySessions
<1>15. Signed'
  <2>1. m.type = "start" => m.fingerprint # None
    BY <1>2 DEF Calm, Signed, m, q
  <2>2. ASSUME NEW s \in sessions' PROVE s.fingerprint # None
    BY <1>1, <2>1, ApplySessions DEF Calm, Signed
  <2>3. ASSUME NEW k \in DOMAIN r, r[k].type = "start" PROVE r[k].fingerprint # None
    BY <1>2, <2>3 DEF Calm, Signed, q
  <2> QED BY <1>2, <2>2, <2>3 DEF Calm, Signed
<1> QED BY <1>1, <1>2, <1>9, <1>10, <1>11, <1>12, <1>13, <1>14, <1>15 DEF Calm

\* A fault is counted, and nothing takes it back.
CalmUnlessFaults == faults = 0 => Calm

LEMMA CalmStep ==
  ASSUME IInv, IInv', CalmUnlessFaults, [Next]_vars
  PROVE  CalmUnlessFaults'
<1> SUFFICES ASSUME faults' = 0 PROVE Calm'
  BY DEF CalmUnlessFaults
<1>0. faults \in Nat /\ faults' # faults + 1
  BY DEF IInv, Types, TypeOK
<1>1. ASSUME NEW h \in Host, Answer(h) PROVE Calm'
  BY <1>1, CalmAnswer DEF Answer, CalmUnlessFaults
<1>2. ASSUME NEW h \in Host, Handle(h) PROVE Calm'
  BY <1>2, CalmHandle DEF Handle, CalmUnlessFaults
<1>3. CASE UNCHANGED vars
  BY <1>3 DEF CalmUnlessFaults, Calm, Signed, Complete, Prepared, Led, Open, Accounted, Faithful, Apart,
              Awaited, Pending, vars, serverVars, history
<1> QED
  BY <1>0, <1>1, <1>2, <1>3 DEF Next, AnswerUnsigned, HandlerFails, HandleUncompleted,
                               HandleOutOfOrder, Restart, Fault

LEMMA CalmInitially == Init => CalmUnlessFaults
<1> SUFFICES ASSUME Init PROVE Calm
  BY DEF CalmUnlessFaults
<1>1. \A h \in Host : DOMAIN queue[h] = {} /\ recorded[h] = None
  BY DEF Init
<1> QED BY <1>1 DEF Init, Calm, Signed, Complete, Prepared, Accounted, Apart, Awaited

LEMMA AlwaysCalm == Spec => []CalmUnlessFaults
<1>1. IInv /\ IInv' /\ CalmUnlessFaults /\ [Next]_vars => CalmUnlessFaults'
  BY CalmStep
<1> QED BY <1>1, CalmInitially, Invariant, PTL DEF Spec

\* handle_packages_batch_end: as long as no fault happens the comment is right.  The server
\* claims a catalog it does not have only while messages of the host are still to come.
ClaimsUnlessFaults == faults = 0 => ClaimsWhatItHas

\* As long as no fault happens the server claims no catalog it does not have.
THEOREM OnlyFaultsMakeFalseClaims == Spec => []ClaimsUnlessFaults
<1>1. IInv /\ CalmUnlessFaults => ClaimsUnlessFaults
  <2> SUFFICES ASSUME IInv, Calm, NEW h \in Host, recorded[h] # None, queue[h] = << >>
               PROVE  Faithful(h)
    BY DEF CalmUnlessFaults, ClaimsUnlessFaults, ClaimsWhatItHas
  <2>1. \A s \in sessions : s.host # h
    BY OpenIsHead
  <2> QED BY <2>1 DEF Calm, Accounted
<1> QED BY <1>1, Invariant, AlwaysCalm, PTL

\* handle_packages_batch, _end: as long as no fault happens no message of a batch is refused,
\* whatever the batches of other hosts do, and ...
NothingRefused ==
  faults = 0 => \A h \in Host :
    /\ queue[h] # << >>
    /\ Head(queue[h]).type \in {"chunk", "end"}
    => Open(h, Head(queue[h]).batch)

\* ... _batch_sessions has at most one entry per host, that of the batch at the head of its
\* queue: nothing stays behind in it.
NoSessionStays ==
  faults = 0 =>
    /\ \A s, t \in sessions : s.host = t.host => s = t
    /\ \A s \in sessions : queue[s.host] # << >> /\ Head(queue[s.host]).batch = s.batch

\* As long as no fault happens no chunk or end is refused and no batch session leaks.
THEOREM WithoutFaultsBatchesRunThrough == Spec => [](NothingRefused /\ NoSessionStays)
<1>1. IInv /\ CalmUnlessFaults => NothingRefused
  <2> SUFFICES ASSUME IInv, Calm, NEW h \in Host, queue[h] # << >>,
                      Head(queue[h]).type \in {"chunk", "end"}
               PROVE  Open(h, Head(queue[h]).batch)
    BY DEF CalmUnlessFaults, NothingRefused
  <2>1. /\ Head(queue[h]) = queue[h][1] /\ 1 \in DOMAIN queue[h]
        /\ \A j \in DOMAIN queue[h] : j \in Nat /\ j >= 1
    BY TailElements DEF IInv, Types
  <2>2. ~ Led(queue[h], 1)
    BY <2>1 DEF Led
  <2> QED BY <2>1, <2>2 DEF Calm, Prepared
<1>2. IInv /\ CalmUnlessFaults => NoSessionStays
  <2> SUFFICES ASSUME IInv, Calm PROVE
        /\ \A s, t \in sessions : s.host = t.host => s = t
        /\ \A s \in sessions : queue[s.host] # << >> /\ Head(queue[s.host]).batch = s.batch
    BY DEF CalmUnlessFaults, NoSessionStays
  <2>1. \A s \in sessions : queue[s.host] # << >> /\ queue[s.host][1].batch = s.batch
        /\ Head(queue[s.host]) = queue[s.host][1]
    BY OpenIsHead, TailElements
  <2> QED BY <2>1 DEF Calm, Apart
<1> QED BY <1>1, <1>2, Invariant, AlwaysCalm, PTL
=============================================================================
