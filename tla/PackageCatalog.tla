--------------------------- MODULE PackageCatalog ---------------------------
(***************************************************************************)
(* The catalog of packages a host offers, kept by the server as rows       *)
(* scoped to the host.  The agent sends it whole, as a batch of messages   *)
(* (start, one chunk after the other, end), or as a delta to a catalog the *)
(* server said it holds.  The server remembers a fingerprint of what it    *)
(* holds and hands it out with every request for a catalog: an agent whose *)
(* catalog has that fingerprint sends nothing.                             *)
(*                                                                         *)
(* Modelled code: backend/api/package_handlers.py.  The messages arrive    *)
(* through the inbound queue, see InboundProcessing: they may be handled   *)
(* out of order, once more after the completion of their row was rolled    *)
(* back, or lost to an error the handler catches.  The agent is external.  *)
(* A fingerprint determines its catalog and is modelled by it; a batch may *)
(* come without one, a delta names the one it leads to.  A host has one    *)
(* package manager, and a chunk one package.                               *)
(***************************************************************************)
EXTENDS Naturals, FiniteSets, SequencesExt

CONSTANTS
  Host,       \* hosts, all of the same operating system
  Package,    \* <<name, version>> pairs
  None,       \* no fingerprint: NULL
  MaxSends,   \* bound on the batches and deltas the agents send
  MaxFaults,  \* bound on the faults
  Faults      \* the kinds of faults of this instance

FaultKind == {"error", "repeat", "reorder", "restart", "unsigned"}

Name(p) == p[1]

\* At most one version of a package.
Catalog == {c \in SUBSET Package : \A p, q \in c : Name(p) = Name(q) => p = q}

ASSUME CatalogAssumption ==
  /\ IsFiniteSet(Package)
  /\ None \notin Package
  /\ \A c \in Catalog : c # None
  /\ MaxSends \in Nat
  /\ MaxFaults \in Nat
  /\ Faults \subseteq FaultKind

VARIABLES
  rows,      \* how many rows the server has for a package of a host
  recorded,  \* available_packages_fingerprint of a host
  sessions,  \* _batch_sessions, in memory
  queue,     \* the rows of the inbound queue, per host, in the order they were sent
  sent,      \* batches and deltas sent so far
  hints,     \* fingerprints handed to the agent of a host so far
  faults,    \* faults so far
  tainted,   \* history: batches a fault has touched, or that have no fingerprint
  whole      \* history: hosts whose last batch was handled from start to end, untouched

serverVars == <<rows, recorded, sessions>>
history == <<tainted, whole>>
vars == <<serverVars, queue, sent, hints, faults, history>>

Init ==
  /\ rows = [h \in Host |-> [p \in Package |-> 0]]
  /\ recorded = [h \in Host |-> None]
  /\ sessions = {}
  /\ queue = [h \in Host |-> << >>]
  /\ sent = 0
  /\ hints = [h \in Host |-> {None}]
  /\ faults = 0
  /\ tainted = {}
  /\ whole = {}

-----------------------------------------------------------------------------
(* The agent.                                                              *)

\* A batch of catalog c that names fingerprint f, or None.
Batch(i, c, f) ==
  LET chunk(p) == [type |-> "chunk", batch |-> i, package |-> p] IN
     <<[type |-> "start", batch |-> i, fingerprint |-> f]>>
  \o [k \in 1..Cardinality(c) |-> chunk(SetToSeq(c)[k])]
  \o <<[type |-> "end", batch |-> i]>>

Delta(i, base, c) == <<[type |-> "delta", batch |-> i, base |-> base, fingerprint |-> c]>>

\* External: the agent answers a request for its catalog, made at any time before.
Answer(h) ==
  /\ sent < MaxSends
  /\ sent' = sent + 1
  /\ \E known \in hints[h] : \E c \in Catalog \ {known} :
       \/ queue' = [queue EXCEPT ![h] = @ \o Batch(sent', c, c)]
       \/ known # None /\ queue' = [queue EXCEPT ![h] = @ \o Delta(sent', known, c)]
  /\ UNCHANGED <<serverVars, hints, faults, history>>

-----------------------------------------------------------------------------
(* The handlers.                                                           *)

Open(h, i) == \E s \in sessions : s.batch = i /\ s.host = h

\* Mutation: the rows of the operating system are deleted.
ClearedForAll(h) == [k \in Host |-> [p \in Package |-> 0]]

\* The rows of this host are deleted.
Cleared(h) == [rows EXCEPT ![h] = [p \in Package |-> 0]]

\* The fingerprint of the batch is kept for its end; the recorded one stays.
BatchStart(h, m) ==
  /\ m.type = "start"
  /\ rows' = Cleared(h)
  /\ sessions' = {s \in sessions : s.batch # m.batch}
                   \cup {[batch |-> m.batch, host |-> h, fingerprint |-> m.fingerprint]}
  /\ whole' = whole \ {h}
  /\ UNCHANGED recorded

\* A row is added for every package of the chunk.
BatchChunk(h, m) ==
  /\ m.type = "chunk"
  /\ Open(h, m.batch)
  /\ rows' = [rows EXCEPT ![h][m.package] = @ + 1]
  /\ whole' = whole \ {h}
  /\ UNCHANGED <<recorded, sessions>>

\* The fingerprint is recorded, if the batch came with one, and the session is forgotten.
BatchEnd(h, m) ==
  /\ m.type = "end"
  /\ \E s \in sessions :
       /\ s.batch = m.batch /\ s.host = h
       /\ recorded' = [recorded EXCEPT ![h] = IF s.fingerprint = None THEN @ ELSE s.fingerprint]
       /\ sessions' = sessions \ {s}
       /\ whole' = IF m.batch \in tainted' \/ s.fingerprint = None
                   THEN whole \ {h} ELSE whole \cup {h}
  /\ UNCHANGED rows

\* Mutation: the base is not compared.
ApplicableToAny(h, m) == TRUE

\* A delta applies to the catalog it was computed against.
Applicable(h, m) == m.base # None /\ m.base = recorded[h]

\* Mutation: an update that does not look whether there is a row.
VersionsUnchecked(h, n) == {p \in Package : Name(p) = n}

\* The versions of a package the host has rows for.
Versions(h, n) == {p \in Package : Name(p) = n /\ rows[h][p] > 0}

\* _upsert_package: what a put updates, any row of that name (the query does not say which
\* when a repeated chunk has left several), or None when it adds a row.
Updated(h, p) == IF Versions(h, Name(p)) = {} THEN {None} ELSE Versions(h, Name(p))

\* Each put turns one row into the new version, or adds it.
WithPuts(r, puts, old) ==
  [q \in Package |-> r[q] + (IF q \in puts THEN 1 ELSE 0)
                          - Cardinality({p \in puts : old[p] = q})]

\* _apply_takes: every row of a name that is gone is deleted.
WithoutTakes(r, names) == [p \in Package |-> IF Name(p) \in names THEN 0 ELSE r[p]]

ApplyDelta(h, m) ==
  LET puts == m.fingerprint \ m.base
      takes == {Name(p) : p \in m.base} \ {Name(p) : p \in m.fingerprint}
  IN  /\ m.type = "delta"
      /\ Applicable(h, m)
      /\ \E old \in {f \in [puts -> Package \cup {None}] : \A p \in puts : f[p] \in Updated(h, p)} :
           rows' = [rows EXCEPT ![h] = WithPuts(WithoutTakes(@, takes), puts, old)]
      /\ recorded' = [recorded EXCEPT ![h] = m.fingerprint]
      /\ UNCHANGED <<sessions, whole>>

\* A message the handler refuses: its batch is not open, its base is not the one held.
Refuse(h, m) ==
  /\ \/ m.type \in {"chunk", "end"} /\ ~Open(h, m.batch)
     \/ m.type = "delta" /\ ~Applicable(h, m)
  /\ UNCHANGED <<serverVars, whole>>

Apply(h, m) ==
  BatchStart(h, m) \/ BatchChunk(h, m) \/ BatchEnd(h, m) \/ ApplyDelta(h, m) \/ Refuse(h, m)

-----------------------------------------------------------------------------
(* The inbound queue.                                                      *)

\* The fingerprints recorded now may be handed out from now on.
Hand == hints' = [h \in Host |-> hints[h] \cup {recorded'[h]}]

Fault(kind) ==
  /\ kind \in Faults
  /\ faults < MaxFaults
  /\ faults' = faults + 1

\* External: an agent that knows no fingerprints sends its catalog.
AnswerUnsigned(h) ==
  /\ Fault("unsigned")
  /\ sent < MaxSends
  /\ sent' = sent + 1
  /\ \E c \in Catalog : queue' = [queue EXCEPT ![h] = @ \o Batch(sent', c, None)]
  /\ tainted' = tainted \cup {sent'}
  /\ UNCHANGED <<serverVars, hints, whole>>

Handle(h) ==
  /\ queue[h] # << >>
  /\ UNCHANGED <<sent, faults, tainted>>
  /\ Apply(h, Head(queue[h]))
  /\ queue' = [queue EXCEPT ![h] = Tail(@)]
  /\ Hand

\* The handler catches an error and rolls back.  The message counts as processed.
HandlerFails(h) ==
  /\ Fault("error")
  /\ queue[h] # << >>
  /\ LET m == Head(queue[h]) IN
       tainted' = IF m.type = "chunk" THEN tainted \cup {m.batch} ELSE tainted
  /\ queue' = [queue EXCEPT ![h] = Tail(@)]
  /\ UNCHANGED <<serverVars, sent, hints, whole>>

\* The completion of the row is rolled back after the handler's commit: the message
\* stays and is handled again.
HandleUncompleted(h) ==
  /\ Fault("repeat")
  /\ queue[h] # << >>
  /\ LET m == Head(queue[h]) IN
       /\ tainted' = IF m.type = "chunk" THEN tainted \cup {m.batch} ELSE tainted
       /\ Apply(h, m)
  /\ Hand
  /\ UNCHANGED <<queue, sent>>

\* The query has no ORDER BY: a message is handled before an older one.
HandleOutOfOrder(h) ==
  /\ Fault("reorder")
  /\ tainted' = tainted \cup {queue[h][k].batch : k \in DOMAIN queue[h]}
                        \cup {s.batch : s \in sessions}
  /\ \E k \in 2..Len(queue[h]) :
       /\ Apply(h, queue[h][k])
       /\ queue' = [queue EXCEPT ![h] = RemoveAt(@, k)]
  /\ Hand
  /\ UNCHANGED sent

\* The server restarts: the batch sessions are gone.
Restart ==
  /\ Fault("restart")
  /\ sessions' = {}
  /\ UNCHANGED <<rows, recorded, queue, sent, hints, history>>

Next ==
  \/ \E h \in Host : \/ Answer(h)
                     \/ AnswerUnsigned(h)
                     \/ Handle(h)
                     \/ HandlerFails(h)
                     \/ HandleUncompleted(h)
                     \/ HandleOutOfOrder(h)
  \/ Restart

Spec == Init /\ [][Next]_vars

-----------------------------------------------------------------------------
(* Properties.                                                             *)

TypeOK ==
  /\ rows \in [Host -> [Package -> Nat]]
  /\ recorded \in [Host -> Catalog \cup {None}]
  /\ \A s \in sessions : s.batch \in 1..sent /\ s.host \in Host /\ s.fingerprint \in Catalog \cup {None}
  /\ \A h \in Host : \A k \in DOMAIN queue[h] : queue[h][k].batch \in 1..sent
  /\ sent \in 0..MaxSends
  /\ \A h \in Host : hints[h] \subseteq Catalog \cup {None}
  /\ faults \in 0..MaxFaults
  /\ tainted \subseteq 1..sent
  /\ whole \subseteq Host

\* The rows of a host are its recorded catalog, each package once.
Faithful(h) ==
  recorded[h] # None /\ \A p \in Package : rows[h][p] = IF p \in recorded[h] THEN 1 ELSE 0

\* A batch with a fingerprint, handled from start to end without a fault, leaves exactly
\* what that says, whatever was there before and whatever other hosts send meanwhile, and
\* it stays so under any number of deltas, stale, repeated or out of order, until the next
\* batch.
WholeIsFaithful == \A h \in whole : Faithful(h)

\* Whatever goes wrong, what the server holds and what it says it holds come apart only
\* while a batch of the host is under way: no delta, no restart and no message of another
\* host makes a true fingerprint false.
OnlyBatchesBreak ==
  [][\A h \in Host :
       Faithful(h) /\ ~Faithful(h)' => \E s \in sessions \cup sessions' : s.host = h]_vars

-----------------------------------------------------------------------------
(* What the code's comments say of the program, and the program does not do. *)

\* handle_packages_batch_end: a batch that failed part-way does not leave the server
\* claiming a catalog it does not have.
ClaimsWhatItHas ==
  \A h \in Host : recorded[h] # None /\ queue[h] = << >> => Faithful(h)
=============================================================================
