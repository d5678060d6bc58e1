--------------------------- MODULE EnvelopeStore ---------------------------
(***************************************************************************)
(* The envelope queue of ONE recipient, as server/internal/db/envelopes.go *)
(* keeps it in PostgreSQL.  Every statement of that file is scoped by      *)
(* recipient_id, so the queues of two recipients do not interact.          *)
(***************************************************************************)
EXTENDS Names

CONSTANTS
  MaxQueuedPerRecipient,  \* envelopes.go: 10000
  MaxEnvelopesPerFetch,   \* envelopes.go: 100
  SweepBatchSize,         \* sweep.go: 1000
  PoolConns               \* database connections the pool hands out at once

ASSUME StoreAssumption ==
  /\ MaxQueuedPerRecipient \in Nat \ {0}
  /\ MaxEnvelopesPerFetch \in Nat \ {0}
  /\ SweepBatchSize \in Nat \ {0}
  /\ PoolConns \in Nat \ {0}

VARIABLES
  phase,    \* how far the StoreEnvelope call of each envelope has come
  rows,     \* rows of the table for this recipient
  expired   \* envelopes whose expires_at is not after now()

storeVars == <<phase, rows, expired>>

Phase == {"unsent", "counted", "committed", "refused", "failed"}

StoreTypeOK ==
  /\ phase \in [Envelope -> Phase]
  /\ rows \in SUBSET Envelope
  /\ expired \in SUBSET Envelope

InPhase(p) == {e \in Envelope : phase[e] = p}

(* What every reader of the queue selects: expires_at > now(). *)
Live == rows \ expired

(* Mutant: a page that starts after the oldest row. *)
FetchPageSkipsOldest ==
  {e \in Live : Cardinality({f \in Live : f < e}) \in 1 .. MaxEnvelopesPerFetch}

(* SELECT ... ORDER BY created_at, id LIMIT MaxEnvelopesPerFetch: the       *)
(* oldest envelopes.  The page is kept as a set, its order is that of the  *)
(* envelope numbers.                                                       *)
FetchPage ==
  {e \in Live : Cardinality({f \in Live : f < e}) < MaxEnvelopesPerFetch}

StoreInit ==
  /\ phase = [e \in Envelope |-> "unsent"]
  /\ rows = {}
  /\ expired = {}

-----------------------------------------------------------------------------
(* Mutant: the cap compared with > instead of >=. *)
BeginStoreOffByOne(e) ==
  /\ phase[e] = "unsent"
  /\ \A f \in Envelope : f < e => phase[f] # "unsent"
  /\ Cardinality(InPhase("counted")) < PoolConns
  /\ phase' = [phase EXCEPT ![e] =
       IF Cardinality(Live) > MaxQueuedPerRecipient THEN "refused" ELSE "counted"]
  /\ UNCHANGED <<rows, expired>>

(* BEGIN, resolve the recipient, count the live rows and compare with the  *)
(* cap.  Nothing is locked: under READ COMMITTED the count sees the rows   *)
(* committed so far and no other transaction waits for it.                 *)
BeginStore(e) ==
  /\ phase[e] = "unsent"
  /\ \A f \in Envelope : f < e => phase[f] # "unsent"
  /\ Cardinality(InPhase("counted")) < PoolConns
  /\ phase' = [phase EXCEPT ![e] =
       IF Cardinality(Live) >= MaxQueuedPerRecipient THEN "refused" ELSE "counted"]
  /\ UNCHANGED <<rows, expired>>

(* INSERT and COMMIT: the row becomes visible to everybody. *)
CommitStore(e) ==
  /\ phase[e] = "counted"
  /\ phase' = [phase EXCEPT ![e] = "committed"]
  /\ rows' = rows \cup {e}
  /\ UNCHANGED expired

(* Any error after BEGIN: the deferred Rollback undoes the transaction. *)
AbortStore(e) ==
  /\ phase[e] = "counted"
  /\ phase' = [phase EXCEPT ![e] = "failed"]
  /\ UNCHANGED <<rows, expired>>

(* The clock passes expires_at, EnvelopeTTL after the insert. *)
Expire(e) ==
  /\ e \in Live
  /\ expired' = expired \cup {e}
  /\ UNCHANGED <<phase, rows>>

(* DELETE ... WHERE recipient_id = $1 AND id = ANY($2): ids without a row  *)
(* match nothing.                                                          *)
AcknowledgeEnvelopes(ids) ==
  /\ rows' = rows \ ids
  /\ UNCHANGED <<phase, expired>>

(* Mutant: the sweep without its expires_at condition. *)
SweepAnything ==
  /\ \E e \in rows : rows' = rows \ {e}
  /\ UNCHANGED <<phase, expired>>

(* One batch of the sweep: as many expired rows as the batch holds. *)
SweepEnvelopes ==
  /\ \E batch \in SUBSET (rows \cap expired) :
       /\ batch # {}
       /\ Cardinality(batch) <= SweepBatchSize
       /\ Cardinality(batch) = SweepBatchSize \/ batch = rows \cap expired
       /\ rows' = rows \ batch
  /\ UNCHANGED <<phase, expired>>

-----------------------------------------------------------------------------
(* The count in StoreEnvelope and the insert that follows it are separate  *)
(* statements, so concurrent submissions can each see room for one more.   *)
(* What the code guarantees is that the overshoot is at most one row for   *)
(* each further transaction the connection pool lets run at the same time. *)
QueueOvershootBounded ==
  Cardinality(Live) <= MaxQueuedPerRecipient + PoolConns - 1

=============================================================================
