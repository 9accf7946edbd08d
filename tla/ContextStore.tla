---------------------------- MODULE ContextStore ----------------------------
(***************************************************************************)
(* The durable context store (store.py): the session rows with their       *)
(* revision and contract payload, the turn reservations, the saved         *)
(* answers per request id and the result-memory outbox.  Every operator    *)
(* below is one database transaction; TurnService interleaves them.        *)
(*                                                                         *)
(* The payload of a session is abstracted to the sequence of turns that    *)
(* were reduced into it: its length is the revision column, its i-th       *)
(* element the i-th row of the append-only mutation journal.  What a turn  *)
(* does to the conversation is the subject of DialogContext.               *)
(*                                                                         *)
(* Tables are sets of rows.  The two durable backends differ in what the   *)
(* constants say: PostgreSQL reservations carry a time to live and result  *)
(* memory goes through an outbox; the SQLite store has neither.            *)
(***************************************************************************)
EXTENDS Naturals, Sequences, FiniteSets

CONSTANTS
  Session,      \* session ids
  Request,      \* request ids, chosen by the clients
  Call,         \* HTTP handler invocations; each serves one request
  Bundle,       \* metadata bundles a deployment may serve
  Postgres,     \* TRUE: PostgresContextStore, FALSE: SQLiteContextStore
  HasMemory,    \* TRUE: result memory (pgvector) is enabled
  DrainLimit    \* rows the start-up replay of the outbox reads (100)

ASSUME StoreAssumption ==
  /\ Postgres \in BOOLEAN
  /\ HasMemory \in BOOLEAN
  /\ DrainLimit \in Nat \ {0}
  /\ Bundle # {}

VARIABLES
  status,        \* session row: not yet created, active, or deleted
  meta,          \* metadata bundle the session was created under
  payload,       \* turns reduced into the session's contract, in order
  reservations,  \* context_turn_reservations
  results,       \* context_request_results
  outbox         \* result_memory_outbox in created_at order (PostgreSQL only)

storeVars == <<status, meta, payload, reservations, results, outbox>>

-----------------------------------------------------------------------------
(* Rows *)

\* A reduced turn: the request that caused it, the revision of the snapshot
\* the processor worked from, and whether it carries facts for result memory.
Turn == [req: Request, basis: Nat, facts: BOOLEAN]

\* A reservation.  `owner` is a history field: the row itself only knows the
\* request id, and release() matches on that.
Reservation == [sess: Session, req: Request, expired: BOOLEAN, owner: Call]

\* A saved answer names the revision it reported.
Result == [sess: Session, req: Request, rev: Nat]

OutboxRow == [sess: Session, rev: Nat, delivered: BOOLEAN]

StoreTypeOK ==
  /\ status \in [Session -> {"absent", "active", "deleted"}]
  /\ meta \in [Session -> Bundle]
  /\ payload \in [Session -> Seq(Turn)]
  /\ reservations \subseteq Reservation
  /\ results \subseteq Result
  /\ outbox \in Seq(OutboxRow)

StoreInit ==
  /\ status = [s \in Session |-> "absent"]
  /\ meta = [s \in Session |-> CHOOSE b \in Bundle : TRUE]
  /\ payload = [s \in Session |-> <<>>]
  /\ reservations = {}
  /\ results = {}
  /\ outbox = <<>>

-----------------------------------------------------------------------------
(* Reading *)

Revision(s) == Len(payload[s])

Active(s) == status[s] = "active"

\* Fault: the reservation table without expires_at.
ReservationsNeverExpire == FALSE

HasTtl == Postgres

HasOutbox == Postgres

\* Fault: the lookup's WHERE clause forgets the request, or the session.
AnyResultOfSession(s, r) == {x \in results : x.sess = s}
AnyResultOfRequest(s, r) == {x \in results : x.req = r}

\* get_request_result: the saved answer of (session, request), if any.
\* Neither backend asks whether the session is still active.
RequestResult(s, r) == {x \in results : x.sess = s /\ x.req = r}

\* Fault: the clearing DELETE without its expires_at condition.
AllReservations(s) == {x \in reservations : x.sess = s}

\* Reservation rows reserve() clears before it inserts its own.
ExpiredReservations(s) == {x \in reservations : x.sess = s /\ x.expired}

\* PRIMARY KEY (session_id) and UNIQUE (request_id): a row of any session
\* with the same request id is in the way, expired or not.
Blocking(s, r, rows) == {x \in rows : x.sess = s \/ x.req = r}

\* pending_memory_writes: the positions of the oldest DrainLimit undelivered
\* rows, of active and of deleted sessions alike.
PendingMemoryWrites ==
  LET pending == {i \in 1..Len(outbox) : ~outbox[i].delivered}
  IN  {i \in pending : Cardinality({j \in pending : j < i}) < DrainLimit}

-----------------------------------------------------------------------------
(* Writing *)

\* create: a fresh session under the metadata bundle b.
StoreCreate(s, b) ==
  /\ status[s] = "absent"
  /\ status' = [status EXCEPT ![s] = "active"]
  /\ meta' = [meta EXCEPT ![s] = b]
  /\ UNCHANGED <<payload, reservations, results, outbox>>

\* The INSERT of reserve(): rows cleared by the same transaction are gone.
StoreInsertReservation(s, r, c, cleared) ==
  /\ reservations' = (reservations \ cleared) \cup
       {[sess |-> s, req |-> r, expired |-> FALSE, owner |-> c]}
  /\ UNCHANGED <<status, meta, payload, results, outbox>>

\* release: by session and request id, whoever inserted the row.
StoreRelease(s, r) ==
  /\ reservations' = {x \in reservations : ~(x.sess = s /\ x.req = r)}
  /\ UNCHANGED <<status, meta, payload, results, outbox>>

\* Fault: an upsert, ON CONFLICT DO UPDATE.
StoreOverwriteResult(s, r, n) ==
  /\ results' = (results \ RequestResult(s, r)) \cup {[sess |-> s, req |-> r, rev |-> n]}
  /\ UNCHANGED <<status, meta, payload, reservations, outbox>>

\* save_request_result: ON CONFLICT DO NOTHING / INSERT OR IGNORE.
StoreSaveResult(s, r, n) ==
  /\ results' = IF RequestResult(s, r) = {}
                THEN results \cup {[sess |-> s, req |-> r, rev |-> n]}
                ELSE results
  /\ UNCHANGED <<status, meta, payload, reservations, outbox>>

\* The outbox INSERT of commit(), in the same transaction.
OutboxInsert(s, n, facts) ==
  outbox' = IF HasOutbox /\ facts
            THEN Append(outbox, [sess |-> s, rev |-> n, delivered |-> FALSE])
            ELSE outbox

\* Fault: the session is selected without `deleted_at IS NULL`.
CanCommitDeleted(s, expected) == Revision(s) = expected

\* commit: compare-and-set on the revision, reduction, journal and outbox.
CanCommit(s, expected) == Active(s) /\ Revision(s) = expected

StoreCommit(s, turn) ==
  /\ payload' = [payload EXCEPT ![s] = Append(@, turn)]
  /\ OutboxInsert(s, Revision(s) + 1, turn.facts)
  /\ UNCHANGED <<status, meta, reservations, results>>

\* complete_memory_write
StoreCompleteMemory(s, n) ==
  /\ outbox' = [i \in 1..Len(outbox) |->
                  IF outbox[i].sess = s /\ outbox[i].rev = n
                  THEN [outbox[i] EXCEPT !.delivered = TRUE]
                  ELSE outbox[i]]
  /\ UNCHANGED <<status, meta, payload, reservations, results>>

\* delete: soft (deleted_at) in PostgreSQL, a row delete in SQLite, where the
\* declared ON DELETE CASCADE is inert (PRAGMA foreign_keys is never set).
StoreDelete(s) ==
  /\ status' = [status EXCEPT ![s] = "deleted"]
  /\ UNCHANGED <<meta, payload, reservations, results, outbox>>

\* A PostgreSQL reservation passes its expires_at.
StoreExpire(row) ==
  /\ HasTtl
  /\ row \in reservations
  /\ ~row.expired
  /\ reservations' = (reservations \ {row}) \cup {[row EXCEPT !.expired = TRUE]}
  /\ UNCHANGED <<status, meta, payload, results, outbox>>
=============================================================================
