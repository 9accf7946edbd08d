----------------------------- MODULE TurnService -----------------------------
(***************************************************************************)
(* BalanceChatService (service.py) over the context store and the pgvector *)
(* result memory, run by one or more service processes: execute_turn and   *)
(* delete_session as sequences of separately committed steps, process      *)
(* start-up with the outbox replay of bootstrap.py, crashes, reservations  *)
(* that outlive their time to live, and store or memory calls that fail    *)
(* before or after they took effect.                                       *)
(***************************************************************************)
EXTENDS ContextStore

CONSTANTS
  Process,   \* service processes sharing the store
  Faults     \* steps whose store or memory call may fail; "crash": processes may die

ASSUME FaultsAssumption ==
  Faults \subseteq {"cache", "reserve", "insert", "load", "process", "commit",
                    "persist", "complete", "save", "release", "delete", "purge",
                    "replay", "crash"}

VARIABLES
  memory,    \* result memory: the (session, revision) pairs it holds
  phase,     \* process life cycle
  bundle,    \* metadata bundle a process serves
  queue,     \* positions of the outbox rows a starting process has still to replay
  pc,        \* where a call is in its handler
  job,       \* what a call was asked to do
  seen,      \* revision of the snapshot handed to the processor
  facts,     \* whether the processor produced facts for result memory
  rev,       \* revision the call committed (0: none) or replayed
  cleared,   \* expired reservation rows the open reserve() transaction deleted
  outcome,   \* what the client is told; "none" while undecided
  overrun    \* history: calls whose reservation expired while they worked

callVars == <<pc, job, seen, facts, rev, cleared, outcome, overrun>>
procVars == <<phase, bundle, queue>>
vars == <<storeVars, memory, procVars, callVars>>

-----------------------------------------------------------------------------
(* Calls *)

TurnJob == [kind: {"turn"}, proc: Process, sess: Session, req: Request, exp: Nat]
DeleteJob == [kind: {"delete"}, proc: Process, sess: Session]
NoJob == [kind |-> "none"]

\* Between Acquire and Unlock a call holds its process's lock on the session.
Locked == {"load", "process", "commit", "persist", "complete", "save",
           "delete", "purge", "unlock"}

\* Between a successful reserve() and release() the handler's `reserved` flag is set.
Reserving == {"lock", "load", "process", "commit", "persist", "complete", "save",
              "unlock", "release"}

\* The part of a turn that reads the conversation, runs the processor and
\* writes the conversation back.
Working == {"process", "commit", "persist", "complete", "save"}

\* Steps only a turn, and only a delete, goes through.
OnTurn == {"cache", "reserve", "insert", "lock", "load", "process", "commit",
           "persist", "complete", "save", "release"}
OnDelete == {"dlock", "delete", "purge"}

Labels == Locked \cup Reserving \cup
          {"idle", "cache", "reserve", "insert", "dlock", "done"}

Outcomes == {"none", "ok", "replayed", "conflict", "in_progress", "not_found",
             "mismatch", "processing_error", "store_error", "memory_error",
             "not_deleted", "lost"}

Live(c) == pc[c] \notin {"idle", "done"}

\* Fault: acquire() without `with`; an exception leaves the lock taken.
LockFreeUnlessRaised(p, s) ==
  \A c \in Call : ~(/\ pc[c] \in Locked \/ (pc[c] = "done" /\ outcome[c] = "mismatch")
                    /\ job[c].proc = p /\ job[c].sess = s)

\* The per-session lock of one process (_session_lock): an RLock, taken by one
\* call at a time.
LockFree(p, s) ==
  \A c \in Call : ~(pc[c] \in Locked /\ job[c].proc = p /\ job[c].sess = s)

\* A reserve() transaction that deleted expired rows keeps them locked until
\* it ends; another DELETE of one of them waits.
RowLocked(row) == \E c \in Call : pc[c] = "insert" /\ row \in cleared[c]

ProcessTypeOK ==
  /\ memory \subseteq [sess: Session, rev: Nat]
  /\ phase \in [Process -> {"down", "replay", "complete", "up"}]
  /\ bundle \in [Process -> Bundle]
  /\ queue \in [Process -> SUBSET (1..Len(outbox))]

CallTypeOK ==
  /\ pc \in [Call -> Labels]
  /\ job \in [Call -> TurnJob \cup DeleteJob \cup {NoJob}]
  /\ \A c \in Call :
       /\ pc[c] \in OnTurn => job[c] \in TurnJob
       /\ pc[c] \in OnDelete => job[c] \in DeleteJob
       /\ pc[c] = "unlock" => job[c] \in TurnJob \cup DeleteJob
  /\ seen \in [Call -> Nat]
  /\ facts \in [Call -> BOOLEAN]
  /\ rev \in [Call -> Nat]
  /\ cleared \in [Call -> SUBSET Reservation]
  /\ outcome \in [Call -> Outcomes]
  /\ overrun \subseteq Call

TypeOK == StoreTypeOK /\ ProcessTypeOK /\ CallTypeOK

Init ==
  /\ StoreInit
  /\ memory = {}
  /\ phase = [p \in Process |-> "down"]
  /\ bundle = [p \in Process |-> CHOOSE b \in Bundle : TRUE]
  /\ queue = [p \in Process |-> {}]
  /\ pc = [c \in Call |-> "idle"]
  /\ job = [c \in Call |-> NoJob]
  /\ seen = [c \in Call |-> 0]
  /\ facts = [c \in Call |-> FALSE]
  /\ rev = [c \in Call |-> 0]
  /\ cleared = [c \in Call |-> {}]
  /\ outcome = [c \in Call |-> "none"]
  /\ overrun = {}

\* The handler of c continues at label l.
Goto(c, l) ==
  /\ pc' = [pc EXCEPT ![c] = l]
  /\ UNCHANGED outcome

\* The handler of c continues at label l with its answer decided.
Leave(c, l, o) ==
  /\ pc' = [pc EXCEPT ![c] = l]
  /\ outcome' = [outcome EXCEPT ![c] = o]

-----------------------------------------------------------------------------
(* Requests *)

\* A turn request arrives.  A client knows a session id and a revision only
\* from an earlier answer of the service.
ReceiveTurn(c) ==
  /\ pc[c] = "idle"
  /\ \E p \in Process, s \in Session, r \in Request : \E e \in 0..Revision(s) :
       /\ phase[p] = "up"
       /\ status[s] # "absent"
       /\ job' = [job EXCEPT ![c] =
                    [kind |-> "turn", proc |-> p, sess |-> s, req |-> r, exp |-> e]]
  /\ Goto(c, "cache")
  /\ UNCHANGED <<storeVars, memory, procVars, seen, facts, rev, cleared, overrun>>

\* A request to delete a session arrives.
ReceiveDelete(c) ==
  /\ pc[c] = "idle"
  /\ \E p \in Process, s \in Session :
       /\ phase[p] = "up"
       /\ status[s] # "absent"
       /\ job' = [job EXCEPT ![c] = [kind |-> "delete", proc |-> p, sess |-> s]]
  /\ Goto(c, "dlock")
  /\ UNCHANGED <<storeVars, memory, procVars, seen, facts, rev, cleared, overrun>>

\* create_session, under the bundle the process serves.
CreateSession(p, s) ==
  /\ phase[p] = "up"
  /\ StoreCreate(s, bundle[p])
  /\ UNCHANGED <<memory, procVars, callVars>>

-----------------------------------------------------------------------------
(* execute_turn *)

\* A step that neither the store nor any other call notices: it ends the
\* handler's current phase with an answer.
Abandon(c, l, o) ==
  /\ Leave(c, l, o)
  /\ UNCHANGED <<storeVars, memory, procVars, job, seen, facts, rev, cleared, overrun>>

\* The store call of step l raises before it took effect.
FailsAt(c, l) == pc[c] = l /\ l \in Faults

\* get_request_result, outside the reservation and the lock.
ReadCache(c) ==
  /\ pc[c] = "cache"
  /\ LET saved == RequestResult(job[c].sess, job[c].req)
     IN  \/ /\ saved = {}
            /\ Goto(c, "reserve")
            /\ UNCHANGED rev
         \/ \E x \in saved :
              /\ rev' = [rev EXCEPT ![c] = x.rev]
              /\ Leave(c, "done", "replayed")
  /\ UNCHANGED <<storeVars, memory, procVars, job, seen, facts, cleared, overrun>>

ReadCacheFails(c) == FailsAt(c, "cache") /\ Abandon(c, "done", "store_error")

\* reserve(), first half: clear expired rows, read the revision.  In SQLite the
\* transaction holds the database's write lock, so nothing separates this from
\* the INSERT (SqliteReserve below).
Reserve(c) ==
  LET s == job[c].sess
  IN  /\ pc[c] = "reserve"
      /\ Postgres
      /\ \A row \in ExpiredReservations(s) : ~RowLocked(row)
      /\ \/ /\ CanCommit(s, job[c].exp)
            /\ cleared' = [cleared EXCEPT ![c] = ExpiredReservations(s)]
            /\ Goto(c, "insert")
         \/ /\ ~Active(s)
            /\ Leave(c, "done", "not_found")
            /\ UNCHANGED cleared
         \/ /\ Active(s) /\ Revision(s) # job[c].exp
            /\ Leave(c, "done", "conflict")
            /\ UNCHANGED cleared
      /\ UNCHANGED <<storeVars, memory, procVars, job, seen, facts, rev, overrun>>

ReserveFails(c) == FailsAt(c, "reserve") /\ Abandon(c, "done", "store_error")

\* reserve(), second half: INSERT and COMMIT.  A unique violation of either key
\* is reported as a turn in progress, and rolls the clearing back.
InsertReservation(c) ==
  LET s == job[c].sess
      r == job[c].req
  IN  /\ pc[c] = "insert"
      /\ \/ /\ Blocking(s, r, reservations \ cleared[c]) = {}
            /\ StoreInsertReservation(s, r, c, cleared[c])
            /\ Goto(c, "lock")
         \/ /\ Blocking(s, r, reservations \ cleared[c]) # {}
            /\ Leave(c, "done", "in_progress")
            /\ UNCHANGED storeVars
      /\ cleared' = [cleared EXCEPT ![c] = {}]
      /\ UNCHANGED <<memory, procVars, job, seen, facts, rev, overrun>>

\* The transaction fails, or commits and its acknowledgement is lost: either
\* way reserve() raises, `reserved` stays False and nobody releases the row.
InsertReservationFails(c) ==
  LET s == job[c].sess
      r == job[c].req
  IN  /\ FailsAt(c, "insert")
      /\ \/ UNCHANGED storeVars
         \/ /\ Blocking(s, r, reservations \ cleared[c]) = {}
            /\ StoreInsertReservation(s, r, c, cleared[c])
      /\ cleared' = [cleared EXCEPT ![c] = {}]
      /\ Leave(c, "done", "store_error")
      /\ UNCHANGED <<memory, procVars, job, seen, facts, rev, overrun>>

\* SQLiteContextStore.reserve: one BEGIN IMMEDIATE transaction.
SqliteReserve(c) ==
  LET s == job[c].sess
      r == job[c].req
  IN  /\ pc[c] = "reserve"
      /\ ~Postgres
      /\ \/ /\ CanCommit(s, job[c].exp)
            /\ Blocking(s, r, reservations) = {}
            /\ StoreInsertReservation(s, r, c, {})
            /\ Goto(c, "lock")
         \/ /\ ~Active(s)
            /\ Leave(c, "done", "not_found")
            /\ UNCHANGED storeVars
         \/ /\ Active(s) /\ Revision(s) # job[c].exp
            /\ Leave(c, "done", "conflict")
            /\ UNCHANGED storeVars
         \/ /\ CanCommit(s, job[c].exp)
            /\ Blocking(s, r, reservations) # {}
            /\ Leave(c, "done", "in_progress")
            /\ UNCHANGED storeVars
      /\ UNCHANGED <<memory, procVars, job, seen, facts, rev, cleared, overrun>>

\* `with self._session_lock(session_id)`
Acquire(c) ==
  /\ pc[c] = "lock"
  /\ LockFree(job[c].proc, job[c].sess)
  /\ Goto(c, "load")
  /\ UNCHANGED <<storeVars, memory, procVars, job, seen, facts, rev, cleared, overrun>>

\* store.get, _validate_metadata and the revision check.
Load(c) ==
  LET s == job[c].sess
  IN  /\ pc[c] = "load"
      /\ \/ /\ CanCommit(s, job[c].exp)
            /\ meta[s] = bundle[job[c].proc]
            /\ seen' = [seen EXCEPT ![c] = Revision(s)]
            /\ Goto(c, "process")
         \/ /\ ~Active(s)
            /\ Leave(c, "unlock", "not_found")
            /\ UNCHANGED seen
         \/ /\ Active(s) /\ meta[s] # bundle[job[c].proc]
            /\ Leave(c, "unlock", "mismatch")
            /\ UNCHANGED seen
         \/ /\ Active(s) /\ meta[s] = bundle[job[c].proc] /\ Revision(s) # job[c].exp
            /\ Leave(c, "unlock", "conflict")
            /\ UNCHANGED seen
      /\ UNCHANGED <<storeVars, memory, procVars, job, facts, rev, cleared, overrun>>

LoadFails(c) == FailsAt(c, "load") /\ Abandon(c, "unlock", "store_error")

\* Fault: the processor writes its facts to result memory itself.
RunProcessorPersisting(c) ==
  /\ pc[c] = "process"
  /\ facts' = [facts EXCEPT ![c] = TRUE]
  /\ memory' = memory \cup {[sess |-> job[c].sess, rev |-> seen[c] + 1]}
  /\ Goto(c, "commit")
  /\ UNCHANGED <<storeVars, procVars, job, seen, rev, cleared, overrun>>

\* Fault: the answer is saved before the turn it reports is committed.
RunProcessorSaving(c) ==
  /\ pc[c] = "process"
  /\ StoreSaveResult(job[c].sess, job[c].req, seen[c] + 1)
  /\ Goto(c, "commit")
  /\ UNCHANGED <<memory, procVars, job, seen, facts, rev, cleared, overrun>>

\* processor.process: interpretation, planning and execution write nothing
\* shared; a successful turn may carry facts for result memory.
RunProcessor(c) ==
  /\ pc[c] = "process"
  /\ facts' \in {[facts EXCEPT ![c] = b] : b \in BOOLEAN}
  /\ Goto(c, "commit")
  /\ UNCHANGED <<storeVars, memory, procVars, job, seen, rev, cleared, overrun>>

ProcessFails(c) == FailsAt(c, "process") /\ Abandon(c, "unlock", "processing_error")

\* commit() applied the turn of c as the next revision of its session.
CommitTurn(c) ==
  LET s == job[c].sess
  IN  /\ StoreCommit(s, [req |-> job[c].req, basis |-> seen[c], facts |-> facts[c]])
      /\ rev' = [rev EXCEPT ![c] = Revision(s) + 1]

\* Fault: the revision is not compared again at the commit.
CommitLastWriterWins(c) ==
  /\ pc[c] = "commit"
  /\ Active(job[c].sess)
  /\ CommitTurn(c)
  /\ Goto(c, IF facts[c] /\ HasMemory THEN "persist" ELSE "save")
  /\ UNCHANGED <<memory, procVars, job, seen, facts, cleared, overrun>>

\* Fault: the conflict is noticed after the row was written.
CommitThenCompare(c) ==
  /\ pc[c] = "commit"
  /\ Active(job[c].sess)
  /\ CommitTurn(c)
  /\ IF Revision(job[c].sess) = job[c].exp
     THEN Goto(c, IF facts[c] /\ HasMemory THEN "persist" ELSE "save")
     ELSE Leave(c, "unlock", "conflict")
  /\ UNCHANGED <<memory, procVars, job, seen, facts, cleared, overrun>>

\* store.commit: one transaction that re-checks the session and the revision.
Commit(c) ==
  LET s == job[c].sess
  IN  /\ pc[c] = "commit"
      /\ \/ /\ CanCommit(s, job[c].exp)
            /\ CommitTurn(c)
            /\ Goto(c, IF facts[c] /\ HasMemory THEN "persist" ELSE "save")
         \/ /\ ~Active(s)
            /\ Leave(c, "unlock", "not_found")
            /\ UNCHANGED <<storeVars, rev>>
         \/ /\ Active(s) /\ Revision(s) # job[c].exp
            /\ Leave(c, "unlock", "conflict")
            /\ UNCHANGED <<storeVars, rev>>
      /\ UNCHANGED <<memory, procVars, job, seen, facts, cleared, overrun>>

\* The transaction fails, or commits and its acknowledgement is lost.
CommitFails(c) ==
  /\ FailsAt(c, "commit")
  /\ \/ UNCHANGED <<storeVars, rev>>
     \/ CanCommit(job[c].sess, job[c].exp) /\ CommitTurn(c)
  /\ Leave(c, "unlock", "store_error")
  /\ UNCHANGED <<memory, procVars, job, seen, facts, cleared, overrun>>

\* persist_result_memory, after the commit.  Only the PostgreSQL store has
\* complete_memory_write.
Persist(c) ==
  /\ pc[c] = "persist"
  /\ memory' = memory \cup {[sess |-> job[c].sess, rev |-> rev[c]]}
  /\ Goto(c, IF HasOutbox THEN "complete" ELSE "save")
  /\ UNCHANGED <<storeVars, procVars, job, seen, facts, rev, cleared, overrun>>

\* Fault: the row is completed whether or not the facts were persisted.
PersistFailsCompletes(c) ==
  /\ FailsAt(c, "persist")
  /\ Goto(c, IF HasOutbox THEN "complete" ELSE "save")
  /\ UNCHANGED <<storeVars, memory, procVars, job, seen, facts, rev, cleared, overrun>>

\* It raises before or after it stored the facts, or reports persisted = False:
\* swallowed in each case, and the row stays pending in the outbox.
PersistFails(c) ==
  /\ FailsAt(c, "persist")
  /\ \/ UNCHANGED memory
     \/ memory' = memory \cup {[sess |-> job[c].sess, rev |-> rev[c]]}
  /\ Goto(c, "save")
  /\ UNCHANGED <<storeVars, procVars, job, seen, facts, rev, cleared, overrun>>

Complete(c) ==
  /\ pc[c] = "complete"
  /\ StoreCompleteMemory(job[c].sess, rev[c])
  /\ Goto(c, "save")
  /\ UNCHANGED <<memory, procVars, job, seen, facts, rev, cleared, overrun>>

\* The exception handler of Persist covers complete_memory_write as well.
CompleteFails(c) ==
  /\ FailsAt(c, "complete")
  /\ Goto(c, "save")
  /\ UNCHANGED <<storeVars, memory, procVars, job, seen, facts, rev, cleared, overrun>>

Save(c) ==
  /\ pc[c] = "save"
  /\ StoreSaveResult(job[c].sess, job[c].req, rev[c])
  /\ Leave(c, "unlock", "ok")
  /\ UNCHANGED <<memory, procVars, job, seen, facts, rev, cleared, overrun>>

\* save_request_result is not guarded: the committed turn is answered with an error.
SaveFails(c) ==
  /\ FailsAt(c, "save")
  /\ \/ UNCHANGED storeVars
     \/ StoreSaveResult(job[c].sess, job[c].req, rev[c])
  /\ Leave(c, "unlock", "store_error")
  /\ UNCHANGED <<memory, procVars, job, seen, facts, rev, cleared, overrun>>

\* Fault: every handler releases, the `reserved` flag notwithstanding.
UnlockReleasesAlways(c) ==
  /\ pc[c] = "unlock"
  /\ Goto(c, "release")
  /\ UNCHANGED <<storeVars, memory, procVars, job, seen, facts, rev, cleared, overrun>>

\* The lock is left before the `finally` clause releases the reservation.
Unlock(c) ==
  /\ pc[c] = "unlock"
  /\ Goto(c, IF job[c].kind = "turn" THEN "release" ELSE "done")
  /\ UNCHANGED <<storeVars, memory, procVars, job, seen, facts, rev, cleared, overrun>>

Release(c) ==
  LET s == job[c].sess
      r == job[c].req
  IN  /\ pc[c] = "release"
      /\ \A row \in reservations : row.sess = s /\ row.req = r => ~RowLocked(row)
      /\ StoreRelease(s, r)
      /\ Goto(c, "done")
      /\ UNCHANGED <<memory, procVars, job, seen, facts, rev, cleared, overrun>>

\* A failed release is logged and forgotten.
ReleaseFails(c) ==
  /\ FailsAt(c, "release")
  /\ Goto(c, "done")
  /\ UNCHANGED <<storeVars, memory, procVars, job, seen, facts, rev, cleared, overrun>>

-----------------------------------------------------------------------------
(* delete_session *)

\* Fault: the session is deleted without its lock.
DeleteUnlocked(c) ==
  /\ pc[c] = "dlock"
  /\ Goto(c, "delete")
  /\ UNCHANGED <<storeVars, memory, procVars, job, seen, facts, rev, cleared, overrun>>

AcquireDelete(c) ==
  /\ pc[c] = "dlock"
  /\ LockFree(job[c].proc, job[c].sess)
  /\ Goto(c, "delete")
  /\ UNCHANGED <<storeVars, memory, procVars, job, seen, facts, rev, cleared, overrun>>

\* store.delete; the result memory is purged only if this call deleted the row.
Delete(c) ==
  LET s == job[c].sess
  IN  /\ pc[c] = "delete"
      /\ \/ /\ Active(s)
            /\ StoreDelete(s)
            /\ IF HasMemory THEN Goto(c, "purge") ELSE Leave(c, "unlock", "ok")
         \/ /\ ~Active(s)
            /\ Leave(c, "unlock", "not_deleted")
            /\ UNCHANGED storeVars
      /\ UNCHANGED <<memory, procVars, job, seen, facts, rev, cleared, overrun>>

DeleteFails(c) ==
  /\ FailsAt(c, "delete")
  /\ \/ UNCHANGED storeVars
     \/ Active(job[c].sess) /\ StoreDelete(job[c].sess)
  /\ Leave(c, "unlock", "store_error")
  /\ UNCHANGED <<memory, procVars, job, seen, facts, rev, cleared, overrun>>

\* delete_result_memory
PurgeMemory(s) == {m \in memory : m.sess # s}

Purge(c) ==
  /\ pc[c] = "purge"
  /\ memory' = PurgeMemory(job[c].sess)
  /\ Leave(c, "unlock", "ok")
  /\ UNCHANGED <<storeVars, procVars, job, seen, facts, rev, cleared, overrun>>

PurgeFails(c) ==
  /\ FailsAt(c, "purge")
  /\ memory' \in {memory, PurgeMemory(job[c].sess)}
  /\ Leave(c, "unlock", "memory_error")
  /\ UNCHANGED <<storeVars, procVars, job, seen, facts, rev, cleared, overrun>>

-----------------------------------------------------------------------------
(* Processes *)

\* build_application up to _drain_memory_outbox, which reads the pending rows
\* once; a deployment may serve another metadata bundle than the last one.
Start(p) ==
  /\ phase[p] = "down"
  /\ \E b \in Bundle : bundle' = [bundle EXCEPT ![p] = b]
  /\ queue' = [queue EXCEPT ![p] = IF HasOutbox /\ HasMemory THEN PendingMemoryWrites
                                   ELSE {}]
  /\ phase' = [phase EXCEPT ![p] = "replay"]
  /\ UNCHANGED <<storeVars, memory, callVars>>

Oldest(p, i) == \A j \in queue[p] : i <= j

\* The replay moves on to the next row.
NextRow(p, i) ==
  /\ queue' = [queue EXCEPT ![p] = @ \ {i}]
  /\ phase' = [phase EXCEPT ![p] = "replay"]

\* persist_write of the oldest row.
Replay(p) ==
  /\ phase[p] = "replay"
  /\ \E i \in queue[p] :
       /\ Oldest(p, i)
       /\ memory' = memory \cup {[sess |-> outbox[i].sess, rev |-> outbox[i].rev]}
  /\ phase' = [phase EXCEPT ![p] = "complete"]
  /\ UNCHANGED <<storeVars, bundle, queue, callVars>>

\* It raises, before or after the facts were stored; the row is skipped.
ReplayFails(p) ==
  /\ phase[p] = "replay"
  /\ "replay" \in Faults
  /\ \E i \in queue[p] :
       /\ Oldest(p, i)
       /\ memory' \in {memory, memory \cup {[sess |-> outbox[i].sess, rev |-> outbox[i].rev]}}
       /\ NextRow(p, i)
  /\ UNCHANGED <<storeVars, bundle, callVars>>

ReplayComplete(p) ==
  /\ phase[p] = "complete"
  /\ \E i \in queue[p] :
       /\ Oldest(p, i)
       /\ StoreCompleteMemory(outbox[i].sess, outbox[i].rev)
       /\ NextRow(p, i)
  /\ UNCHANGED <<memory, bundle, callVars>>

ReplayCompleteFails(p) ==
  /\ phase[p] = "complete"
  /\ "replay" \in Faults
  /\ \E i \in queue[p] : Oldest(p, i) /\ NextRow(p, i)
  /\ UNCHANGED <<storeVars, memory, bundle, callVars>>

\* The application starts serving.
Serve(p) ==
  /\ phase[p] = "replay"
  /\ queue[p] = {}
  /\ phase' = [phase EXCEPT ![p] = "up"]
  /\ UNCHANGED <<storeVars, memory, bundle, queue, callVars>>

\* The process dies: its calls and its locks are gone, its open transaction is
\* rolled back, everything committed stays.
Crash(p) ==
  LET gone == {c \in Call : Live(c) /\ job[c].proc = p}
  IN  /\ "crash" \in Faults
      /\ phase[p] # "down"
      /\ phase' = [phase EXCEPT ![p] = "down"]
      /\ queue' = [queue EXCEPT ![p] = {}]
      /\ pc' = [c \in Call |-> IF c \in gone THEN "done" ELSE pc[c]]
      /\ outcome' = [c \in Call |-> IF c \in gone THEN "lost" ELSE outcome[c]]
      /\ cleared' = [c \in Call |-> IF c \in gone THEN {} ELSE cleared[c]]
      /\ UNCHANGED <<storeVars, memory, bundle, job, seen, facts, rev, overrun>>

\* A reservation outlives its time to live; `overrun` remembers the owner if it
\* was still at work.
Expire(s) ==
  \E row \in reservations :
    /\ row.sess = s
    /\ StoreExpire(row)
    /\ overrun' = IF pc[row.owner] \in Reserving THEN overrun \cup {row.owner}
                  ELSE overrun
    /\ UNCHANGED <<memory, procVars, pc, job, seen, facts, rev, cleared, outcome>>

-----------------------------------------------------------------------------

TurnStep(c) ==
  \/ ReadCache(c) \/ ReadCacheFails(c)
  \/ Reserve(c) \/ ReserveFails(c) \/ SqliteReserve(c)
  \/ InsertReservation(c) \/ InsertReservationFails(c)
  \/ Acquire(c)
  \/ Load(c) \/ LoadFails(c)
  \/ RunProcessor(c) \/ ProcessFails(c)
  \/ Commit(c) \/ CommitFails(c)
  \/ Persist(c) \/ PersistFails(c)
  \/ Complete(c) \/ CompleteFails(c)
  \/ Save(c) \/ SaveFails(c)
  \/ Unlock(c)
  \/ Release(c) \/ ReleaseFails(c)

DeleteStep(c) ==
  \/ AcquireDelete(c)
  \/ Delete(c) \/ DeleteFails(c)
  \/ Purge(c) \/ PurgeFails(c)

StartUpStep(p) ==
  \/ Replay(p) \/ ReplayFails(p)
  \/ ReplayComplete(p) \/ ReplayCompleteFails(p)
  \/ Serve(p)

\* All requests of the workload are answered.
AllAnswered ==
  /\ \A c \in Call : pc[c] = "done"
  /\ UNCHANGED vars

Next ==
  \/ \E c \in Call : ReceiveTurn(c) \/ ReceiveDelete(c) \/ TurnStep(c) \/ DeleteStep(c)
  \/ \E p \in Process : Start(p) \/ StartUpStep(p) \/ Crash(p)
  \/ \E p \in Process, s \in Session : CreateSession(p, s)
  \/ \E s \in Session : Expire(s)
  \/ AllAnswered

Spec == Init /\ [][Next]_vars

\* Handlers and start-up keep running while their process lives, and clocks
\* advance; nobody has to send a request, crash, or restart.
Fairness ==
  /\ \A c \in Call : WF_vars(TurnStep(c)) /\ WF_vars(DeleteStep(c))
  /\ \A p \in Process : WF_vars(StartUpStep(p))
  /\ \A s \in Session : WF_vars(Expire(s))

FairSpec == Spec /\ Fairness

-----------------------------------------------------------------------------
(* What the service promises *)

\* Every revision of a session was computed from the revision just before it,
\* however many processes and handlers race, time out and retry: no committed
\* turn ever overwrites another (store.commit's compare-and-set).
NoLostUpdate ==
  \A s \in Session : \A i \in 1..Len(payload[s]) : payload[s][i].basis = i - 1

\* While no working turn of a session ran past its reservation's time to live,
\* at most one turn of that session is between reading the conversation and
\* writing it back, over all processes (store.reserve and store.release).
ExclusiveWithinTtl ==
  \A c, d \in Call :
    /\ c # d
    /\ pc[c] \in Working /\ pc[d] \in Working
    /\ job[c].sess = job[d].sess
    => \E o \in overrun : job[o].sess = job[c].sess

\* A saved answer names a revision that this very request committed.
SavedAnswersAreCommitted ==
  \A x \in results :
    x.rev \in 1..Revision(x.sess) /\ payload[x.sess][x.rev].req = x.req

\* A client that is told of success, at once or by replay, is told the revision
\* its own request produced in its own session.
AnswersMatchLedger ==
  \A c \in Call : outcome[c] \in {"ok", "replayed"} /\ job[c].kind = "turn" =>
    /\ rev[c] \in 1..Revision(job[c].sess)
    /\ payload[job[c].sess][rev[c]].req = job[c].req

\* A refusal is definite: a call answered with a conflict, a turn in progress, an
\* unknown session, another metadata bundle or a processing error changed nothing.
RefusalIsDefinite ==
  \A c \in Call :
    outcome[c] \in {"conflict", "in_progress", "not_found", "mismatch", "processing_error"}
      => rev[c] = 0

\* Result memory holds facts of committed turns only (pgvector is called after
\* the commit).
MemoryFollowsCommit ==
  \A m \in memory : m.rev \in 1..Revision(m.sess) /\ payload[m.sess][m.rev].facts

\* PostgreSQL: the facts of a committed turn of an active session are in result
\* memory or still pending in the outbox, through every failure and crash.
NoFactsLost ==
  Postgres => \A s \in Session : Active(s) =>
    \A i \in 1..Revision(s) : payload[s][i].facts =>
      \/ [sess |-> s, rev |-> i] \in memory
      \/ \E j \in 1..Len(outbox) :
           outbox[j].sess = s /\ outbox[j].rev = i /\ ~outbox[j].delivered

\* Deleting a session is final: no later step, of a turn that was already at work
\* on it or of another process, adds a turn to it (commit's `deleted_at IS NULL`).
DeleteIsFinal ==
  [][\A s \in Session : status[s] = "deleted" =>
       status'[s] = "deleted" /\ payload'[s] = payload[s]]_vars

\* Deleting a session deletes what result memory holds of it.
DeletedLeavesNoMemory ==
  \A s \in Session :
    status[s] = "deleted" /\ ~(\E c \in Call : pc[c] = "purge" /\ job[c].sess = s)
      => \A m \in memory : m.sess # s

\* Every accepted request is answered, whatever fails and whoever crashes.
EveryCallEnds == \A c \in Call : Live(c) ~> pc[c] = "done"

\* A session is never blocked for good: a reservation is released or expires.
ReservationsEnd ==
  \A s \in Session :
    (\E x \in reservations : x.sess = s) ~> (\A x \in reservations : x.sess = s => x.expired)

\* The service implements the ledger its clients rely on.
Ledger == INSTANCE SessionLedger WITH ledger <- payload, answers <- results
LedgerSpec == Ledger!Spec

-----------------------------------------------------------------------------
(* What the documentation says, and the service does not do *)

\* README.md, on the reservation: no two turns of one session at the same time.
\* Stated for turns whose own reservation never expired.
NoTwoTurnsAtOnce ==
  \A c, d \in Call :
    /\ c # d
    /\ pc[c] \in Working /\ pc[d] \in Working
    /\ job[c].sess = job[d].sess
    => c \in overrun \/ d \in overrun

\* README.md: repeating a request id returns the saved answer instead of
\* processing the request again.
RequestCommittedOnce ==
  \A s \in Session : \A i, j \in 1..Revision(s) :
    payload[s][i].req = payload[s][j].req => i = j

\* ui/app.js on context_store_unavailable: the session has not been changed.
StoreErrorChangesNothing == \A c \in Call : outcome[c] = "store_error" => rev[c] = 0

\* The text of TurnInProgress: another turn is already processing for the session.
InProgressMeansBusy ==
  [][\A c \in Call : outcome[c] = "none" /\ outcome'[c] = "in_progress" =>
       \E d \in Call : d # c /\ pc[d] \in Reserving /\ job[d].sess = job[c].sess]_vars
=============================================================================
