-------------------------- MODULE TurnServiceProofs --------------------------
(***************************************************************************)
(* Theorems about TurnService, for any sessions, requests, calls,          *)
(* processes, bundles and faults, and either durable backend: its types,   *)
(* that no update is lost, what the reservations of store.py protect and   *)
(* what a refusal is worth.                                                *)
(***************************************************************************)
EXTENDS TurnService, TLAPS

-----------------------------------------------------------------------------
(* Every transaction of the store keeps its tables well typed. *)

LEMMA StoreUnchanged ==
  ASSUME StoreTypeOK, UNCHANGED storeVars
  PROVE  StoreTypeOK'
  BY DEF StoreTypeOK, storeVars

LEMMA CreateKeepsTypes ==
  ASSUME StoreTypeOK, NEW s \in Session, NEW b \in Bundle, StoreCreate(s, b)
  PROVE  StoreTypeOK'
  <1>1. status' \in [Session -> {"absent", "active", "deleted"}]
    BY DEF StoreTypeOK, StoreCreate
  <1>2. meta' \in [Session -> Bundle]
    BY DEF StoreTypeOK, StoreCreate
  <1>3. UNCHANGED <<payload, reservations, results, outbox>>
    BY DEF StoreCreate
  <1>4. QED
    BY <1>1, <1>2, <1>3 DEF StoreTypeOK

LEMMA InsertReservationKeepsTypes ==
  ASSUME StoreTypeOK, NEW s \in Session, NEW r \in Request, NEW c \in Call, NEW rows,
         StoreInsertReservation(s, r, c, rows)
  PROVE  StoreTypeOK'
  <1>1. reservations' \subseteq Reservation
    <2>1. [sess |-> s, req |-> r, expired |-> FALSE, owner |-> c] \in Reservation
      BY DEF Reservation
    <2>2. QED
      BY <2>1, Zenon DEF StoreTypeOK, StoreInsertReservation
  <1>2. UNCHANGED <<status, meta, payload, results, outbox>>
    BY DEF StoreInsertReservation
  <1>3. QED
    BY <1>1, <1>2 DEF StoreTypeOK

LEMMA ReleaseKeepsTypes ==
  ASSUME StoreTypeOK, NEW s, NEW r, StoreRelease(s, r)
  PROVE  StoreTypeOK'
  BY DEF StoreTypeOK, StoreRelease

LEMMA ExpireKeepsTypes ==
  ASSUME StoreTypeOK, NEW row \in reservations, StoreExpire(row)
  PROVE  StoreTypeOK'
  BY DEF StoreTypeOK, StoreExpire, Reservation

LEMMA SaveResultKeepsTypes ==
  ASSUME StoreTypeOK, NEW s \in Session, NEW r \in Request, NEW n \in Nat,
         StoreSaveResult(s, r, n)
  PROVE  StoreTypeOK'
  BY DEF StoreTypeOK, StoreSaveResult, RequestResult, Result

LEMMA CompleteMemoryKeepsTypes ==
  ASSUME StoreTypeOK, NEW s, NEW n, StoreCompleteMemory(s, n)
  PROVE  StoreTypeOK' /\ Len(outbox') = Len(outbox)
  <1>1. outbox \in Seq(OutboxRow)
    BY DEF StoreTypeOK
  <1>2. ASSUME NEW i \in 1..Len(outbox)
        PROVE  outbox'[i] \in OutboxRow
    <2>1. outbox[i] \in OutboxRow
      BY <1>1, <1>2
    <2>2. [outbox[i] EXCEPT !.delivered = TRUE] \in OutboxRow
      BY <2>1 DEF OutboxRow
    <2>3. QED
      BY <1>2, <2>1, <2>2 DEF StoreCompleteMemory
  <1>3. DOMAIN outbox' = 1..Len(outbox) /\ outbox' = [i \in 1..Len(outbox) |-> outbox'[i]]
    BY DEF StoreCompleteMemory
  <1>4. outbox' \in Seq(OutboxRow) /\ Len(outbox') = Len(outbox)
    BY <1>1, <1>2, <1>3
  <1>5. UNCHANGED <<status, meta, payload, reservations, results>>
    BY DEF StoreCompleteMemory
  <1>6. QED
    BY <1>4, <1>5 DEF StoreTypeOK

LEMMA DeleteKeepsTypes ==
  ASSUME StoreTypeOK, NEW s \in Session, StoreDelete(s)
  PROVE  StoreTypeOK'
  BY DEF StoreTypeOK, StoreDelete

LEMMA CommitKeepsTypes ==
  ASSUME StoreTypeOK, NEW s \in Session, NEW t \in Turn, StoreCommit(s, t)
  PROVE  StoreTypeOK' /\ Len(outbox') >= Len(outbox)
  <1>1. payload[s] \in Seq(Turn)
    BY DEF StoreTypeOK
  <1>2. outbox' \in Seq(OutboxRow) /\ Len(outbox') >= Len(outbox)
    <2>1. [sess |-> s, rev |-> Revision(s) + 1, delivered |-> FALSE] \in OutboxRow
      BY <1>1 DEF OutboxRow, Revision
    <2>2. outbox \in Seq(OutboxRow)
      BY DEF StoreTypeOK
    <2>3. QED
      BY <2>1, <2>2 DEF StoreCommit, OutboxInsert
  <1>3. payload' \in [Session -> Seq(Turn)]
    BY <1>1 DEF StoreTypeOK, StoreCommit
  <1>4. QED
    BY <1>2, <1>3 DEF StoreTypeOK, StoreCommit

-----------------------------------------------------------------------------
(* The calls stay well typed, and a handler knows what it is about. *)

LEMMA RevisionType ==
  ASSUME StoreTypeOK, NEW s \in Session
  PROVE  Revision(s) \in Nat
  BY DEF StoreTypeOK, Revision

LEMMA TurnJobType ==
  ASSUME CallTypeOK, NEW c \in Call, pc[c] \in OnTurn
  PROVE  /\ job[c].proc \in Process
         /\ job[c].sess \in Session
         /\ job[c].req \in Request
         /\ job[c].exp \in Nat
         /\ job[c].kind = "turn"
  BY DEF CallTypeOK, TurnJob

LEMMA DeleteJobType ==
  ASSUME CallTypeOK, NEW c \in Call, pc[c] \in OnDelete
  PROVE  /\ job[c].proc \in Process
         /\ job[c].sess \in Session
         /\ job[c].kind = "delete"
  BY DEF CallTypeOK, DeleteJob

LEMMA TurnStepKeepsCalls ==
  ASSUME TypeOK, NEW c \in Call, TurnStep(c)
  PROVE  CallTypeOK'
  <1> USE DEF TypeOK, CallTypeOK, Goto, Leave, Labels, Locked, Reserving, OnTurn, OnDelete,
              Outcomes
  <1>1. CASE ReadCache(c)
    BY <1>1 DEF ReadCache, RequestResult, StoreTypeOK, Result
  <1>2. CASE ReadCacheFails(c)
    BY <1>2 DEF ReadCacheFails, FailsAt, Abandon
  <1>3. CASE Reserve(c)
    BY <1>3 DEF Reserve, ExpiredReservations, StoreTypeOK
  <1>4. CASE ReserveFails(c)
    BY <1>4 DEF ReserveFails, FailsAt, Abandon
  <1>5. CASE SqliteReserve(c)
    BY <1>5 DEF SqliteReserve
  <1>6. CASE InsertReservation(c)
    BY <1>6 DEF InsertReservation
  <1>7. CASE InsertReservationFails(c)
    BY <1>7 DEF InsertReservationFails, FailsAt
  <1>8. CASE Acquire(c)
    BY <1>8 DEF Acquire
  <1>9. CASE Load(c)
    <2>1. Revision(job[c].sess) \in Nat
      BY <1>9, TurnJobType, RevisionType DEF Load
    <2>2. seen' \in [Call -> Nat]
      BY <1>9, <2>1 DEF Load
    <2>3. QED
      BY <1>9, <2>2 DEF Load
  <1>10. CASE LoadFails(c)
    BY <1>10 DEF LoadFails, FailsAt, Abandon
  <1>11. CASE RunProcessor(c)
    BY <1>11 DEF RunProcessor
  <1>12. CASE ProcessFails(c)
    BY <1>12 DEF ProcessFails, FailsAt, Abandon
  <1>13. CASE Commit(c)
    <2>1. Revision(job[c].sess) \in Nat
      BY <1>13, TurnJobType, RevisionType DEF Commit
    <2>2. rev' \in [Call -> Nat]
      BY <1>13, <2>1 DEF Commit, CommitTurn
    <2>3. QED
      BY <1>13, <2>2 DEF Commit
  <1>14. CASE CommitFails(c)
    <2>1. Revision(job[c].sess) \in Nat
      BY <1>14, TurnJobType, RevisionType DEF CommitFails, FailsAt
    <2>2. rev' \in [Call -> Nat]
      BY <1>14, <2>1 DEF CommitFails, CommitTurn
    <2>3. QED
      BY <1>14, <2>2 DEF CommitFails, FailsAt
  <1>15. CASE Persist(c)
    BY <1>15 DEF Persist
  <1>16. CASE PersistFails(c)
    BY <1>16 DEF PersistFails, FailsAt
  <1>17. CASE Complete(c)
    BY <1>17 DEF Complete
  <1>18. CASE CompleteFails(c)
    BY <1>18 DEF CompleteFails, FailsAt
  <1>19. CASE Save(c)
    BY <1>19 DEF Save
  <1>20. CASE SaveFails(c)
    BY <1>20 DEF SaveFails, FailsAt
  <1>21. CASE Unlock(c)
    <2>1. job[c].kind = "turn" => job[c] \in TurnJob
      BY <1>21 DEF Unlock, TurnJob, DeleteJob
    <2>2. QED
      BY <1>21, <2>1 DEF Unlock
  <1>22. CASE Release(c)
    BY <1>22 DEF Release
  <1>23. CASE ReleaseFails(c)
    BY <1>23 DEF ReleaseFails, FailsAt
  <1>24. QED
    BY <1>1, <1>2, <1>3, <1>4, <1>5, <1>6, <1>7, <1>8, <1>9, <1>10, <1>11, <1>12, <1>13, <1>14, <1>15, <1>16, <1>17, <1>18, <1>19, <1>20, <1>21, <1>22, <1>23 DEF TurnStep

LEMMA DeleteStepKeepsCalls ==
  ASSUME TypeOK, NEW c \in Call, DeleteStep(c)
  PROVE  CallTypeOK'
  <1> USE DEF TypeOK, CallTypeOK, Goto, Leave, Labels, Locked, Reserving, OnTurn, OnDelete,
              Outcomes
  <1>1. CASE AcquireDelete(c)
    BY <1>1 DEF AcquireDelete
  <1>2. CASE Delete(c)
    BY <1>2 DEF Delete
  <1>3. CASE DeleteFails(c)
    BY <1>3 DEF DeleteFails, FailsAt
  <1>4. CASE Purge(c)
    BY <1>4 DEF Purge
  <1>5. CASE PurgeFails(c)
    BY <1>5 DEF PurgeFails, FailsAt
  <1>6. QED
    BY <1>1, <1>2, <1>3, <1>4, <1>5 DEF DeleteStep

-----------------------------------------------------------------------------
(* What a step does to the store *)

\* A step of the service is at most one transaction of the store, run for a
\* call that may run it.
StoreStep ==
  \/ UNCHANGED storeVars
  \/ \E s \in Session, b \in Bundle : StoreCreate(s, b)
  \/ \E c \in Call : /\ pc[c] = "insert" /\ Blocking(job[c].sess, job[c].req, reservations \ cleared[c]) = {}
                     /\ StoreInsertReservation(job[c].sess, job[c].req, c, cleared[c])
  \/ \E c \in Call : /\ pc[c] = "reserve" /\ Blocking(job[c].sess, job[c].req, reservations) = {}
                     /\ StoreInsertReservation(job[c].sess, job[c].req, c, {})
  \/ \E c \in Call : pc[c] = "release" /\ StoreRelease(job[c].sess, job[c].req)
  \/ \E row \in reservations : StoreExpire(row)
  \/ \E c \in Call : pc[c] = "save" /\ StoreSaveResult(job[c].sess, job[c].req, rev[c])
  \/ \E c \in Call : pc[c] = "complete" /\ StoreCompleteMemory(job[c].sess, rev[c])
  \/ \E p \in Process : \E i \in queue[p] :
       phase[p] = "complete" /\ StoreCompleteMemory(outbox[i].sess, outbox[i].rev)
  \/ \E c \in Call : pc[c] = "delete" /\ Active(job[c].sess) /\ StoreDelete(job[c].sess)
  \/ \E c \in Call : pc[c] = "commit" /\ CanCommit(job[c].sess, job[c].exp) /\ CommitTurn(c)

LEMMA StoreSteps ==
  ASSUME TypeOK, Next
  PROVE  StoreStep
  <1>1. ASSUME NEW c \in Call, ReceiveTurn(c) \/ ReceiveDelete(c)
        PROVE  StoreStep
    BY <1>1 DEF ReceiveTurn, ReceiveDelete, StoreStep
  <1>2. ASSUME NEW c \in Call, TurnStep(c)
        PROVE  StoreStep
    <2>1. CASE ReadCache(c) \/ ReadCacheFails(c) \/ ReserveFails(c) \/ Reserve(c) \/ Acquire(c) \/ Load(c) \/ LoadFails(c)
      BY <2>1 DEF ReadCache, ReadCacheFails, ReserveFails, Reserve, Acquire, Load, LoadFails, Abandon, FailsAt, StoreStep
    <2>2. CASE RunProcessor(c) \/ ProcessFails(c) \/ Persist(c) \/ PersistFails(c) \/ CompleteFails(c) \/ Unlock(c) \/ ReleaseFails(c)
      BY <2>2 DEF RunProcessor, ProcessFails, Persist, PersistFails, CompleteFails, Unlock, ReleaseFails, Abandon, FailsAt, StoreStep
    <2>3. CASE SqliteReserve(c)
      BY <2>3 DEF SqliteReserve, StoreStep
    <2>4. CASE InsertReservation(c)
      BY <2>4 DEF InsertReservation, StoreStep
    <2>5. CASE InsertReservationFails(c)
      BY <2>5 DEF InsertReservationFails, FailsAt, StoreStep
    <2>6. CASE Commit(c)
      BY <2>6 DEF Commit, StoreStep
    <2>7. CASE CommitFails(c)
      BY <2>7 DEF CommitFails, FailsAt, StoreStep
    <2>8. CASE Complete(c)
      BY <2>8 DEF Complete, StoreStep
    <2>9. CASE Save(c)
      BY <2>9 DEF Save, StoreStep
    <2>10. CASE SaveFails(c)
      BY <2>10 DEF SaveFails, FailsAt, StoreStep
    <2>11. CASE Release(c)
      BY <2>11 DEF Release, StoreStep
    <2>12. QED
      BY <1>2, <2>1, <2>2, <2>3, <2>4, <2>5, <2>6, <2>7, <2>8, <2>9, <2>10, <2>11 DEF TurnStep
  <1>3. ASSUME NEW c \in Call, DeleteStep(c)
        PROVE  StoreStep
    BY <1>3 DEF DeleteStep, AcquireDelete, Delete, DeleteFails, Purge, PurgeFails, FailsAt, StoreStep
  <1>4. ASSUME NEW p \in Process, Start(p) \/ StartUpStep(p) \/ Crash(p)
        PROVE  StoreStep
    BY <1>4 DEF Start, StartUpStep, Replay, ReplayFails, ReplayComplete, ReplayCompleteFails,
                Serve, Crash, StoreStep
  <1>5. ASSUME NEW p \in Process, NEW s \in Session, CreateSession(p, s)
        PROVE  StoreStep
    BY <1>5 DEF CreateSession, StoreStep, TypeOK, ProcessTypeOK
  <1>6. ASSUME NEW s \in Session, Expire(s)
        PROVE  StoreStep
    BY <1>6 DEF Expire, StoreStep
  <1>7. CASE AllAnswered
    BY <1>7 DEF AllAnswered, vars, StoreStep
  <1>8. QED
    BY <1>1, <1>2, <1>3, <1>4, <1>5, <1>6, <1>7 DEF Next

\* Every transaction keeps the tables well typed, and no row leaves the outbox.
LEMMA StoreStepKeepsTypes ==
  ASSUME TypeOK, StoreStep
  PROVE  StoreTypeOK' /\ Len(outbox') >= Len(outbox)
  <1>1. StoreTypeOK /\ Len(outbox) \in Nat
    BY DEF TypeOK, StoreTypeOK
  <1>2. CASE UNCHANGED storeVars
    BY <1>1, <1>2, StoreUnchanged DEF storeVars
  <1>3. ASSUME NEW s \in Session, NEW b \in Bundle, StoreCreate(s, b)
        PROVE  StoreTypeOK' /\ Len(outbox') >= Len(outbox)
    <2>1. StoreTypeOK'
      BY <1>1, <1>3, CreateKeepsTypes
    <2>2. outbox' = outbox
      BY <1>3 DEF StoreCreate
    <2>3. QED
      BY <1>1, <2>1, <2>2
  <1>4. ASSUME NEW c \in Call, pc[c] \in {"insert", "reserve"}, NEW rows,
               StoreInsertReservation(job[c].sess, job[c].req, c, rows)
        PROVE  StoreTypeOK' /\ Len(outbox') >= Len(outbox)
    <2>1. job[c].sess \in Session /\ job[c].req \in Request
      BY <1>4, TurnJobType DEF TypeOK, OnTurn
    <2>2. StoreTypeOK'
      BY <1>1, <1>4, <2>1, InsertReservationKeepsTypes
    <2>3. outbox' = outbox
      BY <1>4 DEF StoreInsertReservation
    <2>4. QED
      BY <1>1, <2>2, <2>3
  <1>5. ASSUME NEW s, NEW r, StoreRelease(s, r)
        PROVE  StoreTypeOK' /\ Len(outbox') >= Len(outbox)
    <2>1. StoreTypeOK'
      BY <1>1, <1>5, ReleaseKeepsTypes
    <2>2. outbox' = outbox
      BY <1>5 DEF StoreRelease
    <2>3. QED
      BY <1>1, <2>1, <2>2
  <1>6. ASSUME NEW row \in reservations, StoreExpire(row)
        PROVE  StoreTypeOK' /\ Len(outbox') >= Len(outbox)
    <2>1. StoreTypeOK'
      BY <1>1, <1>6, ExpireKeepsTypes
    <2>2. outbox' = outbox
      BY <1>6 DEF StoreExpire
    <2>3. QED
      BY <1>1, <2>1, <2>2
  <1>7. ASSUME NEW c \in Call, pc[c] = "save", StoreSaveResult(job[c].sess, job[c].req, rev[c])
        PROVE  StoreTypeOK' /\ Len(outbox') >= Len(outbox)
    <2>1. job[c].sess \in Session /\ job[c].req \in Request /\ rev[c] \in Nat
      BY <1>7, TurnJobType DEF TypeOK, CallTypeOK, OnTurn
    <2>2. StoreTypeOK'
      BY <1>1, <1>7, <2>1, SaveResultKeepsTypes
    <2>3. outbox' = outbox
      BY <1>7 DEF StoreSaveResult
    <2>4. QED
      BY <1>1, <2>2, <2>3
  <1>8. ASSUME NEW s, NEW n, StoreCompleteMemory(s, n)
        PROVE  StoreTypeOK' /\ Len(outbox') >= Len(outbox)
    BY <1>1, <1>8, CompleteMemoryKeepsTypes
  <1>9. ASSUME NEW c \in Call, pc[c] = "delete", StoreDelete(job[c].sess)
        PROVE  StoreTypeOK' /\ Len(outbox') >= Len(outbox)
    <2>1. job[c].sess \in Session
      BY <1>9, DeleteJobType DEF TypeOK, OnDelete
    <2>2. StoreTypeOK'
      BY <1>1, <1>9, <2>1, DeleteKeepsTypes
    <2>3. outbox' = outbox
      BY <1>9 DEF StoreDelete
    <2>4. QED
      BY <1>1, <2>2, <2>3
  <1>10. ASSUME NEW c \in Call, pc[c] = "commit", CommitTurn(c)
         PROVE  StoreTypeOK' /\ Len(outbox') >= Len(outbox)
    <2>1. job[c].sess \in Session /\ job[c].req \in Request
      BY <1>10, TurnJobType DEF TypeOK, OnTurn
    <2>2. [req |-> job[c].req, basis |-> seen[c], facts |-> facts[c]] \in Turn
      BY <2>1 DEF TypeOK, CallTypeOK, Turn
    <2>3. QED
      BY <1>1, <1>10, <2>1, <2>2, CommitKeepsTypes DEF CommitTurn
  <1>11. QED
    BY <1>1, <1>2, <1>3, <1>4, <1>5, <1>6, <1>7, <1>8, <1>9, <1>10, Zenon DEF StoreStep

-----------------------------------------------------------------------------
(* Type correctness *)

LEMMA QueueStays ==
  ASSUME ProcessTypeOK, StoreTypeOK, StoreTypeOK', Len(outbox') >= Len(outbox), UNCHANGED queue
  PROVE  queue' \in [Process -> SUBSET (1..Len(outbox'))]
  BY DEF ProcessTypeOK, StoreTypeOK

LEMMA MemoryType ==
  ASSUME ProcessTypeOK, NEW s \in Session, NEW n \in Nat
  PROVE  memory \cup {[sess |-> s, rev |-> n]} \subseteq [sess: Session, rev: Nat]
  BY DEF ProcessTypeOK

\* What no handler touches but through Persist and Purge.
LEMMA HandlersKeepProcesses ==
  ASSUME TypeOK, NEW c \in Call, TurnStep(c) \/ DeleteStep(c), StoreTypeOK',
         Len(outbox') >= Len(outbox)
  PROVE  ProcessTypeOK'
  <1>1. UNCHANGED procVars
    BY DEF TurnStep, DeleteStep, ReadCache, ReadCacheFails, Reserve, ReserveFails, SqliteReserve,
           InsertReservation, InsertReservationFails, Acquire, Load, LoadFails, RunProcessor,
           ProcessFails, Commit, CommitFails, Persist, PersistFails, Complete, CompleteFails,
           Save, SaveFails, Unlock, Release, ReleaseFails, AcquireDelete, Delete, DeleteFails,
           Purge, PurgeFails, Abandon
  <1>2. \/ UNCHANGED memory
        \/ pc[c] = "persist" /\ memory' = memory \cup {[sess |-> job[c].sess, rev |-> rev[c]]}
        \/ memory' = PurgeMemory(job[c].sess)
    BY DEF TurnStep, DeleteStep, ReadCache, ReadCacheFails, Reserve, ReserveFails, SqliteReserve,
           InsertReservation, InsertReservationFails, Acquire, Load, LoadFails, RunProcessor,
           ProcessFails, Commit, CommitFails, Persist, PersistFails, Complete, CompleteFails,
           Save, SaveFails, Unlock, Release, ReleaseFails, AcquireDelete, Delete, DeleteFails,
           Purge, PurgeFails, Abandon, FailsAt
  <1>3. memory' \subseteq [sess: Session, rev: Nat]
    <2>1. CASE pc[c] = "persist" /\ memory' = memory \cup {[sess |-> job[c].sess, rev |-> rev[c]]}
      <3>1. job[c].sess \in Session /\ rev[c] \in Nat
        BY <2>1, TurnJobType DEF TypeOK, CallTypeOK, OnTurn
      <3>2. QED
        BY <2>1, <3>1, MemoryType DEF TypeOK
    <2>2. QED
      BY <1>2, <2>1 DEF PurgeMemory, TypeOK, ProcessTypeOK
  <1>4. queue' \in [Process -> SUBSET (1..Len(outbox'))]
    BY <1>1, QueueStays DEF TypeOK, procVars
  <1>5. QED
    BY <1>1, <1>3, <1>4 DEF TypeOK, ProcessTypeOK, procVars

LEMMA StartUpKeepsProcesses ==
  ASSUME TypeOK, NEW p \in Process, Start(p) \/ StartUpStep(p) \/ Crash(p), StoreTypeOK',
         Len(outbox') = Len(outbox)
  PROVE  ProcessTypeOK'
  <1> USE DEF TypeOK, ProcessTypeOK, StoreTypeOK
  <1>1. CASE Start(p)
    BY <1>1 DEF Start, PendingMemoryWrites
  <1>2. ASSUME NEW i \in queue[p]
        PROVE  memory \cup {[sess |-> outbox[i].sess, rev |-> outbox[i].rev]}
                 \subseteq [sess: Session, rev: Nat]
    <2>1. outbox[i] \in OutboxRow
      BY <1>2
    <2>2. QED
      BY <2>1, MemoryType DEF OutboxRow
  <1>3. CASE Replay(p)
    BY <1>2, <1>3 DEF Replay
  <1>4. CASE ReplayFails(p)
    BY <1>2, <1>4 DEF ReplayFails, NextRow
  <1>5. CASE ReplayComplete(p)
    BY <1>5 DEF ReplayComplete, NextRow
  <1>6. CASE ReplayCompleteFails(p)
    BY <1>6 DEF ReplayCompleteFails, NextRow
  <1>7. CASE Serve(p)
    BY <1>7 DEF Serve
  <1>8. CASE Crash(p)
    BY <1>8 DEF Crash
  <1>9. QED
    BY <1>1, <1>3, <1>4, <1>5, <1>6, <1>7, <1>8 DEF StartUpStep

LEMMA InitTypeOK ==
  ASSUME Init
  PROVE  TypeOK
  <1>1. (CHOOSE b \in Bundle : TRUE) \in Bundle
    BY StoreAssumption
  <1>2. StoreTypeOK
    BY <1>1 DEF Init, StoreInit, StoreTypeOK
  <1>3. ProcessTypeOK
    BY <1>1 DEF Init, ProcessTypeOK
  <1>4. CallTypeOK
    BY DEF Init, CallTypeOK, NoJob, Labels, OnTurn, OnDelete, Outcomes
  <1>5. QED
    BY <1>2, <1>3, <1>4 DEF TypeOK

LEMMA ReceiveKeepsCalls ==
  ASSUME TypeOK, NEW c \in Call, ReceiveTurn(c) \/ ReceiveDelete(c)
  PROVE  CallTypeOK'
  <1>1. CASE ReceiveTurn(c)
    <2>1. PICK p \in Process, s \in Session, r \in Request : \E e \in 0..Revision(s) :
            /\ phase[p] = "up"
            /\ status[s] # "absent"
            /\ job' = [job EXCEPT ![c] =
                         [kind |-> "turn", proc |-> p, sess |-> s, req |-> r, exp |-> e]]
      BY <1>1, Zenon DEF ReceiveTurn
    <2>2. PICK e \in 0..Revision(s) :
            job' = [job EXCEPT ![c] =
                      [kind |-> "turn", proc |-> p, sess |-> s, req |-> r, exp |-> e]]
      BY <2>1
    <2>3. e \in Nat
      BY RevisionType DEF TypeOK
    <2>4. [kind |-> "turn", proc |-> p, sess |-> s, req |-> r, exp |-> e] \in TurnJob
      BY <2>3 DEF TurnJob
    <2>5. QED
      BY <1>1, <2>2, <2>4
      DEF ReceiveTurn, TypeOK, CallTypeOK, Goto, Labels, OnTurn, OnDelete, Outcomes
  <1>2. CASE ReceiveDelete(c)
    <2>1. PICK p \in Process, s \in Session :
            job' = [job EXCEPT ![c] = [kind |-> "delete", proc |-> p, sess |-> s]]
      BY <1>2 DEF ReceiveDelete
    <2>2. [kind |-> "delete", proc |-> p, sess |-> s] \in DeleteJob
      BY DEF DeleteJob
    <2>3. QED
      BY <1>2, <2>1, <2>2
      DEF ReceiveDelete, TypeOK, CallTypeOK, Goto, Labels, OnTurn, OnDelete, Outcomes
  <1>3. QED
    BY <1>1, <1>2

LEMMA OthersKeepCalls ==
  ASSUME TypeOK,
         \/ \E p \in Process : Start(p) \/ StartUpStep(p) \/ Crash(p)
         \/ \E p \in Process, s \in Session : CreateSession(p, s)
         \/ \E s \in Session : Expire(s)
         \/ UNCHANGED vars
  PROVE  CallTypeOK'
  <1>1. CASE UNCHANGED callVars
    BY <1>1 DEF TypeOK, CallTypeOK, callVars
  <1>2. ASSUME NEW p \in Process, Start(p) \/ StartUpStep(p)
        PROVE  UNCHANGED callVars
    BY <1>2 DEF Start, StartUpStep, Replay, ReplayFails, ReplayComplete, ReplayCompleteFails, Serve
  <1>3. ASSUME NEW p \in Process, Crash(p)
        PROVE  CallTypeOK'
    BY <1>3 DEF Crash, TypeOK, CallTypeOK, Labels, OnTurn, OnDelete, Outcomes
  <1>4. ASSUME NEW p \in Process, NEW s \in Session, CreateSession(p, s)
        PROVE  UNCHANGED callVars
    BY <1>4 DEF CreateSession
  <1>5. ASSUME NEW s \in Session, Expire(s)
        PROVE  CallTypeOK'
    BY <1>5 DEF Expire, TypeOK, StoreTypeOK, CallTypeOK, Reservation
  <1>6. CASE UNCHANGED vars
    BY <1>1, <1>6 DEF vars
  <1>7. QED
    BY <1>1, <1>2, <1>3, <1>4, <1>5, <1>6

LEMMA StutterKeepsTypes ==
  ASSUME TypeOK, UNCHANGED vars
  PROVE  TypeOK'
  BY DEF TypeOK, StoreTypeOK, ProcessTypeOK, CallTypeOK, vars, storeVars, procVars, callVars

LEMMA NextKeepsTypes ==
  ASSUME TypeOK, Next
  PROVE  TypeOK'
  <1>1. StoreTypeOK' /\ Len(outbox') >= Len(outbox)
    BY StoreSteps, StoreStepKeepsTypes
  <1>2. ASSUME NEW c \in Call, ReceiveTurn(c) \/ ReceiveDelete(c)
        PROVE  TypeOK'
    <2>1. UNCHANGED <<storeVars, memory, procVars>>
      BY <1>2 DEF ReceiveTurn, ReceiveDelete
    <2>2. ProcessTypeOK'
      BY <2>1 DEF TypeOK, ProcessTypeOK, storeVars, procVars
    <2>3. QED
      BY <1>1, <1>2, <2>2, ReceiveKeepsCalls DEF TypeOK
  <1>3. ASSUME NEW c \in Call, TurnStep(c) \/ DeleteStep(c)
        PROVE  TypeOK'
    <2>1. ProcessTypeOK'
      BY <1>1, <1>3, HandlersKeepProcesses
    <2>2. CallTypeOK'
      BY <1>3, TurnStepKeepsCalls, DeleteStepKeepsCalls
    <2>3. QED
      BY <1>1, <2>1, <2>2 DEF TypeOK
  <1>4. ASSUME NEW p \in Process, Start(p) \/ StartUpStep(p) \/ Crash(p)
        PROVE  TypeOK'
    <2>1. \/ UNCHANGED outbox
          \/ \E s, n : StoreCompleteMemory(s, n)
      BY <1>4 DEF Start, StartUpStep, Replay, ReplayFails, ReplayComplete, ReplayCompleteFails,
                  Serve, Crash, storeVars
    <2>2. Len(outbox') = Len(outbox)
      <3>1. CASE UNCHANGED outbox
        BY <3>1
      <3>2. ASSUME NEW s, NEW n, StoreCompleteMemory(s, n)
            PROVE  Len(outbox') = Len(outbox)
        BY <3>2, CompleteMemoryKeepsTypes DEF TypeOK
      <3>3. QED
        BY <2>1, <3>1, <3>2
    <2>3. ProcessTypeOK'
      BY <1>1, <1>4, <2>2, StartUpKeepsProcesses
    <2>4. CallTypeOK'
      BY <1>4, OthersKeepCalls
    <2>5. QED
      BY <1>1, <2>3, <2>4 DEF TypeOK
  <1>5. ASSUME NEW p \in Process, NEW s \in Session, CreateSession(p, s)
        PROVE  TypeOK'
    <2>1. UNCHANGED <<outbox, memory, procVars>>
      BY <1>5 DEF CreateSession, StoreCreate
    <2>2. ProcessTypeOK'
      BY <2>1 DEF TypeOK, ProcessTypeOK, procVars
    <2>3. QED
      BY <1>1, <1>5, <2>2, OthersKeepCalls DEF TypeOK
  <1>6. ASSUME NEW s \in Session, Expire(s)
        PROVE  TypeOK'
    <2>1. UNCHANGED <<outbox, memory, procVars>>
      BY <1>6 DEF Expire, StoreExpire
    <2>2. ProcessTypeOK'
      BY <2>1 DEF TypeOK, ProcessTypeOK, procVars
    <2>3. QED
      BY <1>1, <1>6, <2>2, OthersKeepCalls DEF TypeOK
  <1>7. CASE AllAnswered
    BY <1>7, StutterKeepsTypes DEF AllAnswered
  <1>8. QED
    BY <1>2, <1>3, <1>4, <1>5, <1>6, <1>7 DEF Next

\* Every variable keeps its type; in particular a handler that reached a turn's
\* step knows the turn it serves, and a starting process only replays rows the
\* outbox still holds.
THEOREM TypeCorrect == Spec => []TypeOK
  <1>1. Init => TypeOK
    BY InitTypeOK
  <1>2. TypeOK /\ [Next]_vars => TypeOK'
    BY NextKeepsTypes, StutterKeepsTypes
  <1>3. QED
    BY <1>1, <1>2, PTL DEF Spec

-----------------------------------------------------------------------------
(* No lost update *)

\* Between the load and the commit the handler holds a snapshot of the revision
\* its client expects.
SnapshotIsExpected ==
  \A c \in Call : pc[c] \in {"process", "commit"} => seen[c] = job[c].exp

\* NoLostUpdate alone is not inductive: a commit compares with the expected
\* revision, not with the one the processor worked from.
NoLostUpdateInv == TypeOK /\ SnapshotIsExpected /\ NoLostUpdate

\* The payload of a session changes by a commit only.
LEMMA PayloadSteps ==
  ASSUME TypeOK, StoreStep
  PROVE  \/ UNCHANGED payload
         \/ \E c \in Call : pc[c] = "commit" /\ CanCommit(job[c].sess, job[c].exp) /\ CommitTurn(c)
  BY DEF StoreStep, storeVars, StoreCreate, StoreInsertReservation, StoreRelease, StoreExpire,
         StoreSaveResult, StoreCompleteMemory, StoreDelete

LEMMA CommitAppends ==
  ASSUME TypeOK, NEW c \in Call, pc[c] = "commit", CommitTurn(c)
  PROVE  /\ job[c].sess \in Session
         /\ payload[job[c].sess] \in Seq(Turn)
         /\ payload' = [payload EXCEPT ![job[c].sess] =
                          Append(@, [req |-> job[c].req, basis |-> seen[c], facts |-> facts[c]])]
  BY TurnJobType DEF TypeOK, StoreTypeOK, OnTurn, CommitTurn, StoreCommit

LEMMA SnapshotStays ==
  ASSUME TypeOK, SnapshotIsExpected, Next
  PROVE  SnapshotIsExpected'
  <1> USE DEF SnapshotIsExpected, TypeOK, CallTypeOK
  <1>1. ASSUME NEW c \in Call, ReceiveTurn(c) \/ ReceiveDelete(c)
        PROVE  SnapshotIsExpected'
    BY <1>1 DEF ReceiveTurn, ReceiveDelete, Goto
  <1>2. ASSUME NEW c \in Call, TurnStep(c)
        PROVE  SnapshotIsExpected'
    <2>1. UNCHANGED job /\ \A d \in Call \ {c} : UNCHANGED <<pc[d], seen[d]>>
      BY <1>2 DEF TurnStep, ReadCache, ReadCacheFails, Reserve, ReserveFails, SqliteReserve, InsertReservation,
           InsertReservationFails, Acquire, Load, LoadFails, RunProcessor, ProcessFails, Commit,
           CommitFails, Persist, PersistFails, Complete, CompleteFails, Save, SaveFails, Unlock,
           Release, ReleaseFails, Abandon, FailsAt, Goto, Leave
    <2>2. pc'[c] \in {"process", "commit"} => seen'[c] = job[c].exp
      BY <1>2 DEF TurnStep, ReadCache, ReadCacheFails, Reserve, ReserveFails, SqliteReserve, InsertReservation,
           InsertReservationFails, Acquire, Load, LoadFails, RunProcessor, ProcessFails, Commit,
           CommitFails, Persist, PersistFails, Complete, CompleteFails, Save, SaveFails, Unlock,
           Release, ReleaseFails, Abandon, FailsAt, Goto, Leave, CanCommit
    <2>3. QED
      BY <2>1, <2>2
  <1>3. ASSUME NEW c \in Call, DeleteStep(c)
        PROVE  SnapshotIsExpected'
    BY <1>3 DEF DeleteStep, AcquireDelete, Delete, DeleteFails, Purge, PurgeFails, Goto, Leave
  <1>4. ASSUME NEW p \in Process, Start(p) \/ StartUpStep(p)
        PROVE  SnapshotIsExpected'
    BY <1>4 DEF Start, StartUpStep, Replay, ReplayFails, ReplayComplete, ReplayCompleteFails,
                Serve, callVars
  <1>5. ASSUME NEW p \in Process, Crash(p)
        PROVE  SnapshotIsExpected'
    BY <1>5 DEF Crash
  <1>6. ASSUME NEW p \in Process, NEW s \in Session, CreateSession(p, s)
        PROVE  SnapshotIsExpected'
    BY <1>6 DEF CreateSession, callVars
  <1>7. ASSUME NEW s \in Session, Expire(s)
        PROVE  SnapshotIsExpected'
    BY <1>7 DEF Expire
  <1>8. CASE AllAnswered
    BY <1>8 DEF AllAnswered, vars, callVars
  <1>9. QED
    BY <1>1, <1>2, <1>3, <1>4, <1>5, <1>6, <1>7, <1>8 DEF Next

LEMMA NextKeepsNoLostUpdate ==
  ASSUME NoLostUpdateInv, Next
  PROVE  NoLostUpdateInv'
  <1>1. TypeOK' /\ SnapshotIsExpected'
    BY NextKeepsTypes, SnapshotStays DEF NoLostUpdateInv
  <1>2. NoLostUpdate'
    <2>1. CASE UNCHANGED payload
      BY <2>1 DEF NoLostUpdateInv, NoLostUpdate
    <2>2. ASSUME NEW c \in Call, pc[c] = "commit", CanCommit(job[c].sess, job[c].exp),
                 CommitTurn(c)
          PROVE  NoLostUpdate'
      <3>1. seen[c] = Len(payload[job[c].sess])
        BY <2>2 DEF NoLostUpdateInv, SnapshotIsExpected, CanCommit, Revision
      <3>2. SUFFICES ASSUME NEW s \in Session, NEW i \in 1..Len(payload'[s])
                     PROVE  payload'[s][i].basis = i - 1
        BY DEF NoLostUpdate
      <3>3. payload \in [Session -> Seq(Turn)]
        BY DEF NoLostUpdateInv, TypeOK, StoreTypeOK
      <3>4. CASE s # job[c].sess
        <4>1. payload'[s] = payload[s]
          BY <2>2, <3>3, <3>4, CommitAppends DEF NoLostUpdateInv
        <4>2. QED
          BY <4>1 DEF NoLostUpdateInv, NoLostUpdate
      <3>5. CASE s = job[c].sess
        <4> DEFINE turn == [req |-> job[c].req, basis |-> seen[c], facts |-> facts[c]]
        <4>1. payload'[s] = Append(payload[s], turn)
          BY <2>2, <3>3, <3>5, CommitAppends DEF NoLostUpdateInv
        <4>2. CASE i \in 1..Len(payload[s])
          <5>1. payload'[s][i] = payload[s][i]
            BY <3>3, <4>1, <4>2
          <5>2. QED
            BY <4>2, <5>1 DEF NoLostUpdateInv, NoLostUpdate
        <4>3. CASE i = Len(payload[s]) + 1
          <5>1. payload'[s][i] = turn
            BY <3>3, <4>1, <4>3
          <5>2. QED
            BY <3>1, <3>3, <3>5, <4>3, <5>1
        <4>4. QED
          BY <3>3, <4>1, <4>2, <4>3
      <3>6. QED
        BY <3>4, <3>5
    <2>3. QED
      BY <2>1, <2>2, StoreSteps, PayloadSteps DEF NoLostUpdateInv
  <1>3. QED
    BY <1>1, <1>2 DEF NoLostUpdateInv

\* No committed turn is ever overwritten or computed from an older revision,
\* whatever races, fails, times out or crashes.
THEOREM NoLostUpdateHolds == Spec => []NoLostUpdate
  <1>1. Init => NoLostUpdateInv
    BY InitTypeOK DEF NoLostUpdateInv, NoLostUpdate, SnapshotIsExpected, Init, StoreInit
  <1>2. NoLostUpdateInv /\ [Next]_vars => NoLostUpdateInv'
    <2>1. ASSUME NoLostUpdateInv, UNCHANGED vars
          PROVE  NoLostUpdateInv'
      BY <2>1, StutterKeepsTypes
      DEF NoLostUpdateInv, NoLostUpdate, SnapshotIsExpected, vars, storeVars, callVars
    <2>2. QED
      BY <2>1, NextKeepsNoLostUpdate
  <1>3. NoLostUpdateInv => NoLostUpdate
    BY DEF NoLostUpdateInv
  <1>4. QED
    BY <1>1, <1>2, <1>3, PTL DEF Spec

-----------------------------------------------------------------------------
(* The inductive invariant of the reservations *)

\* A turn is at work, or has still to release its reservation.
Reserved(c) == pc[c] \in Reserving /\ job[c].kind = "turn"

Overran(s) == \E o \in overrun : job[o].sess = s

OwnRow(c) == [sess |-> job[c].sess, req |-> job[c].req, expired |-> FALSE, owner |-> c]

\* PRIMARY KEY (session_id).
OneRowEach == \A x, y \in reservations : x.sess = y.sess => x = y

\* A row belongs to a call that began, and to its session.
RowsOfCalls ==
  /\ \A x \in reservations : pc[x.owner] # "idle" /\ x.sess = job[x.owner].sess
  /\ \A o \in overrun : pc[o] # "idle"

\* Only expired rows are cleared.
ClearedAreExpired == \A c \in Call : \A x \in cleared[c] : x.expired

\* A reserved turn's row is there and has not expired, unless some turn of its
\* session ran past its own: then nothing is known of anybody's row.
RowsAreThere ==
  \A c \in Call : Reserved(c) => Overran(job[c].sess) \/ OwnRow(c) \in reservations

ReservationInv == TypeOK /\ OneRowEach /\ RowsOfCalls /\ ClearedAreExpired /\ RowsAreThere

-----------------------------------------------------------------------------
(* Steps that leave the rows alone *)

\* Such a step begins no reserved turn, and clears expired rows at most.
Quiet ==
  /\ UNCHANGED <<reservations, overrun>>
  /\ \A d \in Call :
       /\ job'[d] = job[d] \/ pc[d] = "idle"
       /\ pc[d] # "idle" => pc'[d] # "idle"
       /\ Reserved(d)' => Reserved(d) /\ job'[d] = job[d]
       /\ \A x \in cleared'[d] : x.expired

LEMMA QuietKeeps ==
  ASSUME ReservationInv, TypeOK', Quiet
  PROVE  ReservationInv'
  <1>1. \A x \in reservations : x.owner \in Call
    BY DEF ReservationInv, TypeOK, StoreTypeOK, Reservation
  <1>2. overrun \subseteq Call
    BY DEF ReservationInv, TypeOK, CallTypeOK
  <1>3. OneRowEach'
    BY DEF Quiet, ReservationInv, OneRowEach
  <1>4. RowsOfCalls'
    BY <1>1, <1>2 DEF Quiet, ReservationInv, RowsOfCalls
  <1>5. ClearedAreExpired'
    BY DEF Quiet, ClearedAreExpired
  <1>6. RowsAreThere'
    <2> SUFFICES ASSUME NEW c \in Call, Reserved(c)'
                 PROVE  (Overran(job[c].sess) \/ OwnRow(c) \in reservations)'
      BY DEF RowsAreThere
    <2>1. Reserved(c) /\ job'[c] = job[c]
      BY DEF Quiet
    <2>2. CASE Overran(job[c].sess)
      <3>1. PICK o \in overrun : job[o].sess = job[c].sess
        BY <2>2 DEF Overran
      <3>2. pc[o] # "idle" /\ o \in Call
        BY <1>2, <3>1 DEF ReservationInv, RowsOfCalls
      <3>3. job'[o] = job[o] /\ o \in overrun'
        BY <3>1, <3>2 DEF Quiet
      <3>4. QED
        BY <2>1, <3>1, <3>3 DEF Overran
    <2>3. CASE OwnRow(c) \in reservations
      BY <2>1, <2>3 DEF OwnRow, Quiet
    <2>4. QED
      BY <2>1, <2>2, <2>3 DEF ReservationInv, RowsAreThere
  <1>7. QED
    BY <1>3, <1>4, <1>5, <1>6 DEF ReservationInv

LEMMA ReceiptsAreQuiet ==
  ASSUME ReservationInv, NEW c \in Call, ReceiveTurn(c) \/ ReceiveDelete(c)
  PROVE  Quiet
  <1> USE DEF ReservationInv, TypeOK, CallTypeOK, ClearedAreExpired
  <1>1. UNCHANGED <<reservations, overrun, cleared>> /\ pc[c] = "idle"
    BY DEF ReceiveTurn, ReceiveDelete, storeVars
  <1>2. \A d \in Call \ {c} : UNCHANGED <<pc[d], job[d]>>
    BY DEF ReceiveTurn, ReceiveDelete, Goto
  <1>3. pc'[c] \in {"cache", "dlock"}
    BY DEF ReceiveTurn, ReceiveDelete, Goto
  <1>4. QED
    BY <1>1, <1>2, <1>3 DEF Quiet, Reserved, Reserving

\* The steps of a turn between the reservation and its release, and before it.
Undisturbing(c) ==
  \/ ReadCache(c) \/ ReadCacheFails(c) \/ Reserve(c) \/ ReserveFails(c)
  \/ Acquire(c) \/ Load(c) \/ LoadFails(c) \/ RunProcessor(c) \/ ProcessFails(c)
  \/ Commit(c) \/ CommitFails(c) \/ Persist(c) \/ PersistFails(c)
  \/ Complete(c) \/ CompleteFails(c) \/ Save(c) \/ SaveFails(c) \/ Unlock(c)
  \/ ReleaseFails(c)

LEMMA TurnsAreQuiet ==
  ASSUME ReservationInv, NEW c \in Call, Undisturbing(c)
  PROVE  Quiet
  <1> USE DEF ReservationInv, TypeOK, CallTypeOK
  <1>1. UNCHANGED <<reservations, overrun, job>>
    BY DEF Undisturbing, ReadCache, ReadCacheFails, Reserve, ReserveFails, Acquire, Load,
           LoadFails, RunProcessor, ProcessFails, Commit, CommitFails, CommitTurn, StoreCommit,
           Persist, PersistFails, Complete, CompleteFails, StoreCompleteMemory, Save, SaveFails,
           StoreSaveResult, Unlock, ReleaseFails, Abandon, storeVars
  <1>2. \A d \in Call \ {c} : UNCHANGED pc[d]
    BY DEF Undisturbing, ReadCache, ReadCacheFails, Reserve, ReserveFails, Acquire, Load,
           LoadFails, RunProcessor, ProcessFails, Commit, CommitFails,
           Persist, PersistFails, Complete, CompleteFails, Save, SaveFails,
           Unlock, ReleaseFails, Abandon, Goto, Leave
  <1>3. /\ pc[c] # "idle" /\ pc'[c] # "idle"
        /\ pc'[c] \in Reserving => pc[c] \in Reserving
    BY DEF Undisturbing, ReadCache, ReadCacheFails, Reserve, ReserveFails, Acquire, Load,
           LoadFails, RunProcessor, ProcessFails, Commit, CommitFails,
           Persist, PersistFails, Complete, CompleteFails, Save, SaveFails,
           Unlock, ReleaseFails, Abandon, FailsAt, Goto, Leave, Reserving
  <1>4. \/ UNCHANGED cleared
        \/ cleared' = [cleared EXCEPT ![c] = ExpiredReservations(job[c].sess)]
    BY DEF Undisturbing, ReadCache, ReadCacheFails, Reserve, ReserveFails, Acquire, Load,
           LoadFails, RunProcessor, ProcessFails, Commit, CommitFails,
           Persist, PersistFails, Complete, CompleteFails, Save, SaveFails,
           Unlock, ReleaseFails, Abandon
  <1>5. \A d \in Call : \A x \in cleared'[d] : x.expired
    BY <1>4 DEF ExpiredReservations, ClearedAreExpired
  <1>6. QED
    BY <1>1, <1>2, <1>3, <1>5 DEF Quiet, Reserved

LEMMA DeletesAreQuiet ==
  ASSUME ReservationInv, NEW c \in Call, DeleteStep(c)
  PROVE  Quiet
  <1> USE DEF ReservationInv, TypeOK, CallTypeOK, ClearedAreExpired
  <1>1. UNCHANGED <<reservations, overrun, job, cleared>>
    BY DEF DeleteStep, AcquireDelete, Delete, DeleteFails, Purge, PurgeFails, StoreDelete, storeVars
  <1>2. \A d \in Call \ {c} : UNCHANGED pc[d]
    BY DEF DeleteStep, AcquireDelete, Delete, DeleteFails, Purge, PurgeFails, Goto, Leave
  <1>3. pc[c] \in OnDelete /\ pc'[c] # "idle"
    BY DEF DeleteStep, AcquireDelete, Delete, DeleteFails, Purge, PurgeFails, FailsAt, Goto,
           Leave, OnDelete
  <1>4. job[c].kind = "delete"
    BY <1>3, DeleteJobType
  <1>5. QED
    BY <1>1, <1>2, <1>3, <1>4 DEF Quiet, Reserved

LEMMA ProcessesAreQuiet ==
  ASSUME ReservationInv,
         \/ \E p \in Process : Start(p) \/ StartUpStep(p) \/ Crash(p)
         \/ \E p \in Process, s \in Session : CreateSession(p, s)
         \/ UNCHANGED vars
  PROVE  Quiet
  <1> USE DEF ReservationInv, TypeOK, CallTypeOK, ClearedAreExpired
  <1>1. UNCHANGED <<reservations, overrun, job>>
    BY DEF Start, StartUpStep, Replay, ReplayFails, ReplayComplete, ReplayCompleteFails, Serve,
           StoreCompleteMemory, Crash, CreateSession, StoreCreate, vars, storeVars, callVars
  <1>2. \/ UNCHANGED <<pc, cleared>>
        \/ \A d \in Call : /\ pc'[d] \in {pc[d], "done"}
                           /\ cleared'[d] \in {cleared[d], {}}
    BY DEF Start, StartUpStep, Replay, ReplayFails, ReplayComplete, ReplayCompleteFails, Serve,
           Crash, CreateSession, vars, callVars
  <1>3. QED
    BY <1>1, <1>2 DEF Quiet, Reserved, Reserving

-----------------------------------------------------------------------------
(* Steps that touch the rows *)

\* The INSERT of reserve(), whether or not its caller hears of it.
Inserts(c, rows, l) ==
  /\ pc[c] \in {"insert", "reserve"}
  /\ \A x \in rows : x.expired
  /\ Blocking(job[c].sess, job[c].req, reservations \ rows) = {}
  /\ StoreInsertReservation(job[c].sess, job[c].req, c, rows)
  /\ pc' = [pc EXCEPT ![c] = l]
  /\ l \in {"lock", "done"}
  /\ cleared' = [cleared EXCEPT ![c] = {}] \/ UNCHANGED cleared
  /\ UNCHANGED <<job, overrun>>

LEMMA InsertKeeps ==
  ASSUME ReservationInv, TypeOK', NEW c \in Call, NEW rows, NEW l, Inserts(c, rows, l)
  PROVE  ReservationInv'
  <1> USE DEF ReservationInv
  <1>1. /\ pc[c] \in OnTurn /\ job[c].kind = "turn"
        /\ pc \in [Call -> Labels] /\ overrun \subseteq Call /\ cleared \in [Call -> SUBSET Reservation]
        /\ \A x \in reservations : x.owner \in Call
    BY TurnJobType DEF TypeOK, CallTypeOK, StoreTypeOK, Inserts, OnTurn, Reservation
  <1>2. reservations' = (reservations \ rows) \cup {OwnRow(c)}
    BY DEF Inserts, StoreInsertReservation, OwnRow
  <1>3. UNCHANGED <<job, overrun>> /\ pc' = [pc EXCEPT ![c] = l] /\ l \in {"lock", "done"}
    BY DEF Inserts
  <1>4. \A x \in reservations \ rows : x.sess # job[c].sess
    BY DEF Inserts, Blocking
  <1>5. OwnRow(c).sess = job[c].sess /\ OwnRow(c).owner = c
    BY DEF OwnRow
  <1>6. OneRowEach'
    BY <1>2, <1>4, <1>5 DEF OneRowEach
  <1>7. RowsOfCalls'
    BY <1>1, <1>2, <1>3, <1>5 DEF RowsOfCalls
  <1>8. ClearedAreExpired'
    BY <1>1 DEF ClearedAreExpired, Inserts
  <1>9. RowsAreThere'
    <2> SUFFICES ASSUME NEW d \in Call, Reserved(d)'
                 PROVE  (Overran(job[d].sess) \/ OwnRow(d) \in reservations)'
      BY DEF RowsAreThere
    <2>1. OwnRow(d)' = OwnRow(d) /\ Overran(job[d].sess)' = Overran(job[d].sess)
      BY <1>3 DEF OwnRow, Overran
    <2>2. CASE d = c
      BY <1>2, <2>1, <2>2
    <2>3. CASE d # c
      <3>1. Reserved(d)
        BY <1>1, <1>3, <2>3 DEF Reserved
      <3>2. CASE OwnRow(d) \in reservations
        <4>1. OwnRow(d) \notin rows
          BY DEF Inserts, OwnRow
        <4>2. QED
          BY <1>2, <2>1, <3>2, <4>1
      <3>3. QED
        BY <2>1, <3>1, <3>2 DEF RowsAreThere
    <2>4. QED
      BY <2>2, <2>3
  <1>10. QED
    BY <1>6, <1>7, <1>8, <1>9

LEMMA ReleaseKeeps ==
  ASSUME ReservationInv, TypeOK', NEW c \in Call, Release(c)
  PROVE  ReservationInv'
  <1> USE DEF ReservationInv
  <1>1. /\ pc[c] = "release" /\ job[c].kind = "turn"
        /\ pc \in [Call -> Labels] /\ overrun \subseteq Call
        /\ \A x \in reservations : x.owner \in Call
    BY TurnJobType DEF TypeOK, CallTypeOK, StoreTypeOK, Release, OnTurn, Reservation
  <1>2. reservations' = {x \in reservations : ~(x.sess = job[c].sess /\ x.req = job[c].req)}
    BY DEF Release, StoreRelease
  <1>3. UNCHANGED <<job, overrun, cleared>> /\ pc' = [pc EXCEPT ![c] = "done"]
    BY DEF Release, Goto
  <1>4. OneRowEach'
    BY <1>2 DEF OneRowEach
  <1>5. RowsOfCalls'
    BY <1>1, <1>2, <1>3 DEF RowsOfCalls
  <1>6. ClearedAreExpired'
    BY <1>3 DEF ClearedAreExpired
  <1>7. RowsAreThere'
    <2> SUFFICES ASSUME NEW d \in Call, Reserved(d)'
                 PROVE  (Overran(job[d].sess) \/ OwnRow(d) \in reservations)'
      BY DEF RowsAreThere
    <2>1. OwnRow(d)' = OwnRow(d) /\ Overran(job[d].sess)' = Overran(job[d].sess)
      BY <1>3 DEF OwnRow, Overran
    <2>2. d # c /\ Reserved(d) /\ Reserved(c)
      BY <1>1, <1>3 DEF Reserved, Reserving
    <2>3. CASE OwnRow(d) \in reservations /\ OwnRow(c) \in reservations
      <3>1. OwnRow(d).sess # job[c].sess
        BY <2>2, <2>3 DEF OwnRow, OneRowEach
      <3>2. QED
        BY <1>2, <2>1, <2>3, <3>1
    <2>4. CASE OwnRow(d) \in reservations /\ Overran(job[c].sess) /\ ~Overran(job[d].sess)
      <3>1. OwnRow(d).sess # job[c].sess
        BY <2>4 DEF OwnRow
      <3>2. QED
        BY <1>2, <2>1, <2>4, <3>1
    <2>5. QED
      BY <2>1, <2>2, <2>3, <2>4 DEF RowsAreThere
  <1>8. QED
    BY <1>4, <1>5, <1>6, <1>7

LEMMA ExpiryKeeps ==
  ASSUME ReservationInv, TypeOK', NEW s \in Session, Expire(s)
  PROVE  ReservationInv'
  <1> USE DEF ReservationInv
  <1>1. PICK row \in reservations :
          /\ StoreExpire(row)
          /\ overrun' = IF pc[row.owner] \in Reserving THEN overrun \cup {row.owner} ELSE overrun
    BY DEF Expire
  <1> DEFINE late == [row EXCEPT !.expired = TRUE]
  <1>2. reservations' = (reservations \ {row}) \cup {late}
    BY <1>1 DEF StoreExpire
  <1>3. /\ row \in Reservation /\ overrun \subseteq Call
        /\ \A x \in reservations : x \in Reservation
    BY DEF TypeOK, CallTypeOK, StoreTypeOK
  <1>4. late.sess = row.sess /\ late.owner = row.owner
    BY <1>3 DEF Reservation
  <1> HIDE DEF late
  <1>5. UNCHANGED <<pc, job, cleared>>
    BY DEF Expire
  <1>6. OneRowEach'
    BY <1>2, <1>4 DEF OneRowEach
  <1>7. RowsOfCalls'
    BY <1>1, <1>2, <1>4, <1>5 DEF RowsOfCalls
  <1>8. ClearedAreExpired'
    BY <1>5 DEF ClearedAreExpired
  <1>9. RowsAreThere'
    <2> SUFFICES ASSUME NEW c \in Call, Reserved(c)'
                 PROVE  (Overran(job[c].sess) \/ OwnRow(c) \in reservations)'
      BY DEF RowsAreThere
    <2>1. OwnRow(c)' = OwnRow(c) /\ Reserved(c)
      BY <1>5 DEF OwnRow, Reserved
    <2>2. Overran(job[c].sess) => Overran(job[c].sess)'
      BY <1>1, <1>5 DEF Overran
    <2>3. CASE OwnRow(c) = row
      <3>1. row.owner = c /\ pc[c] \in Reserving
        BY <2>1, <2>3 DEF OwnRow, Reserved
      <3>2. c \in overrun'
        BY <1>1, <3>1
      <3>3. QED
        BY <1>5, <3>2 DEF Overran
    <2>4. CASE OwnRow(c) # row /\ OwnRow(c) \in reservations
      BY <1>2, <2>1, <2>4
    <2>5. QED
      BY <2>1, <2>2, <2>3, <2>4 DEF RowsAreThere
  <1>10. QED
    BY <1>6, <1>7, <1>8, <1>9

LEMMA ReservationsKept ==
  ASSUME ReservationInv, Next
  PROVE  ReservationInv'
  <1>1. TypeOK'
    BY NextKeepsTypes DEF ReservationInv
  <1>2. ASSUME NEW c \in Call, ReceiveTurn(c) \/ ReceiveDelete(c)
        PROVE  ReservationInv'
    BY <1>1, <1>2, ReceiptsAreQuiet, QuietKeeps
  <1>3. ASSUME NEW c \in Call, TurnStep(c)
        PROVE  ReservationInv'
    <2>1. CASE Undisturbing(c)
      BY <1>1, <2>1, TurnsAreQuiet, QuietKeeps
    <2>2. CASE SqliteReserve(c)
      <3>1. CASE Blocking(job[c].sess, job[c].req, reservations) = {}
                 /\ StoreInsertReservation(job[c].sess, job[c].req, c, {}) /\ Goto(c, "lock")
        <4>1. reservations \ {} = reservations
          OBVIOUS
        <4>2. Inserts(c, {}, "lock")
          BY <2>2, <3>1, <4>1 DEF SqliteReserve, Inserts, Goto
        <4>3. QED
          BY <1>1, <4>2, InsertKeeps
      <3>2. CASE UNCHANGED storeVars /\ \E o \in Outcomes : Leave(c, "done", o)
        <4>1. Quiet
          BY <2>2, <3>2 DEF Quiet, SqliteReserve, storeVars, Leave, Reserved, Reserving,
             ReservationInv, TypeOK, CallTypeOK, ClearedAreExpired
        <4>2. QED
          BY <1>1, <4>1, QuietKeeps
      <3>3. QED
        BY <2>2, <3>1, <3>2 DEF SqliteReserve, Outcomes
    <2>3. CASE InsertReservation(c) \/ InsertReservationFails(c)
      <3>1. \A x \in cleared[c] : x.expired
        BY DEF ReservationInv, ClearedAreExpired
      <3>2. CASE UNCHANGED storeVars /\ \E o \in Outcomes : Leave(c, "done", o)
        <4>1. cleared' = [cleared EXCEPT ![c] = {}] /\ UNCHANGED <<job, overrun>>
              /\ pc[c] = "insert"
          BY <2>3 DEF InsertReservation, InsertReservationFails, FailsAt
        <4>2. Quiet
          BY <3>2, <4>1 DEF Quiet, storeVars, Leave, Reserved, Reserving, ReservationInv, TypeOK,
             CallTypeOK, ClearedAreExpired
        <4>3. QED
          BY <1>1, <4>2, QuietKeeps
      <3>3. CASE Blocking(job[c].sess, job[c].req, reservations \ cleared[c]) = {}
                 /\ StoreInsertReservation(job[c].sess, job[c].req, c, cleared[c])
        <4>1. Inserts(c, cleared[c], "lock") \/ Inserts(c, cleared[c], "done")
          BY <2>3, <3>1, <3>3 DEF InsertReservation, InsertReservationFails, FailsAt, Inserts,
                                  Goto, Leave
        <4>2. QED
          BY <1>1, <4>1, InsertKeeps
      <3>4. QED
        BY <2>3, <3>2, <3>3 DEF InsertReservation, InsertReservationFails, Outcomes
    <2>4. CASE Release(c)
      BY <1>1, <2>4, ReleaseKeeps
    <2>5. QED
      BY <1>3, <2>1, <2>2, <2>3, <2>4 DEF TurnStep, Undisturbing
  <1>4. ASSUME NEW c \in Call, DeleteStep(c)
        PROVE  ReservationInv'
    BY <1>1, <1>4, DeletesAreQuiet, QuietKeeps
  <1>5. ASSUME NEW s \in Session, Expire(s)
        PROVE  ReservationInv'
    BY <1>1, <1>5, ExpiryKeeps
  <1>6. CASE \/ \E p \in Process : Start(p) \/ StartUpStep(p) \/ Crash(p)
             \/ \E p \in Process, s \in Session : CreateSession(p, s)
             \/ AllAnswered
    BY <1>1, <1>6, ProcessesAreQuiet, QuietKeeps DEF AllAnswered
  <1>7. QED
    BY <1>2, <1>3, <1>4, <1>5, <1>6 DEF Next

LEMMA ReservationInvInit == Init => ReservationInv
  <1>1. ASSUME Init
        PROVE  OneRowEach /\ RowsOfCalls /\ ClearedAreExpired /\ RowsAreThere
    BY <1>1 DEF Init, StoreInit, OneRowEach, RowsOfCalls, ClearedAreExpired, RowsAreThere,
       Reserved, Reserving
  <1>2. QED
    BY <1>1, InitTypeOK DEF ReservationInv

LEMMA ReservationInvHolds == Spec => []ReservationInv
  <1>1. ASSUME ReservationInv, UNCHANGED vars
        PROVE  ReservationInv'
    BY <1>1, StutterKeepsTypes, ProcessesAreQuiet, QuietKeeps DEF ReservationInv
  <1>2. QED
    BY <1>1, ReservationInvInit, ReservationsKept, PTL DEF Spec

\* Two turns of a session work at the same time only after some turn of that
\* session outlived its reservation, whatever else fails or crashes and however
\* many processes there are (store.reserve, store.release).
THEOREM ExclusionHolds == Spec => []ExclusiveWithinTtl
  <1>1. ASSUME ReservationInv
        PROVE  ExclusiveWithinTtl
    <2> SUFFICES ASSUME NEW c \in Call, NEW d \in Call, c # d,
                        pc[c] \in Working, pc[d] \in Working, job[c].sess = job[d].sess
                 PROVE  Overran(job[c].sess)
      BY DEF ExclusiveWithinTtl, Overran
    <2>1. Reserved(c) /\ Reserved(d)
      BY <1>1, TurnJobType DEF ReservationInv, TypeOK, Reserved, Reserving, Working, OnTurn
    <2>2. ~Overran(job[c].sess) => OwnRow(c) \in reservations /\ OwnRow(d) \in reservations
      BY <1>1, <2>1 DEF ReservationInv, RowsAreThere
    <2>3. OwnRow(c) # OwnRow(d) /\ OwnRow(c).sess = OwnRow(d).sess
      BY DEF OwnRow
    <2>4. QED
      BY <1>1, <2>2, <2>3 DEF ReservationInv, OneRowEach
  <1>2. QED
    BY <1>1, ReservationInvHolds, PTL

-----------------------------------------------------------------------------
(* Refusals *)

\* Before its commit a call has changed nothing and has no answer.
Early == {"idle", "cache", "reserve", "insert", "lock", "load", "process", "commit"}

Refusals == {"conflict", "in_progress", "not_found", "mismatch", "processing_error"}

RefusalInv ==
  /\ TypeOK
  /\ \A c \in Call : pc[c] \in Early => rev[c] = 0 /\ outcome[c] = "none"
  /\ \A c \in Call : pc[c] \notin {"unlock", "release", "done"} => outcome[c] = "none"
  /\ RefusalIsDefinite

\* What a step may do to a call: leave it, move it on, answer it before or after
\* its commit, or commit it.
Answered(d) ==
  \/ UNCHANGED <<pc[d], rev[d], outcome[d]>>
  \/ pc[d] = "idle" /\ UNCHANGED <<rev[d], outcome[d]>>
  \/ /\ UNCHANGED <<rev[d], outcome[d]>>
     /\ pc'[d] \in Early => pc[d] \in Early
     /\ pc[d] \in {"unlock", "release", "done"} => pc'[d] \in {"unlock", "release", "done"}
  \/ /\ pc[d] \in Early /\ UNCHANGED rev[d] /\ pc'[d] \in {"unlock", "release", "done"}
  \/ outcome'[d] \notin Refusals /\ pc'[d] \in {"unlock", "release", "done"}
  \/ UNCHANGED outcome[d] /\ pc[d] = "commit" /\ pc'[d] \in {"persist", "save"}

LEMMA CallsAreAnswered ==
  ASSUME TypeOK, Next, NEW d \in Call
  PROVE  Answered(d)
  <1> USE DEF TypeOK, CallTypeOK, Goto, Leave, Early, Refusals
  <1>1. ASSUME NEW c \in Call, ReceiveTurn(c) \/ ReceiveDelete(c)
        PROVE  Answered(d)
    BY <1>1 DEF ReceiveTurn, ReceiveDelete, Answered
  <1>2. ASSUME NEW c \in Call, TurnStep(c)
        PROVE  Answered(d)
    <2>1. CASE c # d
      BY <1>2, <2>1 DEF TurnStep, CommitTurn, ReadCache, ReadCacheFails, Reserve, ReserveFails,
         SqliteReserve, InsertReservation, InsertReservationFails, Acquire, Load, LoadFails,
         RunProcessor, ProcessFails, Commit, CommitFails, Persist, PersistFails, Complete,
         CompleteFails, Save, SaveFails, Unlock, Release, ReleaseFails, Abandon, Answered
    <2>2. CASE c = d
      <3>1. CASE ReadCache(c) \/ ReadCacheFails(c) \/ Reserve(c) \/ ReserveFails(c)
        BY <2>2, <3>1 DEF ReadCache, ReadCacheFails, Reserve, ReserveFails, Abandon, FailsAt, Answered
      <3>2. CASE SqliteReserve(c) \/ InsertReservation(c) \/ InsertReservationFails(c)
        BY <2>2, <3>2 DEF SqliteReserve, InsertReservation, InsertReservationFails, FailsAt, Answered
      <3>3. CASE Acquire(c) \/ Load(c) \/ LoadFails(c) \/ RunProcessor(c) \/ ProcessFails(c)
        BY <2>2, <3>3 DEF Acquire, Load, LoadFails, RunProcessor, ProcessFails, Abandon, FailsAt, Answered
      <3>4. CASE Commit(c) \/ CommitFails(c)
        BY <2>2, <3>4 DEF Commit, CommitFails, CommitTurn, FailsAt, Answered
      <3>5. CASE Persist(c) \/ PersistFails(c) \/ Complete(c) \/ CompleteFails(c)
        BY <2>2, <3>5 DEF Persist, PersistFails, Complete, CompleteFails, FailsAt, Answered
      <3>6. CASE Save(c) \/ SaveFails(c) \/ Unlock(c) \/ Release(c) \/ ReleaseFails(c)
        BY <2>2, <3>6 DEF Save, SaveFails, Unlock, Release, ReleaseFails, FailsAt, Answered
      <3>7. QED
        BY <1>2, <3>1, <3>2, <3>3, <3>4, <3>5, <3>6 DEF TurnStep
    <2>3. QED
      BY <2>1, <2>2
  <1>3. ASSUME NEW c \in Call, DeleteStep(c)
        PROVE  Answered(d)
    BY <1>3 DEF DeleteStep, AcquireDelete, Delete, DeleteFails, Purge, PurgeFails, FailsAt, Answered
  <1>4. ASSUME NEW p \in Process, Start(p) \/ StartUpStep(p)
        PROVE  UNCHANGED <<pc[d], rev[d], outcome[d]>>
    BY <1>4 DEF callVars, Start, StartUpStep, Replay, ReplayFails, ReplayComplete,
       ReplayCompleteFails, Serve
  <1>5. ASSUME NEW p \in Process, Crash(p)
        PROVE  Answered(d)
    BY <1>5 DEF Crash, Answered
  <1>6. ASSUME NEW p \in Process, NEW s \in Session, CreateSession(p, s)
        PROVE  UNCHANGED <<pc[d], rev[d], outcome[d]>>
    BY <1>6 DEF CreateSession, callVars
  <1>7. ASSUME NEW s \in Session, Expire(s)
        PROVE  UNCHANGED <<pc[d], rev[d], outcome[d]>>
    BY <1>7 DEF Expire
  <1>8. CASE AllAnswered
    BY <1>8 DEF AllAnswered, vars, callVars, Answered
  <1>9. QED
    BY <1>1, <1>2, <1>3, <1>4, <1>5, <1>6, <1>7, <1>8 DEF Next, Answered

\* A refused call committed nothing, in whatever step it was refused.
THEOREM RefusalsHold == Spec => []RefusalIsDefinite
  <1>1. Init => RefusalInv
    BY InitTypeOK DEF RefusalInv, RefusalIsDefinite, Init
  <1>2. ASSUME RefusalInv, Next
        PROVE  RefusalInv'
    <2>1. TypeOK'
      BY <1>2, NextKeepsTypes DEF RefusalInv
    <2> SUFFICES ASSUME NEW d \in Call
                 PROVE  /\ pc'[d] \in Early => rev'[d] = 0 /\ outcome'[d] = "none"
                        /\ pc'[d] \notin {"unlock", "release", "done"} => outcome'[d] = "none"
                        /\ outcome'[d] \in Refusals => rev'[d] = 0
      BY <2>1 DEF RefusalInv, RefusalIsDefinite, Refusals
    <2>2. Answered(d)
      BY <1>2, CallsAreAnswered DEF RefusalInv
    <2>3. QED
      BY <1>2, <2>2 DEF RefusalInv, RefusalIsDefinite, Answered, Early, Refusals
  <1>3. ASSUME RefusalInv, UNCHANGED vars
        PROVE  RefusalInv'
    BY <1>3, StutterKeepsTypes DEF RefusalInv, RefusalIsDefinite, vars, callVars
  <1>4. RefusalInv => RefusalIsDefinite
    BY DEF RefusalInv
  <1>5. QED
    BY <1>1, <1>2, <1>3, <1>4, PTL DEF Spec
=============================================================================
