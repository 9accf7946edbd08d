--------------------------- MODULE LedgerProofs ---------------------------
(***************************************************************************)
(* TurnService implements SessionLedger, and what it tells its clients and *)
(* its result memory are turns of that ledger.  The facts of a committed   *)
(* turn are never lost, through failures, crashes and replays; and what    *)
(* the lock of a single process is worth when a session is deleted.        *)
(***************************************************************************)
EXTENDS TurnServiceProofs

-----------------------------------------------------------------------------
(* The inductive invariant *)

Committed(s, n, r) == n \in 1..Len(payload[s]) /\ payload[s][n].req = r

WithFacts(s, n) == n \in 1..Len(payload[s]) /\ payload[s][n].facts

\* A handler that publishes a turn knows the revision it committed it under.
PublishesCommitted ==
  \A c \in Call :
    /\ pc[c] \in {"persist", "complete", "save"} => Committed(job[c].sess, rev[c], job[c].req)
    /\ pc[c] = "persist" => WithFacts(job[c].sess, rev[c])

\* The outbox announces facts of committed turns only.
OutboxFollowsCommit == \A i \in 1..Len(outbox) : WithFacts(outbox[i].sess, outbox[i].rev)

\* A call has no answer before its handler's last steps.
OpenCallsUnanswered ==
  \A c \in Call : pc[c] \notin {"unlock", "release", "done"} => outcome[c] = "none"

\* Memory is purged for deleted sessions only.
PurgesDeleted == \A c \in Call : pc[c] = "purge" => status[job[c].sess] = "deleted"

LedgerInv ==
  /\ NoLostUpdateInv
  /\ PublishesCommitted
  /\ OutboxFollowsCommit
  /\ OpenCallsUnanswered
  /\ PurgesDeleted
  /\ SavedAnswersAreCommitted
  /\ AnswersMatchLedger
  /\ MemoryFollowsCommit

-----------------------------------------------------------------------------
(* What a step does to the payloads, to the memory and to a call *)

\* The turns of a session are only ever added to.
PayloadGrows ==
  \A s \in Session : \A i \in 1..Len(payload[s]) :
    i \in 1..Len(payload'[s]) /\ payload'[s][i] = payload[s][i]

LEMMA StepsGrowPayload ==
  ASSUME TypeOK, StoreStep
  PROVE  PayloadGrows
  <1>1. payload \in [Session -> Seq(Turn)]
    BY DEF TypeOK, StoreTypeOK
  <1>2. CASE UNCHANGED payload
    BY <1>2 DEF PayloadGrows
  <1>3. ASSUME NEW c \in Call, pc[c] = "commit", CommitTurn(c)
        PROVE  PayloadGrows
    <2>1. SUFFICES ASSUME NEW s \in Session, NEW i \in 1..Len(payload[s])
                   PROVE  i \in 1..Len(payload'[s]) /\ payload'[s][i] = payload[s][i]
      BY DEF PayloadGrows
    <2>2. CASE s # job[c].sess
      BY <1>1, <1>3, <2>2, CommitAppends
    <2>3. CASE s = job[c].sess
      <3> DEFINE turn == [req |-> job[c].req, basis |-> seen[c], facts |-> facts[c]]
      <3>1. payload'[s] = Append(payload[s], turn)
        BY <1>1, <1>3, <2>3, CommitAppends
      <3>2. QED
        BY <1>1, <3>1
    <2>4. QED
      BY <2>2, <2>3
  <1>4. QED
    BY <1>2, <1>3, PayloadSteps

\* What a turn's own commit added.
LEMMA CommitRecords ==
  ASSUME TypeOK, NEW c \in Call, pc[c] = "commit", CommitTurn(c)
  PROVE  /\ rev'[c] \in 1..Len(payload'[job[c].sess])
         /\ payload'[job[c].sess][rev'[c]] =
              [req |-> job[c].req, basis |-> seen[c], facts |-> facts[c]]
  <1>1. rev' = [rev EXCEPT ![c] = Len(payload[job[c].sess]) + 1] /\ rev \in [Call -> Nat]
    BY DEF CommitTurn, Revision, TypeOK, CallTypeOK
  <1>2. payload \in [Session -> Seq(Turn)]
    BY DEF TypeOK, StoreTypeOK
  <1>3. payload'[job[c].sess] =
          Append(payload[job[c].sess], [req |-> job[c].req, basis |-> seen[c], facts |-> facts[c]])
    BY <1>2, CommitAppends
  <1>4. QED
    BY <1>1, <1>2, <1>3, CommitAppends

MemoryStep ==
  \/ UNCHANGED memory
  \/ /\ UNCHANGED storeVars
     /\ \E c \in Call : /\ pc[c] = "persist"
                       /\ memory' = memory \cup {[sess |-> job[c].sess, rev |-> rev[c]]}
  \/ /\ UNCHANGED storeVars
     /\ \E p \in Process : \E i \in queue[p] :
          memory' = memory \cup {[sess |-> outbox[i].sess, rev |-> outbox[i].rev]}
  \/ /\ UNCHANGED storeVars
     /\ \E c \in Call : pc[c] = "purge" /\ memory' = PurgeMemory(job[c].sess)

LEMMA MemorySteps ==
  ASSUME Next
  PROVE  MemoryStep
  <1>1. ASSUME NEW c \in Call, ReceiveTurn(c) \/ ReceiveDelete(c)
        PROVE  MemoryStep
    BY <1>1 DEF ReceiveTurn, ReceiveDelete, MemoryStep
  <1>2. ASSUME NEW c \in Call, TurnStep(c)
        PROVE  MemoryStep
    BY <1>2 DEF MemoryStep, TurnStep, ReadCache, ReadCacheFails, Reserve, ReserveFails, SqliteReserve,
           InsertReservation, InsertReservationFails, Acquire, Load, LoadFails, RunProcessor,
           ProcessFails, Commit, CommitFails, Persist, PersistFails, Complete, CompleteFails, Save,
           SaveFails, Unlock, Release, ReleaseFails, Abandon, FailsAt
  <1>3. ASSUME NEW c \in Call, DeleteStep(c)
        PROVE  MemoryStep
    BY <1>3 DEF MemoryStep, DeleteStep, AcquireDelete, Delete, DeleteFails, Purge, PurgeFails, FailsAt
  <1>4. ASSUME NEW p \in Process, Start(p) \/ StartUpStep(p) \/ Crash(p)
        PROVE  MemoryStep
    BY <1>4 DEF MemoryStep, Start, StartUpStep, Replay, ReplayFails, ReplayComplete,
                ReplayCompleteFails, Serve, Crash
  <1>5. ASSUME NEW p \in Process, NEW s \in Session, CreateSession(p, s)
        PROVE  MemoryStep
    BY <1>5 DEF MemoryStep, CreateSession
  <1>6. ASSUME NEW s \in Session, Expire(s)
        PROVE  MemoryStep
    BY <1>6 DEF MemoryStep, Expire
  <1>7. CASE AllAnswered
    BY <1>7 DEF MemoryStep, AllAnswered, vars
  <1>8. QED
    BY <1>1, <1>2, <1>3, <1>4, <1>5, <1>6, <1>7 DEF Next

\* What a step may do to a call, as far as its answer is concerned.
Stays(c) == UNCHANGED <<pc[c], job[c], rev[c], outcome[c]>>

Begins(c) ==
  pc[c] = "idle" /\ pc'[c] \in {"cache", "dlock"} /\ UNCHANGED outcome[c]

Moves(c) ==
  /\ pc'[c] \notin {"persist", "purge"}
  /\ pc'[c] \in {"complete", "save"} => pc[c] \in {"persist", "complete"}
  /\ pc[c] \in {"unlock", "release", "done"} => pc'[c] \in {"unlock", "release", "done"}
  /\ UNCHANGED <<job[c], rev[c], outcome[c]>>

Refused(c) ==
  pc'[c] \in {"unlock", "done"} /\ outcome'[c] \notin {"ok", "replayed"} /\ UNCHANGED job[c]

Replayed(c) ==
  /\ pc'[c] = "done"
  /\ \E x \in results : x.sess = job[c].sess /\ x.req = job[c].req /\ rev'[c] = x.rev
  /\ UNCHANGED job[c]

Commits(c) ==
  /\ pc[c] = "commit" /\ CommitTurn(c)
  /\ pc'[c] \in {"persist", "save"}
  /\ pc'[c] = "persist" => facts[c]
  /\ UNCHANGED <<job[c], outcome[c]>>

Saves(c) ==
  pc[c] = "save" /\ pc'[c] = "unlock" /\ UNCHANGED <<job[c], rev[c]>>

Deletes(c) ==
  /\ pc[c] = "delete" /\ pc'[c] = "purge"
  /\ status'[job[c].sess] = "deleted"
  /\ UNCHANGED <<job[c], outcome[c]>>

EndsDelete(c) == job[c].kind = "delete" /\ pc'[c] = "unlock" /\ UNCHANGED job[c]

CallStep(c) ==
  \/ Stays(c) \/ Begins(c) \/ Moves(c) \/ Refused(c) \/ Replayed(c) \/ Commits(c) \/ Saves(c)
  \/ Deletes(c) \/ EndsDelete(c)

LEMMA CallSteps ==
  ASSUME TypeOK, Next, NEW d \in Call
  PROVE  CallStep(d)
  <1> USE DEF TypeOK, CallTypeOK, Goto, Leave
  <1>1. ASSUME NEW c \in Call, ReceiveTurn(c) \/ ReceiveDelete(c)
        PROVE  Stays(d) \/ Begins(d)
    BY <1>1 DEF ReceiveTurn, ReceiveDelete, Stays, Begins
  <1>2. ASSUME NEW c \in Call, TurnStep(c)
        PROVE  CallStep(d)
    <2>1. CASE c # d
      BY <1>2, <2>1 DEF TurnStep, CommitTurn, ReadCache, ReadCacheFails, Reserve, ReserveFails, SqliteReserve,
           InsertReservation, InsertReservationFails, Acquire, Load, LoadFails, RunProcessor,
           ProcessFails, Commit, CommitFails, Persist, PersistFails, Complete, CompleteFails, Save,
           SaveFails, Unlock, Release, ReleaseFails, Abandon, FailsAt, CallStep, Stays
    <2>2. CASE c = d
      <3>1. CASE ReadCache(c)
        BY <2>2, <3>1 DEF CallStep, ReadCache, RequestResult, Moves, Replayed
      <3>2. CASE ReadCacheFails(c) \/ ReserveFails(c) \/ LoadFails(c) \/ ProcessFails(c)
        BY <2>2, <3>2 DEF CallStep, ReadCacheFails, ReserveFails, LoadFails, ProcessFails, Abandon, FailsAt, Refused
      <3>3. CASE Reserve(c) \/ SqliteReserve(c) \/ InsertReservation(c) \/ InsertReservationFails(c)
        BY <2>2, <3>3 DEF CallStep, Reserve, SqliteReserve, InsertReservation, InsertReservationFails, FailsAt, Moves, Refused
      <3>4. CASE Acquire(c) \/ Load(c) \/ RunProcessor(c)
        BY <2>2, <3>4 DEF CallStep, Acquire, Load, RunProcessor, Moves, Refused
      <3>5. CASE Commit(c)
        BY <2>2, <3>5 DEF CallStep, Commit, Commits, Refused
      <3>6. CASE CommitFails(c)
        BY <2>2, <3>6 DEF CallStep, CommitFails, Refused
      <3>7. CASE Persist(c) \/ PersistFails(c) \/ Complete(c) \/ CompleteFails(c)
        BY <2>2, <3>7 DEF CallStep, Persist, PersistFails, Complete, CompleteFails, FailsAt, Moves
      <3>8. CASE Save(c) \/ SaveFails(c)
        BY <2>2, <3>8 DEF CallStep, Save, SaveFails, FailsAt, Saves, Refused
      <3>9. CASE Unlock(c) \/ Release(c) \/ ReleaseFails(c)
        BY <2>2, <3>9 DEF CallStep, Unlock, Release, ReleaseFails, FailsAt, Moves
      <3>10. QED
        BY <1>2, <3>1, <3>2, <3>3, <3>4, <3>5, <3>6, <3>7, <3>8, <3>9 DEF TurnStep
    <2>3. QED
      BY <2>1, <2>2
  <1>3. ASSUME NEW c \in Call, DeleteStep(c)
        PROVE  CallStep(d)
    <2>1. CASE c # d
      BY <1>3, <2>1 DEF DeleteStep, AcquireDelete, Delete, DeleteFails, Purge, PurgeFails, CallStep, Stays
    <2>2. CASE c = d
      <3>1. (job[c].kind = "delete" /\ job[c].sess \in Session) \/ pc[c] \notin OnDelete
        BY DeleteJobType
      <3>2. CASE AcquireDelete(c)
        BY <2>2, <3>2 DEF CallStep, AcquireDelete, Moves
      <3>3. CASE Delete(c)
        BY <2>2, <3>1, <3>3 DEF CallStep, Delete, Deletes, EndsDelete, Refused, StoreDelete,
                                OnDelete, StoreTypeOK
      <3>4. CASE DeleteFails(c) \/ PurgeFails(c)
        BY <2>2, <3>4 DEF CallStep, DeleteFails, PurgeFails, Refused
      <3>5. CASE Purge(c)
        BY <2>2, <3>1, <3>5 DEF CallStep, Purge, EndsDelete, OnDelete
      <3>6. QED
        BY <1>3, <3>2, <3>3, <3>4, <3>5 DEF DeleteStep
    <2>3. QED
      BY <2>1, <2>2
  <1>4. ASSUME NEW p \in Process, Start(p) \/ StartUpStep(p)
        PROVE  Stays(d)
    BY <1>4 DEF Stays, callVars, Start, StartUpStep, Replay, ReplayFails, ReplayComplete,
                ReplayCompleteFails, Serve
  <1>5. ASSUME NEW p \in Process, Crash(p)
        PROVE  Stays(d) \/ Refused(d)
    BY <1>5 DEF Crash, Stays, Refused
  <1>6. ASSUME NEW p \in Process, NEW s \in Session, CreateSession(p, s)
        PROVE  Stays(d)
    BY <1>6 DEF Stays, CreateSession, callVars
  <1>7. ASSUME NEW s \in Session, Expire(s)
        PROVE  Stays(d)
    BY <1>7 DEF Stays, Expire
  <1>8. CASE AllAnswered
    BY <1>8 DEF CallStep, Stays, AllAnswered, vars, callVars
  <1>9. QED
    BY <1>1, <1>2, <1>3, <1>4, <1>5, <1>6, <1>7, <1>8 DEF Next, CallStep

-----------------------------------------------------------------------------
(* The invariant is kept *)

LEMMA PublishesStays ==
  ASSUME LedgerInv, Next, PayloadGrows
  PROVE  PublishesCommitted'
  <1> SUFFICES ASSUME NEW c \in Call
               PROVE  /\ pc'[c] \in {"persist", "complete", "save"} =>
                           Committed(job[c].sess, rev[c], job[c].req)'
                      /\ pc'[c] = "persist" => WithFacts(job[c].sess, rev[c])'
    BY DEF PublishesCommitted
  <1> USE DEF LedgerInv, NoLostUpdateInv
  <1>1. CallStep(c)
    BY CallSteps
  <1>2. pc[c] \in {"persist", "complete", "save"} => job[c].sess \in Session
    BY TurnJobType DEF OnTurn, TypeOK
  <1>3. CASE Stays(c) \/ Moves(c)
    <2>1. UNCHANGED <<job[c], rev[c]>>
      BY <1>3 DEF Stays, Moves
    <2>2. pc[c] \in {"persist", "complete", "save"} =>
            Committed(job[c].sess, rev[c], job[c].req)'
      BY <1>2, <2>1 DEF PublishesCommitted, Committed, PayloadGrows
    <2>3. pc[c] = "persist" => WithFacts(job[c].sess, rev[c])'
      BY <1>2, <2>1 DEF PublishesCommitted, WithFacts, PayloadGrows
    <2>4. QED
      BY <1>3, <2>2, <2>3 DEF Stays, Moves
  <1>4. CASE Begins(c) \/ Refused(c) \/ Replayed(c) \/ Saves(c) \/ Deletes(c) \/ EndsDelete(c)
    BY <1>4 DEF Begins, Refused, Replayed, Saves, Deletes, EndsDelete
  <1>5. CASE Commits(c)
    <2>1. UNCHANGED job[c] /\ (pc'[c] = "persist" => facts[c])
      BY <1>5 DEF Commits
    <2>2. /\ rev'[c] \in 1..Len(payload'[job[c].sess])
          /\ payload'[job[c].sess][rev'[c]] =
               [req |-> job[c].req, basis |-> seen[c], facts |-> facts[c]]
      BY <1>5, CommitRecords DEF Commits
    <2>3. QED
      BY <2>1, <2>2 DEF Committed, WithFacts
  <1>6. QED
    BY <1>1, <1>3, <1>4, <1>5 DEF CallStep

LEMMA UnansweredStays ==
  ASSUME LedgerInv, Next
  PROVE  OpenCallsUnanswered'
  <1> SUFFICES ASSUME NEW c \in Call, pc'[c] \notin {"unlock", "release", "done"}
               PROVE  outcome'[c] = "none"
    BY DEF OpenCallsUnanswered
  <1>1. CallStep(c)
    BY CallSteps DEF LedgerInv, NoLostUpdateInv
  <1>2. QED
    BY <1>1 DEF LedgerInv, OpenCallsUnanswered, CallStep, Stays, Begins, Moves, Refused, Replayed,
                Commits, Saves, Deletes, EndsDelete

\* Once deleted, a session stays deleted and gets no further turn.
LEMMA DeletedStays ==
  ASSUME TypeOK, StoreStep, NEW s \in Session, status[s] = "deleted"
  PROVE  status'[s] = "deleted" /\ payload'[s] = payload[s]
  <1>1. CASE UNCHANGED <<status, payload>>
    BY <1>1
  <1>2. ASSUME NEW r \in Session, NEW b \in Bundle, StoreCreate(r, b)
        PROVE  status'[s] = "deleted" /\ payload'[s] = payload[s]
    BY <1>2 DEF StoreCreate, TypeOK, StoreTypeOK
  <1>3. ASSUME NEW c \in Call, StoreDelete(job[c].sess)
        PROVE  status'[s] = "deleted" /\ payload'[s] = payload[s]
    BY <1>3 DEF StoreDelete, TypeOK, StoreTypeOK
  <1>4. ASSUME NEW c \in Call, pc[c] = "commit", CanCommit(job[c].sess, job[c].exp), CommitTurn(c)
        PROVE  status'[s] = "deleted" /\ payload'[s] = payload[s]
    <2>1. s # job[c].sess
      BY <1>4 DEF CanCommit, Active
    <2>2. payload'[s] = payload[s]
      BY <1>4, <2>1, CommitAppends DEF TypeOK, StoreTypeOK
    <2>3. QED
      BY <1>4, <2>2 DEF CommitTurn, StoreCommit
  <1>5. UNCHANGED <<status, payload>>
        \/ (\E r \in Session, b \in Bundle : StoreCreate(r, b))
        \/ (\E c \in Call : StoreDelete(job[c].sess))
        \/ (\E c \in Call : pc[c] = "commit" /\ CanCommit(job[c].sess, job[c].exp) /\ CommitTurn(c))
    BY DEF StoreStep, storeVars, StoreInsertReservation, StoreRelease, StoreExpire,
           StoreSaveResult, StoreCompleteMemory
  <1>6. QED
    BY <1>1, <1>2, <1>3, <1>4, <1>5

LEMMA PurgesStays ==
  ASSUME LedgerInv, Next
  PROVE  PurgesDeleted'
  <1> SUFFICES ASSUME NEW c \in Call, pc'[c] = "purge"
               PROVE  status'[job'[c].sess] = "deleted"
    BY DEF PurgesDeleted
  <1> USE DEF LedgerInv, NoLostUpdateInv
  <1>1. CallStep(c)
    BY CallSteps
  <1>2. CASE Stays(c)
    <2>1. job[c].sess \in Session /\ status[job[c].sess] = "deleted"
      BY <1>2, DeleteJobType DEF Stays, OnDelete, TypeOK, PurgesDeleted
    <2>2. QED
      BY <1>2, <2>1, StoreSteps, DeletedStays DEF Stays
  <1>3. QED
    BY <1>1, <1>2 DEF CallStep, Begins, Moves, Refused, Replayed, Commits, Saves, Deletes, EndsDelete

LEMMA SavedStays ==
  ASSUME LedgerInv, Next, PayloadGrows
  PROVE  SavedAnswersAreCommitted'
  <1> USE DEF LedgerInv, NoLostUpdateInv
  <1> SUFFICES ASSUME NEW x \in results'
               PROVE  Committed(x.sess, x.rev, x.req)'
    BY DEF SavedAnswersAreCommitted, Committed, Revision
  <1>1. CASE x \in results
    <2>1. x.sess \in Session
      BY <1>1 DEF TypeOK, StoreTypeOK, Result
    <2>2. Committed(x.sess, x.rev, x.req)
      BY <1>1 DEF SavedAnswersAreCommitted, Committed, Revision
    <2>3. QED
      BY <2>1, <2>2 DEF Committed, PayloadGrows
  <1>2. ASSUME NEW c \in Call, pc[c] = "save", StoreSaveResult(job[c].sess, job[c].req, rev[c]),
               x \notin results
        PROVE  Committed(x.sess, x.rev, x.req)'
    <2>1. x = [sess |-> job[c].sess, req |-> job[c].req, rev |-> rev[c]]
      BY <1>2 DEF StoreSaveResult
    <2>2. Committed(job[c].sess, rev[c], job[c].req)
      BY <1>2 DEF PublishesCommitted
    <2>3. job[c].sess \in Session
      BY <1>2, TurnJobType DEF OnTurn, TypeOK
    <2>4. QED
      BY <2>1, <2>2, <2>3 DEF Committed, PayloadGrows
  <1>3. UNCHANGED results
        \/ \E c \in Call : pc[c] = "save" /\ StoreSaveResult(job[c].sess, job[c].req, rev[c])
    BY StoreSteps DEF StoreStep, storeVars, StoreCreate, StoreInsertReservation, StoreRelease,
                      StoreExpire, StoreCompleteMemory, StoreDelete, CommitTurn, StoreCommit
  <1>4. QED
    BY <1>1, <1>2, <1>3

LEMMA AnswersStay ==
  ASSUME LedgerInv, Next, PayloadGrows
  PROVE  AnswersMatchLedger'
  <1> USE DEF LedgerInv, NoLostUpdateInv
  <1> SUFFICES ASSUME NEW c \in Call, outcome'[c] \in {"ok", "replayed"}, job'[c].kind = "turn"
               PROVE  Committed(job[c].sess, rev[c], job[c].req)'
    BY DEF AnswersMatchLedger, Committed, Revision
  <1>1. CallStep(c)
    BY CallSteps
  <1>2. CASE UNCHANGED <<job[c], rev[c]>> /\ Committed(job[c].sess, rev[c], job[c].req)
    <2>1. job[c].sess \in Session
      BY <1>2 DEF TypeOK, CallTypeOK, TurnJob, DeleteJob, NoJob
    <2>2. QED
      BY <1>2, <2>1 DEF Committed, PayloadGrows
  <1>3. CASE Stays(c) \/ Moves(c)
    BY <1>2, <1>3 DEF Stays, Moves, AnswersMatchLedger, Committed, Revision
  <1>4. CASE Saves(c)
    BY <1>2, <1>4 DEF Saves, PublishesCommitted
  <1>5. CASE Replayed(c)
    <2>1. PICK x \in results : x.sess = job[c].sess /\ x.req = job[c].req /\ rev'[c] = x.rev
      BY <1>5 DEF Replayed
    <2>2. Committed(x.sess, x.rev, x.req) /\ x.sess \in Session
      BY <2>1 DEF SavedAnswersAreCommitted, Committed, Revision, TypeOK, StoreTypeOK, Result
    <2>3. QED
      BY <1>5, <2>1, <2>2 DEF Replayed, Committed, PayloadGrows
  <1>6. CASE Begins(c) \/ Commits(c) \/ Deletes(c)
    <2>1. outcome[c] = "none" /\ outcome'[c] = outcome[c]
      BY <1>6 DEF Begins, Commits, Deletes, OpenCallsUnanswered
    <2>2. QED
      BY <2>1
  <1>7. CASE Refused(c) \/ EndsDelete(c)
    BY <1>7 DEF Refused, EndsDelete
  <1>8. QED
    BY <1>1, <1>3, <1>4, <1>5, <1>6, <1>7 DEF CallStep

\* Rows enter the outbox with the commit of the turn they announce.
LEMMA OutboxStays ==
  ASSUME LedgerInv, Next, PayloadGrows
  PROVE  OutboxFollowsCommit'
  <1> USE DEF LedgerInv, NoLostUpdateInv
  <1> SUFFICES ASSUME NEW i \in 1..Len(outbox')
               PROVE  WithFacts(outbox[i].sess, outbox[i].rev)'
    BY DEF OutboxFollowsCommit
  <1>1. outbox \in Seq(OutboxRow)
    BY DEF TypeOK, StoreTypeOK
  <1>2. CASE /\ i \in 1..Len(outbox)
             /\ outbox'[i].sess = outbox[i].sess /\ outbox'[i].rev = outbox[i].rev
    <2>1. outbox[i].sess \in Session
      <3>1. outbox[i] \in OutboxRow
        BY <1>1, <1>2
      <3>2. QED
        BY <3>1 DEF OutboxRow
    <2>2. QED
      BY <1>2, <2>1 DEF OutboxFollowsCommit, WithFacts, PayloadGrows
  <1>3. CASE UNCHANGED outbox
    BY <1>2, <1>3
  <1>4. ASSUME NEW s, NEW n, StoreCompleteMemory(s, n)
        PROVE  WithFacts(outbox[i].sess, outbox[i].rev)'
    <2>1. i \in 1..Len(outbox)
      BY <1>1, <1>4, CompleteMemoryKeepsTypes DEF TypeOK
    <2>2. outbox[i] \in OutboxRow
      BY <1>1, <2>1
    <2>3. outbox'[i] = IF outbox[i].sess = s /\ outbox[i].rev = n
                       THEN [outbox[i] EXCEPT !.delivered = TRUE]
                       ELSE outbox[i]
      BY <1>4, <2>1 DEF StoreCompleteMemory
    <2>4. outbox'[i].sess = outbox[i].sess /\ outbox'[i].rev = outbox[i].rev
      BY <2>2, <2>3 DEF OutboxRow
    <2>5. QED
      BY <1>2, <2>1, <2>4
  <1>5. ASSUME NEW c \in Call, pc[c] = "commit", CommitTurn(c)
        PROVE  WithFacts(outbox[i].sess, outbox[i].rev)'
    <2> DEFINE row == [sess |-> job[c].sess, rev |-> Revision(job[c].sess) + 1, delivered |-> FALSE]
    <2>1. outbox' = IF HasOutbox /\ facts[c] THEN Append(outbox, row) ELSE outbox
      BY <1>5 DEF CommitTurn, StoreCommit, OutboxInsert
    <2>2. CASE ~(HasOutbox /\ facts[c])
      BY <1>3, <2>1, <2>2
    <2>3. CASE HasOutbox /\ facts[c]
      <3>1. outbox' = Append(outbox, row)
        BY <2>1, <2>3
      <3>2. CASE i \in 1..Len(outbox)
        BY <1>1, <1>2, <3>1, <3>2
      <3>3. CASE i = Len(outbox) + 1
        <4>1. outbox'[i] = row
          BY <1>1, <3>1, <3>3
        <4>2. rev'[c] = Revision(job[c].sess) + 1
          BY <1>5 DEF CommitTurn, TypeOK, CallTypeOK
        <4>3. outbox'[i].sess = job[c].sess /\ outbox'[i].rev = rev'[c]
          BY <4>1, <4>2
        <4>4. /\ rev'[c] \in 1..Len(payload'[job[c].sess])
              /\ payload'[job[c].sess][rev'[c]] =
                   [req |-> job[c].req, basis |-> seen[c], facts |-> facts[c]]
          BY <1>5, CommitRecords
        <4>5. QED
          BY <2>3, <4>3, <4>4 DEF WithFacts
      <3>4. QED
        BY <1>1, <3>1, <3>2, <3>3
    <2>4. QED
      BY <2>2, <2>3
  <1>6. UNCHANGED outbox
        \/ (\E s, n : StoreCompleteMemory(s, n))
        \/ (\E c \in Call : pc[c] = "commit" /\ CommitTurn(c))
    BY StoreSteps DEF StoreStep, storeVars, StoreCreate, StoreInsertReservation, StoreRelease,
                      StoreExpire, StoreSaveResult, StoreDelete
  <1>7. QED
    BY <1>3, <1>4, <1>5, <1>6

LEMMA MemoryStays ==
  ASSUME LedgerInv, Next, PayloadGrows
  PROVE  MemoryFollowsCommit'
  <1> USE DEF LedgerInv, NoLostUpdateInv
  <1> SUFFICES ASSUME NEW m \in memory'
               PROVE  WithFacts(m.sess, m.rev)'
    BY DEF MemoryFollowsCommit, WithFacts, Revision
  <1>1. ASSUME NEW s \in Session, NEW n, WithFacts(s, n)
        PROVE  WithFacts(s, n)'
    BY <1>1 DEF WithFacts, PayloadGrows
  <1>2. CASE m \in memory
    <2>1. m.sess \in Session
      BY <1>2 DEF TypeOK, ProcessTypeOK
    <2>2. WithFacts(m.sess, m.rev)
      BY <1>2 DEF MemoryFollowsCommit, WithFacts, Revision
    <2>3. QED
      BY <1>1, <2>1, <2>2
  <1>3. ASSUME NEW c \in Call, pc[c] = "persist", m = [sess |-> job[c].sess, rev |-> rev[c]]
        PROVE  WithFacts(m.sess, m.rev)'
    <2>1. job[c].sess \in Session
      BY <1>3, TurnJobType DEF OnTurn, TypeOK
    <2>2. WithFacts(job[c].sess, rev[c])
      BY <1>3 DEF PublishesCommitted
    <2>3. QED
      BY <1>1, <1>3, <2>1, <2>2
  <1>4. ASSUME NEW i \in 1..Len(outbox), m = [sess |-> outbox[i].sess, rev |-> outbox[i].rev]
        PROVE  WithFacts(m.sess, m.rev)'
    <2>1. outbox[i].sess \in Session
      <3>1. outbox[i] \in OutboxRow
        BY <1>4 DEF TypeOK, StoreTypeOK
      <3>2. QED
        BY <3>1 DEF OutboxRow
    <2>2. WithFacts(outbox[i].sess, outbox[i].rev)
      BY <1>4 DEF OutboxFollowsCommit
    <2>3. QED
      BY <1>1, <1>4, <2>1, <2>2
  <1>5. \/ m \in memory
        \/ \E c \in Call : pc[c] = "persist" /\ m = [sess |-> job[c].sess, rev |-> rev[c]]
        \/ \E p \in Process : \E i \in queue[p] :
             m = [sess |-> outbox[i].sess, rev |-> outbox[i].rev]
    BY MemorySteps DEF MemoryStep, PurgeMemory
  <1>6. \A p \in Process : queue[p] \subseteq 1..Len(outbox)
    BY DEF TypeOK, ProcessTypeOK
  <1>7. QED
    BY <1>2, <1>3, <1>4, <1>5, <1>6

LEMMA InitLedgerInv ==
  ASSUME Init
  PROVE  LedgerInv
  <1>1. NoLostUpdateInv
    BY InitTypeOK DEF NoLostUpdateInv, NoLostUpdate, SnapshotIsExpected, Init, StoreInit
  <1>2. QED
    BY <1>1 DEF LedgerInv, PublishesCommitted, OutboxFollowsCommit, OpenCallsUnanswered,
                PurgesDeleted, SavedAnswersAreCommitted, AnswersMatchLedger, MemoryFollowsCommit,
                Init, StoreInit

LEMMA StutterKeepsLedgerInv ==
  ASSUME LedgerInv, UNCHANGED vars
  PROVE  LedgerInv'
  BY StutterKeepsTypes
  DEF LedgerInv, NoLostUpdateInv, NoLostUpdate, SnapshotIsExpected, PublishesCommitted,
      OutboxFollowsCommit, OpenCallsUnanswered, PurgesDeleted, SavedAnswersAreCommitted,
      AnswersMatchLedger, MemoryFollowsCommit, Committed, WithFacts, Revision,
      vars, storeVars, procVars, callVars

LEMMA NextKeepsLedgerInv ==
  ASSUME LedgerInv, Next
  PROVE  LedgerInv'
  <1>1. TypeOK /\ StoreStep /\ PayloadGrows
    BY StoreSteps, StepsGrowPayload DEF LedgerInv, NoLostUpdateInv
  <1>2. NoLostUpdateInv'
    BY NextKeepsNoLostUpdate DEF LedgerInv
  <1>3. QED
    BY <1>1, <1>2, PublishesStays, OutboxStays, UnansweredStays, PurgesStays, SavedStays,
       AnswersStay, MemoryStays
    DEF LedgerInv

LEMMA LedgerInvHolds == Spec => []LedgerInv
  <1>1. Init => LedgerInv
    BY InitLedgerInv
  <1>2. LedgerInv /\ [Next]_vars => LedgerInv'
    BY NextKeepsLedgerInv, StutterKeepsLedgerInv
  <1>3. QED
    BY <1>1, <1>2, PTL DEF Spec

-----------------------------------------------------------------------------
(* What follows *)

\* An answer saved under a request id is the revision that request committed, even
\* when several processes worked on the same request.
THEOREM SavedAnswersHold == Spec => []SavedAnswersAreCommitted
  <1>1. LedgerInv => SavedAnswersAreCommitted
    BY DEF LedgerInv
  <1>2. QED
    BY <1>1, LedgerInvHolds, PTL

\* A client that is told of success is told a revision its own request committed in
\* its own session, be the answer fresh or replayed.
THEOREM AnswersHold == Spec => []AnswersMatchLedger
  <1>1. LedgerInv => AnswersMatchLedger
    BY DEF LedgerInv
  <1>2. QED
    BY <1>1, LedgerInvHolds, PTL

\* Result memory never holds a fact of a turn that was not committed, through every
\* replay of the outbox.
THEOREM MemoryHolds == Spec => []MemoryFollowsCommit
  <1>1. LedgerInv => MemoryFollowsCommit
    BY DEF LedgerInv
  <1>2. QED
    BY <1>1, LedgerInvHolds, PTL

\* No step adds a turn to a deleted session, or revives it.
THEOREM DeleteHolds == Spec => DeleteIsFinal
  <1> DEFINE Final == \A s \in Session : status[s] = "deleted" =>
                        status'[s] = "deleted" /\ payload'[s] = payload[s]
  <1>1. TypeOK /\ [Next]_vars => [Final]_vars
    <2>1. ASSUME TypeOK, Next
          PROVE  Final
      BY <2>1, StoreSteps, DeletedStays
    <2>2. QED
      BY <2>1
  <1>2. QED
    BY <1>1, TypeCorrect, PTL DEF Spec, DeleteIsFinal

-----------------------------------------------------------------------------
(* Refinement *)

LEMMA LedgerInit ==
  ASSUME Init
  PROVE  Ledger!Init
  BY DEF Init, StoreInit, Ledger!Init

\* Each step of the service is one step of the ledger, or invisible in it.
LEMMA LedgerStep ==
  ASSUME LedgerInv, Next
  PROVE  [Ledger!Next]_(Ledger!ledgerVars)
  <1> USE DEF LedgerInv, NoLostUpdateInv
  <1>1. StoreStep /\ MemoryStep
    BY StoreSteps, MemorySteps
  <1>2. CASE UNCHANGED <<status, payload, results, memory>>
    BY <1>2 DEF Ledger!ledgerVars
  <1>3. ASSUME UNCHANGED memory, NEW s \in Session, NEW b \in Bundle, StoreCreate(s, b)
        PROVE  Ledger!Next
    BY <1>3 DEF StoreCreate, Ledger!Next, Ledger!Open
  <1>4. ASSUME UNCHANGED memory, NEW c \in Call, pc[c] = "commit",
               CanCommit(job[c].sess, job[c].exp), CommitTurn(c)
        PROVE  Ledger!Next
    <2>1. job[c].sess \in Session /\ job[c].req \in Request /\ facts[c] \in BOOLEAN
      BY <1>4, TurnJobType DEF OnTurn, TypeOK, CallTypeOK
    <2>2. seen[c] = Len(payload[job[c].sess])
      BY <1>4 DEF SnapshotIsExpected, CanCommit, Revision
    <2>3. status[job[c].sess] = "active" /\ UNCHANGED <<status, results>>
      BY <1>4 DEF CanCommit, Active, CommitTurn, StoreCommit
    <2>4. Ledger!Extend(job[c].sess)
      BY <1>4, <2>1, <2>2, <2>3, CommitAppends DEF Ledger!Extend
    <2>5. QED
      BY <2>1, <2>4 DEF Ledger!Next
  <1>5. ASSUME UNCHANGED memory, NEW c \in Call, pc[c] = "delete", Active(job[c].sess),
               StoreDelete(job[c].sess)
        PROVE  Ledger!Next
    <2>1. job[c].sess \in Session
      BY <1>5, DeleteJobType DEF OnDelete, TypeOK
    <2>2. QED
      BY <1>5, <2>1 DEF Active, StoreDelete, Ledger!Next, Ledger!Close
  <1>6. ASSUME UNCHANGED memory, NEW c \in Call, pc[c] = "save",
               StoreSaveResult(job[c].sess, job[c].req, rev[c])
        PROVE  Ledger!Next \/ UNCHANGED <<status, payload, results, memory>>
    <2>1. CASE RequestResult(job[c].sess, job[c].req) # {}
      BY <1>6, <2>1 DEF StoreSaveResult
    <2>2. CASE RequestResult(job[c].sess, job[c].req) = {}
      <3>1. job[c].sess \in Session
        BY <1>6, TurnJobType DEF OnTurn, TypeOK
      <3>2. Committed(job[c].sess, rev[c], job[c].req)
        BY <1>6 DEF PublishesCommitted
      <3>3. \A a \in results : ~(a.sess = job[c].sess /\ a.req = job[c].req)
        BY <2>2 DEF RequestResult
      <3>4. results' = results \cup {[sess |-> job[c].sess, req |-> job[c].req, rev |-> rev[c]]}
            /\ UNCHANGED <<status, payload>>
        BY <1>6, <2>2 DEF StoreSaveResult
      <3>5. Ledger!Answer(job[c].sess)
        BY <1>6, <3>2, <3>3, <3>4 DEF Ledger!Answer, Committed
      <3>6. QED
        BY <3>1, <3>5 DEF Ledger!Next
    <2>3. QED
      BY <2>1, <2>2
  <1>7. ASSUME UNCHANGED storeVars, NEW s \in Session, NEW n, WithFacts(s, n),
               memory' = memory \cup {[sess |-> s, rev |-> n]}
        PROVE  Ledger!Next
    BY <1>7 DEF WithFacts, storeVars, Ledger!Next, Ledger!Remember
  <1>8. ASSUME UNCHANGED storeVars, NEW c \in Call, pc[c] = "persist",
               memory' = memory \cup {[sess |-> job[c].sess, rev |-> rev[c]]}
        PROVE  Ledger!Next
    <2>1. job[c].sess \in Session /\ WithFacts(job[c].sess, rev[c])
      BY <1>8, TurnJobType DEF OnTurn, TypeOK, PublishesCommitted
    <2>2. QED
      BY <1>7, <1>8, <2>1
  <1>9. ASSUME UNCHANGED storeVars, NEW p \in Process, NEW i \in queue[p],
               memory' = memory \cup {[sess |-> outbox[i].sess, rev |-> outbox[i].rev]}
        PROVE  Ledger!Next
    <2>1. i \in 1..Len(outbox)
      BY <1>9 DEF TypeOK, ProcessTypeOK
    <2>2. outbox[i] \in OutboxRow
      BY <2>1 DEF TypeOK, StoreTypeOK
    <2>3. outbox[i].sess \in Session /\ WithFacts(outbox[i].sess, outbox[i].rev)
      BY <2>1, <2>2 DEF OutboxRow, OutboxFollowsCommit
    <2>4. QED
      BY <1>7, <1>9, <2>3
  <1>10. ASSUME UNCHANGED storeVars, NEW c \in Call, pc[c] = "purge",
                memory' = PurgeMemory(job[c].sess)
         PROVE  Ledger!Next
    <2>1. job[c].sess \in Session /\ status[job[c].sess] = "deleted"
      BY <1>10, DeleteJobType DEF OnDelete, TypeOK, PurgesDeleted
    <2>2. QED
      BY <1>10, <2>1 DEF storeVars, PurgeMemory, Ledger!Next, Ledger!Forget
  <1>11. CASE UNCHANGED memory
    <2>1. \/ UNCHANGED <<status, payload, results>>
          \/ \E s \in Session, b \in Bundle : StoreCreate(s, b)
          \/ \E c \in Call : /\ pc[c] = "commit" /\ CanCommit(job[c].sess, job[c].exp)
                            /\ CommitTurn(c)
          \/ \E c \in Call : /\ pc[c] = "delete" /\ Active(job[c].sess)
                            /\ StoreDelete(job[c].sess)
          \/ \E c \in Call : /\ pc[c] = "save"
                            /\ StoreSaveResult(job[c].sess, job[c].req, rev[c])
      BY <1>1 DEF StoreStep, storeVars, StoreInsertReservation, StoreRelease, StoreExpire,
                  StoreCompleteMemory
    <2>2. QED
      BY <1>2, <1>3, <1>4, <1>5, <1>6, <1>11, <2>1
  <1>12. CASE ~UNCHANGED memory
    BY <1>1, <1>8, <1>9, <1>10, <1>12 DEF MemoryStep
  <1>13. QED
    BY <1>11, <1>12

\* The service implements the ledger: sessions that only grow, turn by turn and each
\* from all before it, one lasting answer per request, a memory of recorded facts.
THEOREM ImplementsLedger == Spec => LedgerSpec
  <1>1. Init => Ledger!Init
    BY LedgerInit
  <1>2. LedgerInv /\ [Next]_vars => [Ledger!Next]_(Ledger!ledgerVars)
    <2>1. ASSUME LedgerInv, Next
          PROVE  [Ledger!Next]_(Ledger!ledgerVars)
      BY <2>1, LedgerStep
    <2>2. ASSUME UNCHANGED vars
          PROVE  UNCHANGED Ledger!ledgerVars
      BY <2>2 DEF vars, storeVars, Ledger!ledgerVars
    <2>3. QED
      BY <2>1, <2>2
  <1>3. QED
    BY <1>1, <1>2, LedgerInvHolds, PTL DEF Spec, LedgerSpec, Ledger!Spec

-----------------------------------------------------------------------------
(* The inductive invariant of delivery *)

Fact(s, n) == [sess |-> s, rev |-> n]

\* Whoever is about to mark a row as delivered has delivered it, or its session
\* was deleted in the meantime.
Delivered(s, n) == Active(s) => Fact(s, n) \in memory

HandlersDelivered ==
  \A c \in Call : pc[c] = "complete" => Delivered(job[c].sess, rev[c])

ReplaysDelivered ==
  \A p \in Process : phase[p] = "complete" =>
    \E i \in queue[p] : Oldest(p, i) /\ Delivered(outbox[i].sess, outbox[i].rev)

AbsentIsEmpty == \A s \in Session : status[s] = "absent" => payload[s] = <<>>

DeliveryInv ==
  LedgerInv /\ HandlersDelivered /\ ReplaysDelivered /\ AbsentIsEmpty /\ NoFactsLost

-----------------------------------------------------------------------------
(* What a step does to sessions, to memory and to the outbox *)

LEMMA SessionsStep ==
  ASSUME TypeOK, AbsentIsEmpty, StoreStep, NEW s \in Session
  PROVE  /\ status'[s] = "absent" => payload'[s] = <<>>
         /\ Active(s)' /\ Len(payload[s]) > 0 => Active(s)
  <1> USE DEF TypeOK, StoreTypeOK, AbsentIsEmpty, Active
  <1>1. CASE UNCHANGED <<status, payload>>
    BY <1>1
  <1>2. ASSUME NEW r \in Session, NEW b \in Bundle, StoreCreate(r, b)
        PROVE  /\ status'[s] = "absent" => payload'[s] = <<>>
               /\ Active(s)' /\ Len(payload[s]) > 0 => Active(s)
    <2>1. status[r] = "absent" /\ payload[r] = <<>> /\ Len(payload[r]) = 0
      BY <1>2 DEF StoreCreate
    <2>2. QED
      BY <1>2, <2>1 DEF StoreCreate
  <1>3. ASSUME NEW c \in Call, StoreDelete(job[c].sess)
        PROVE  /\ status'[s] = "absent" => payload'[s] = <<>>
               /\ Active(s)' /\ Len(payload[s]) > 0 => Active(s)
    BY <1>3 DEF StoreDelete
  <1>4. ASSUME NEW c \in Call, pc[c] = "commit", CanCommit(job[c].sess, job[c].exp), CommitTurn(c)
        PROVE  /\ status'[s] = "absent" => payload'[s] = <<>>
               /\ Active(s)' /\ Len(payload[s]) > 0 => Active(s)
    <2>1. status' = status /\ status[job[c].sess] = "active"
      BY <1>4 DEF CommitTurn, StoreCommit, CanCommit
    <2>2. s # job[c].sess => payload'[s] = payload[s]
      BY <1>4, CommitAppends
    <2>3. QED
      BY <2>1, <2>2
  <1>5. UNCHANGED <<status, payload>>
        \/ (\E r \in Session, b \in Bundle : StoreCreate(r, b))
        \/ (\E c \in Call : StoreDelete(job[c].sess))
        \/ (\E c \in Call : pc[c] = "commit" /\ CanCommit(job[c].sess, job[c].exp) /\ CommitTurn(c))
    BY DEF StoreStep, storeVars, StoreInsertReservation, StoreRelease, StoreExpire,
           StoreSaveResult, StoreCompleteMemory
  <1>6. QED
    BY <1>1, <1>2, <1>3, <1>4, <1>5

\* Only facts of deleted sessions leave the memory.
LEMMA MemoryKeeps ==
  ASSUME LedgerInv, Next, NEW m \in memory, status[m.sess] # "deleted"
  PROVE  m \in memory'
  <1>1. ASSUME NEW c \in Call, pc[c] = "purge", memory' = PurgeMemory(job[c].sess)
        PROVE  m \in memory'
    BY <1>1 DEF LedgerInv, PurgesDeleted, PurgeMemory
  <1>2. QED
    BY <1>1, MemorySteps DEF MemoryStep

LEMMA FactsStay ==
  ASSUME LedgerInv, AbsentIsEmpty, Next, NEW s \in Session, NEW n, n \in 1..Len(payload[s]),
         Active(s) => Fact(s, n) \in memory, status'[s] = "active"
  PROVE  Fact(s, n) \in memory'
  <1>1. Len(payload[s]) > 0
    BY DEF LedgerInv, NoLostUpdateInv, TypeOK, StoreTypeOK
  <1>2. Active(s)
    BY <1>1, SessionsStep, StoreSteps DEF LedgerInv, NoLostUpdateInv, Active
  <1>3. Fact(s, n) \in memory /\ status[Fact(s, n).sess] # "deleted"
    BY <1>2 DEF Active, Fact
  <1>4. QED
    BY <1>3, MemoryKeeps

\* A row is added by a commit and marked by whoever delivered it.
OutboxStep ==
  \/ UNCHANGED outbox
  \/ \E c \in Call : pc[c] = "commit" /\ CommitTurn(c)
  \/ \E c \in Call : pc[c] = "complete" /\ StoreCompleteMemory(job[c].sess, rev[c])
  \/ \E p \in Process : \E i \in queue[p] :
       /\ phase[p] = "complete" /\ Oldest(p, i)
       /\ StoreCompleteMemory(outbox[i].sess, outbox[i].rev)

LEMMA OutboxSteps ==
  ASSUME Next
  PROVE  OutboxStep
  <1>1. ASSUME NEW c \in Call, ReceiveTurn(c) \/ ReceiveDelete(c)
        PROVE  UNCHANGED outbox
    BY <1>1 DEF ReceiveTurn, ReceiveDelete, storeVars
  <1>2. ASSUME NEW c \in Call, TurnStep(c)
        PROVE  OutboxStep
    BY <1>2 DEF OutboxStep, TurnStep, ReadCache, ReadCacheFails, Reserve, ReserveFails, SqliteReserve,
           InsertReservation, InsertReservationFails, Acquire, Load, LoadFails, RunProcessor,
           ProcessFails, Commit, CommitFails, Persist, PersistFails, Complete, CompleteFails, Save,
           SaveFails, Unlock, Release, ReleaseFails, Abandon, FailsAt, StoreInsertReservation,
           StoreRelease, StoreSaveResult, storeVars
  <1>3. ASSUME NEW c \in Call, DeleteStep(c)
        PROVE  UNCHANGED outbox
    BY <1>3 DEF DeleteStep, AcquireDelete, Delete, DeleteFails, Purge, PurgeFails, StoreDelete,
                storeVars
  <1>4. ASSUME NEW p \in Process, Start(p) \/ StartUpStep(p) \/ Crash(p)
        PROVE  OutboxStep
    BY <1>4 DEF OutboxStep, Start, StartUpStep, Replay, ReplayFails, ReplayComplete,
                ReplayCompleteFails, Serve, Crash, storeVars
  <1>5. ASSUME NEW p \in Process, NEW s \in Session, CreateSession(p, s)
        PROVE  UNCHANGED outbox
    BY <1>5 DEF CreateSession, StoreCreate
  <1>6. ASSUME NEW s \in Session, Expire(s)
        PROVE  UNCHANGED outbox
    BY <1>6 DEF Expire, StoreExpire
  <1>7. CASE AllAnswered
    BY <1>7 DEF OutboxStep, AllAnswered, vars, storeVars
  <1>8. QED
    BY <1>1, <1>2, <1>3, <1>4, <1>5, <1>6, <1>7 DEF Next, OutboxStep

\* No row changes its turn, and a pending one stays so unless it is delivered.
LEMMA RowsStay ==
  ASSUME DeliveryInv, Next, NEW j \in 1..Len(outbox)
  PROVE  /\ j \in 1..Len(outbox')
         /\ outbox'[j].sess = outbox[j].sess /\ outbox'[j].rev = outbox[j].rev
         /\ ~outbox[j].delivered =>
              ~outbox'[j].delivered \/ Delivered(outbox[j].sess, outbox[j].rev)
  <1>1. /\ outbox \in Seq(OutboxRow) /\ outbox[j] \in OutboxRow
        /\ queue \in [Process -> SUBSET (1..Len(outbox))]
    BY DEF DeliveryInv, LedgerInv, NoLostUpdateInv, TypeOK, StoreTypeOK, ProcessTypeOK
  <1>2. ASSUME NEW s, NEW n, StoreCompleteMemory(s, n), Delivered(s, n)
        PROVE  /\ j \in 1..Len(outbox')
               /\ outbox'[j].sess = outbox[j].sess /\ outbox'[j].rev = outbox[j].rev
               /\ ~outbox[j].delivered =>
                    ~outbox'[j].delivered \/ Delivered(outbox[j].sess, outbox[j].rev)
    <2>1. Len(outbox') = Len(outbox)
      BY <1>2, CompleteMemoryKeepsTypes DEF DeliveryInv, LedgerInv, NoLostUpdateInv, TypeOK
    <2>2. outbox'[j] = IF outbox[j].sess = s /\ outbox[j].rev = n
                       THEN [outbox[j] EXCEPT !.delivered = TRUE] ELSE outbox[j]
      BY <1>2 DEF StoreCompleteMemory
    <2>3. QED
      BY <1>1, <1>2, <2>1, <2>2 DEF OutboxRow
  <1>3. ASSUME NEW c \in Call, pc[c] = "commit", CommitTurn(c)
        PROVE  j \in 1..Len(outbox') /\ outbox'[j] = outbox[j]
    <2>1. outbox' = outbox \/ \E row : outbox' = Append(outbox, row)
      BY <1>3 DEF CommitTurn, StoreCommit, OutboxInsert
    <2>2. QED
      BY <1>1, <2>1
  <1>4. ASSUME NEW p \in Process, NEW i \in queue[p], phase[p] = "complete", Oldest(p, i)
        PROVE  Delivered(outbox[i].sess, outbox[i].rev)
    <2>1. PICK k \in queue[p] : Oldest(p, k) /\ Delivered(outbox[k].sess, outbox[k].rev)
      BY <1>4 DEF DeliveryInv, ReplaysDelivered
    <2>2. i <= k /\ k <= i /\ i \in Nat /\ k \in Nat
      BY <1>1, <1>4, <2>1 DEF Oldest
    <2>3. QED
      BY <2>1, <2>2
  <1>5. QED
    BY <1>1, <1>2, <1>3, <1>4, OutboxSteps DEF OutboxStep, DeliveryInv, HandlersDelivered

\* Who comes to mark a row has just delivered it, or was there before.
LEMMA HandlersReach ==
  ASSUME TypeOK, Next, NEW d \in Call, pc'[d] = "complete"
  PROVE  /\ UNCHANGED <<job[d], rev[d]>> /\ job[d].sess \in Session
         /\ \/ pc[d] = "complete"
            \/ pc[d] = "persist" /\ Fact(job[d].sess, rev[d]) \in memory'
  <1> USE DEF TypeOK, CallTypeOK, Goto, Leave
  <1>1. ASSUME NEW c \in Call, ReceiveTurn(c) \/ ReceiveDelete(c)
        PROVE  UNCHANGED <<pc[d], job[d], rev[d]>>
    BY <1>1 DEF ReceiveTurn, ReceiveDelete
  <1>2. ASSUME NEW c \in Call, TurnStep(c)
        PROVE  \/ UNCHANGED <<pc[d], job[d], rev[d]>>
               \/ /\ UNCHANGED <<job[d], rev[d]>>
                  /\ pc[d] = "persist" /\ Fact(job[d].sess, rev[d]) \in memory'
    BY <1>2 DEF Fact, TurnStep, CommitTurn, ReadCache, ReadCacheFails, Reserve, ReserveFails,
           SqliteReserve, InsertReservation, InsertReservationFails, Acquire, Load, LoadFails,
           RunProcessor, ProcessFails, Commit, CommitFails, Persist, PersistFails, Complete,
           CompleteFails, Save, SaveFails, Unlock, Release, ReleaseFails, Abandon, FailsAt
  <1>3. ASSUME NEW c \in Call, DeleteStep(c)
        PROVE  UNCHANGED <<pc[d], job[d], rev[d]>>
    BY <1>3 DEF DeleteStep, AcquireDelete, Delete, DeleteFails, Purge, PurgeFails
  <1>4. ASSUME NEW p \in Process, Start(p) \/ StartUpStep(p)
        PROVE  UNCHANGED <<pc[d], job[d], rev[d]>>
    BY <1>4 DEF callVars, Start, StartUpStep, Replay, ReplayFails, ReplayComplete,
       ReplayCompleteFails, Serve
  <1>5. ASSUME NEW p \in Process, Crash(p)
        PROVE  UNCHANGED <<pc[d], job[d], rev[d]>>
    BY <1>5 DEF Crash
  <1>6. ASSUME NEW p \in Process, NEW s \in Session, CreateSession(p, s)
        PROVE  UNCHANGED <<pc[d], job[d], rev[d]>>
    BY <1>6 DEF CreateSession, callVars
  <1>7. ASSUME NEW s \in Session, Expire(s)
        PROVE  UNCHANGED <<pc[d], job[d], rev[d]>>
    BY <1>7 DEF Expire
  <1>8. CASE AllAnswered
    BY <1>8 DEF AllAnswered, vars, callVars
  <1>9. pc[d] \in {"complete", "persist"} => job[d].sess \in Session
    BY TurnJobType DEF OnTurn
  <1>10. QED
    BY <1>1, <1>2, <1>3, <1>4, <1>5, <1>6, <1>7, <1>8, <1>9 DEF Next

LEMMA ReplaysReach ==
  ASSUME TypeOK, Next, NEW p \in Process, phase'[p] = "complete"
  PROVE  \/ phase[p] = "complete" /\ UNCHANGED queue[p]
         \/ /\ UNCHANGED <<queue[p], outbox>>
            /\ \E i \in queue[p] : Oldest(p, i) /\ Fact(outbox[i].sess, outbox[i].rev) \in memory'
  <1>1. ASSUME NEW c \in Call, ReceiveTurn(c) \/ ReceiveDelete(c)
        PROVE  phase' = phase /\ queue' = queue
    BY <1>1 DEF procVars, ReceiveTurn, ReceiveDelete
  <1>2. ASSUME NEW c \in Call, TurnStep(c) \/ DeleteStep(c)
        PROVE  phase' = phase /\ queue' = queue
    BY <1>2 DEF procVars, TurnStep, DeleteStep, ReadCache, ReadCacheFails, Reserve, ReserveFails,
           SqliteReserve, InsertReservation, InsertReservationFails, Acquire, Load, LoadFails,
           RunProcessor, ProcessFails, Commit, CommitFails, Persist, PersistFails, Complete,
           CompleteFails, Save, SaveFails, Unlock, Release, ReleaseFails, AcquireDelete, Delete,
           DeleteFails, Purge, PurgeFails, Abandon
  <1>3. ASSUME NEW q \in Process, Start(q) \/ StartUpStep(q) \/ Crash(q)
        PROVE  \/ phase[p] = "complete" /\ UNCHANGED queue[p]
               \/ /\ UNCHANGED <<queue[p], outbox>>
                  /\ \E i \in queue[p] : Oldest(p, i) /\ Fact(outbox[i].sess, outbox[i].rev) \in memory'
    <2>1. CASE q # p
      BY <1>3, <2>1 DEF Start, StartUpStep, Replay, ReplayFails, ReplayComplete,
         ReplayCompleteFails, Serve, Crash, NextRow, TypeOK, ProcessTypeOK
    <2>2. CASE q = p /\ Replay(q)
      BY <2>2 DEF Fact, Replay, storeVars, TypeOK, ProcessTypeOK
    <2>3. CASE q = p /\ ~Replay(q)
      BY <1>3, <2>3 DEF Start, StartUpStep, ReplayFails, ReplayComplete,
         ReplayCompleteFails, Serve, Crash, NextRow, TypeOK, ProcessTypeOK
    <2>4. QED
      BY <2>1, <2>2, <2>3
  <1>4. ASSUME NEW q \in Process, NEW s \in Session, CreateSession(q, s)
        PROVE  phase' = phase /\ queue' = queue
    BY <1>4 DEF CreateSession, procVars
  <1>5. ASSUME NEW s \in Session, Expire(s)
        PROVE  phase' = phase /\ queue' = queue
    BY <1>5 DEF Expire, procVars
  <1>6. ASSUME AllAnswered
        PROVE  phase' = phase /\ queue' = queue
    BY <1>6 DEF AllAnswered, vars, procVars
  <1>7. ASSUME phase' = phase /\ queue' = queue
        PROVE  phase[p] = "complete" /\ UNCHANGED queue[p]
    BY <1>7
  <1>8. CASE \E q \in Process : Start(q) \/ StartUpStep(q) \/ Crash(q)
    BY <1>3, <1>8
  <1>9. CASE ~\E q \in Process : Start(q) \/ StartUpStep(q) \/ Crash(q)
    <2>1. phase' = phase /\ queue' = queue
      BY <1>1, <1>2, <1>4, <1>5, <1>6, <1>9 DEF Next
    <2>2. QED
      BY <1>7, <2>1
  <1>10. QED
    BY <1>8, <1>9

-----------------------------------------------------------------------------
(* The invariant of delivery is kept *)

LEMMA HandlersKept ==
  ASSUME DeliveryInv, Next
  PROVE  HandlersDelivered'
  <1> SUFFICES ASSUME NEW c \in Call, pc'[c] = "complete"
               PROVE  Delivered(job[c].sess, rev[c])'
    BY DEF HandlersDelivered
  <1> USE DEF DeliveryInv
  <1>1. /\ UNCHANGED <<job[c], rev[c]>> /\ job[c].sess \in Session
        /\ \/ pc[c] = "complete"
           \/ pc[c] = "persist" /\ Fact(job[c].sess, rev[c]) \in memory'
    BY HandlersReach DEF LedgerInv, NoLostUpdateInv
  <1> DEFINE s == job[c].sess
             n == rev[c]
  <1>2. n \in 1..Len(payload[s])
    BY <1>1 DEF LedgerInv, PublishesCommitted, Committed
  <1>3. Delivered(job[c].sess, rev[c])' <=> (status'[s] = "active" => Fact(s, n) \in memory')
    BY <1>1 DEF Delivered, Active, Fact
  <1>4. CASE Fact(s, n) \in memory'
    BY <1>3, <1>4
  <1>5. CASE pc[c] = "complete"
    <2>1. Active(s) => Fact(s, n) \in memory
      BY <1>5 DEF HandlersDelivered, Delivered
    <2>2. s \in Session /\ LedgerInv /\ AbsentIsEmpty
      BY <1>1
    <2> HIDE DEF s, n
    <2>3. status'[s] = "active" => Fact(s, n) \in memory'
      BY <1>2, <2>1, <2>2, FactsStay
    <2>4. QED
      BY <1>3, <2>3
  <1>6. QED
    BY <1>1, <1>4, <1>5

LEMMA ReplaysKept ==
  ASSUME DeliveryInv, Next
  PROVE  ReplaysDelivered'
  <1> SUFFICES ASSUME NEW p \in Process, phase'[p] = "complete"
               PROVE  (\E i \in queue[p] : Oldest(p, i) /\ Delivered(outbox[i].sess, outbox[i].rev))'
    BY DEF ReplaysDelivered
  <1>1. TypeOK /\ LedgerInv /\ AbsentIsEmpty
    BY DEF DeliveryInv, LedgerInv, NoLostUpdateInv
  <1>2. ASSUME NEW i \in queue[p], Oldest(p, i), UNCHANGED queue[p],
               outbox'[i].sess = outbox[i].sess, outbox'[i].rev = outbox[i].rev,
               status'[outbox[i].sess] = "active" =>
                 Fact(outbox[i].sess, outbox[i].rev) \in memory'
        PROVE  (\E j \in queue[p] : Oldest(p, j) /\ Delivered(outbox[j].sess, outbox[j].rev))'
    <2>1. Oldest(p, i)' /\ i \in queue'[p]
      BY <1>2 DEF Oldest
    <2>2. Delivered(outbox[i].sess, outbox[i].rev)'
      BY <1>2 DEF Delivered, Active, Fact
    <2>3. QED
      BY <2>1, <2>2
  <1>3. CASE phase[p] = "complete" /\ UNCHANGED queue[p]
    <2>1. PICK i \in queue[p] : Oldest(p, i) /\ Delivered(outbox[i].sess, outbox[i].rev)
      BY <1>3 DEF DeliveryInv, ReplaysDelivered
    <2>2. i \in 1..Len(outbox)
      BY <1>1 DEF TypeOK, ProcessTypeOK
    <2>3. outbox'[i].sess = outbox[i].sess /\ outbox'[i].rev = outbox[i].rev
      BY <2>2, RowsStay
    <2> DEFINE s == outbox[i].sess
               n == outbox[i].rev
    <2>4. outbox[i] \in OutboxRow
      BY <1>1, <2>2 DEF TypeOK, StoreTypeOK
    <2>5. s \in Session /\ n \in 1..Len(payload[s])
      BY <1>1, <2>2, <2>4 DEF OutboxRow, LedgerInv, OutboxFollowsCommit, WithFacts
    <2>6. Active(s) => Fact(s, n) \in memory
      BY <2>1 DEF Delivered
    <2>7. status'[s] = "active" => Fact(s, n) \in memory'
      <3> HIDE DEF s, n
      <3>1. QED
        BY <1>1, <2>5, <2>6, FactsStay
    <2>8. QED
      BY <1>2, <1>3, <2>1, <2>3, <2>7
  <1>4. CASE /\ UNCHANGED <<queue[p], outbox>>
             /\ \E i \in queue[p] : Oldest(p, i) /\ Fact(outbox[i].sess, outbox[i].rev) \in memory'
    BY <1>2, <1>4
  <1>5. QED
    BY <1>1, <1>3, <1>4, ReplaysReach

LEMMA AbsentStays ==
  ASSUME DeliveryInv, Next
  PROVE  AbsentIsEmpty'
  <1>1. TypeOK /\ AbsentIsEmpty /\ StoreStep
    BY StoreSteps DEF DeliveryInv, LedgerInv, NoLostUpdateInv
  <1>2. ASSUME NEW s \in Session
        PROVE  status'[s] = "absent" => payload'[s] = <<>>
    BY <1>1, SessionsStep
  <1>3. QED
    BY <1>2 DEF AbsentIsEmpty

\* A turn is known by its facts in memory, or by its row.
Kept(s, i) ==
  \/ Fact(s, i) \in memory
  \/ \E j \in 1..Len(outbox) :
       outbox[j].sess = s /\ outbox[j].rev = i /\ ~outbox[j].delivered

LEMMA OldFactsKept ==
  ASSUME DeliveryInv, Next, Postgres, NEW s \in Session, status'[s] = "active",
         NEW i \in 1..Len(payload[s]), payload[s][i].facts
  PROVE  Kept(s, i)'
  <1>1. TypeOK /\ LedgerInv /\ AbsentIsEmpty /\ StoreStep
    BY StoreSteps DEF DeliveryInv, LedgerInv, NoLostUpdateInv
  <1>2. Len(payload[s]) > 0
    BY <1>1 DEF TypeOK, StoreTypeOK
  <1>3. Active(s)
    BY <1>1, <1>2, SessionsStep DEF Active
  <1>4. ASSUME Active(s) => Fact(s, i) \in memory
        PROVE  Kept(s, i)'
    <2>1. Fact(s, i) \in memory'
      BY <1>1, <1>4, FactsStay
    <2>2. QED
      BY <2>1 DEF Kept, Fact
  <1>5. ASSUME NEW j \in 1..Len(outbox), outbox[j].sess = s, outbox[j].rev = i,
               ~outbox[j].delivered
        PROVE  Kept(s, i)'
    <2>1. /\ j \in 1..Len(outbox')
          /\ outbox'[j].sess = s /\ outbox'[j].rev = i
          /\ ~outbox'[j].delivered \/ Delivered(s, i)
      BY <1>5, RowsStay
    <2>2. CASE ~outbox'[j].delivered
      BY <2>1, <2>2 DEF Kept
    <2>3. CASE Delivered(s, i)
      BY <1>4, <2>3 DEF Delivered
    <2>4. QED
      BY <2>1, <2>2, <2>3
  <1>6. Fact(s, i) \in memory
        \/ \E j \in 1..Len(outbox) :
             outbox[j].sess = s /\ outbox[j].rev = i /\ ~outbox[j].delivered
    BY <1>3 DEF DeliveryInv, NoFactsLost, Revision, Fact
  <1>7. QED
    BY <1>4, <1>5, <1>6

LEMMA NewFactsKept ==
  ASSUME DeliveryInv, Next, Postgres, NEW s \in Session,
         NEW i \in 1..Len(payload'[s]), i \notin 1..Len(payload[s]), payload'[s][i].facts
  PROVE  Kept(s, i)'
  <1>1. TypeOK /\ LedgerInv /\ StoreStep
    BY StoreSteps DEF DeliveryInv, LedgerInv, NoLostUpdateInv
  <1>2. payload \in [Session -> Seq(Turn)] /\ outbox \in Seq(OutboxRow)
    BY <1>1 DEF TypeOK, StoreTypeOK
  <1>3. PICK c \in Call : pc[c] = "commit" /\ CommitTurn(c) /\ s = job[c].sess
    <2>1. payload'[s] # payload[s]
      OBVIOUS
    <2>2. ASSUME NEW r \in Session, NEW b \in Bundle, StoreCreate(r, b)
          PROVE  payload' = payload
      BY <2>2 DEF StoreCreate
    <2>3. PICK c \in Call : pc[c] = "commit" /\ CommitTurn(c)
      BY <1>1, <2>1, <2>2 DEF StoreStep, storeVars, StoreInsertReservation, StoreRelease,
         StoreExpire, StoreSaveResult, StoreDelete, StoreCompleteMemory
    <2>4. payload' = [payload EXCEPT ![job[c].sess] =
                        Append(@, [req |-> job[c].req, basis |-> seen[c], facts |-> facts[c]])]
      BY <2>3 DEF CommitTurn, StoreCommit
    <2>5. s = job[c].sess
      BY <1>2, <2>1, <2>4
    <2>6. QED
      BY <2>3, <2>5
  <1> DEFINE turn == [req |-> job[c].req, basis |-> seen[c], facts |-> facts[c]]
             row == [sess |-> s, rev |-> Len(payload[s]) + 1, delivered |-> FALSE]
  <1>4. payload'[s] = Append(payload[s], turn)
    BY <1>2, <1>3 DEF CommitTurn, StoreCommit
  <1>5. i = Len(payload[s]) + 1 /\ payload'[s][i] = turn
    <2> HIDE DEF turn
    <2>1. payload[s] \in Seq(Turn)
      BY <1>2
    <2>2. Len(payload'[s]) = Len(payload[s]) + 1 /\ payload'[s][Len(payload[s]) + 1] = turn
      <3>1. Append(payload[s], turn)[Len(payload[s]) + 1] = turn
        BY <2>1
      <3>2. QED
        BY <1>4, <2>1, <3>1
    <2>3. QED
      BY <2>1, <2>2
  <1>6. outbox' = Append(outbox, row)
    <2>1. outbox' = IF Postgres /\ turn.facts THEN Append(outbox, row) ELSE outbox
      BY <1>3 DEF CommitTurn, StoreCommit, OutboxInsert, HasOutbox, Revision
    <2>2. turn.facts
      BY <1>5
    <2>3. QED
      BY <2>1, <2>2
  <1>7. Len(outbox) + 1 \in 1..Len(outbox') /\ outbox'[Len(outbox) + 1] = row
    BY <1>2, <1>6
  <1>8. QED
    BY <1>5, <1>7 DEF Kept

LEMMA FactsKept ==
  ASSUME DeliveryInv, Next
  PROVE  NoFactsLost'
  <1> SUFFICES ASSUME Postgres, NEW s \in Session, status'[s] = "active",
                      NEW i \in 1..Len(payload'[s]), payload'[s][i].facts
               PROVE  Kept(s, i)'
    BY DEF NoFactsLost, Active, Revision, Kept, Fact
  <1>1. CASE i \in 1..Len(payload[s])
    <2>1. payload'[s][i] = payload[s][i]
      BY <1>1, StoreSteps, StepsGrowPayload DEF DeliveryInv, LedgerInv, NoLostUpdateInv, PayloadGrows
    <2>2. QED
      BY <1>1, <2>1, OldFactsKept
  <1>2. CASE i \notin 1..Len(payload[s])
    BY <1>2, NewFactsKept
  <1>3. QED
    BY <1>1, <1>2

LEMMA InitDelivery ==
  ASSUME Init
  PROVE  DeliveryInv
  BY InitLedgerInv
  DEF DeliveryInv, HandlersDelivered, ReplaysDelivered, AbsentIsEmpty, NoFactsLost, Active,
      Init, StoreInit

LEMMA StutterKeepsDelivery ==
  ASSUME DeliveryInv, UNCHANGED vars
  PROVE  DeliveryInv'
  BY StutterKeepsLedgerInv
  DEF DeliveryInv, HandlersDelivered, ReplaysDelivered, AbsentIsEmpty, NoFactsLost, Delivered,
      Oldest, Fact, Active, Revision, vars, storeVars, procVars, callVars

LEMMA DeliveryInvHolds == Spec => []DeliveryInv
  <1>1. DeliveryInv /\ Next => DeliveryInv'
    BY NextKeepsLedgerInv, HandlersKept, ReplaysKept, AbsentStays, FactsKept DEF DeliveryInv
  <1>2. DeliveryInv /\ [Next]_vars => DeliveryInv'
    BY <1>1, StutterKeepsDelivery
  <1>3. Init => DeliveryInv
    BY InitDelivery
  <1>4. QED
    BY <1>2, <1>3, PTL DEF Spec

\* With PostgreSQL, the facts of a committed turn of a live session are in result memory
\* or pending in the outbox: through every crash, every failed or half-done delivery,
\* and any number of processes that replay the same rows.
THEOREM FactsHold == Spec => []NoFactsLost
  <1>1. DeliveryInv => NoFactsLost
    BY DEF DeliveryInv
  <1>2. QED
    BY <1>1, DeliveryInvHolds, PTL

-----------------------------------------------------------------------------
(* Deletion.  The hypotheses are those under which the property is true:     *)
(* another process has another lock, and a failed delete, a failed purge or  *)
(* a replay after a crash leaves facts behind.                               *)

OneProcess == \A p, q \in Process : p = q

\* Any other call may fail, in the turn or at start-up.
DeletesSucceed == Faults \cap {"delete", "purge", "crash"} = {}

-----------------------------------------------------------------------------
(* The inductive invariant of deletion *)

\* Nothing happened before the process is up: there is nothing to replay.
StartsClean ==
  /\ \A p \in Process : queue[p] = {}
  /\ \A p \in Process : phase[p] # "up" => outbox = <<>> /\ \A c \in Call : pc[c] = "idle"

\* _session_lock
OneInside ==
  \A c, d \in Call : c # d /\ pc[c] \in Locked /\ pc[d] \in Locked => job[c].sess # job[d].sess

\* Whoever is about to write facts does so for a session that is still there.
PersistsForLiving ==
  \A c \in Call : pc[c] = "persist" => HasMemory /\ status[job[c].sess] = "active"

MemoryIfAny == ~HasMemory => memory = {}

DeletionInv ==
  /\ TypeOK
  /\ StartsClean /\ OneInside /\ PersistsForLiving /\ MemoryIfAny
  /\ DeletedLeavesNoMemory

-----------------------------------------------------------------------------
(* What a step does to the sessions that are there *)

PurgesGoOn == \A d \in Call : pc[d] = "purge" => pc'[d] = "purge" /\ job'[d] = job[d]

Creates == \E s \in Session :
  status[s] = "absent" /\ status' = [status EXCEPT ![s] = "active"] /\ UNCHANGED <<memory, pc, job>>

Persists(c) ==
  /\ pc[c] = "persist" /\ PurgesGoOn /\ UNCHANGED status
  /\ memory' = memory \cup {[sess |-> job[c].sess, rev |-> rev[c]]}

Removes(c) ==
  /\ pc[c] = "delete" /\ PurgesGoOn /\ UNCHANGED <<memory, job>>
  /\ status' = [status EXCEPT ![job[c].sess] = "deleted"]
  /\ HasMemory => pc'[c] = "purge"

Purges(c) ==
  /\ pc[c] = "purge" /\ UNCHANGED <<status, job>>
  /\ memory' = PurgeMemory(job[c].sess)
  /\ \A d \in Call : d # c => pc'[d] = pc[d]

SessionStep ==
  \/ UNCHANGED <<status, memory>> /\ PurgesGoOn
  \/ Creates
  \/ \E c \in Call : Persists(c) \/ Removes(c) \/ Purges(c)

LEMMA SessionSteps ==
  ASSUME TypeOK, StartsClean, DeletesSucceed, Next
  PROVE  SessionStep
  <1> USE DEF TypeOK, CallTypeOK, Goto, Leave
  <1>1. ASSUME NEW c \in Call, ReceiveTurn(c) \/ ReceiveDelete(c)
        PROVE  SessionStep
    BY <1>1 DEF ReceiveTurn, ReceiveDelete, storeVars, SessionStep, PurgesGoOn
  <1>2. ASSUME NEW c \in Call, TurnStep(c)
        PROVE  SessionStep
    <2>1. CASE Persist(c) \/ PersistFails(c)
      BY <2>1 DEF Persist, PersistFails, FailsAt, storeVars, SessionStep, Persists, PurgesGoOn
    <2>2. CASE ~Persist(c) /\ ~PersistFails(c)
      BY <1>2, <2>2 DEF TurnStep, CommitTurn, StoreCommit, ReadCache, ReadCacheFails, Reserve,
         ReserveFails, SqliteReserve, InsertReservation, InsertReservationFails, Acquire, Load,
         LoadFails, RunProcessor, ProcessFails, Commit, CommitFails, Complete,
         CompleteFails, Save, SaveFails, Unlock, Release, ReleaseFails, Abandon, FailsAt,
         StoreInsertReservation, StoreRelease, StoreSaveResult, StoreCompleteMemory,
         storeVars, SessionStep, PurgesGoOn
    <2>3. QED
      BY <2>1, <2>2
  <1>3. ASSUME NEW c \in Call, DeleteStep(c)
        PROVE  SessionStep
    <2>1. CASE AcquireDelete(c)
      BY <2>1 DEF AcquireDelete, storeVars, SessionStep, PurgesGoOn
    <2>2. CASE Delete(c) /\ Active(job[c].sess)
      BY <2>2 DEF Delete, StoreDelete, SessionStep, Removes, PurgesGoOn
    <2>3. CASE Delete(c) /\ ~Active(job[c].sess)
      BY <2>3 DEF Delete, storeVars, SessionStep, PurgesGoOn
    <2>4. CASE Purge(c)
      BY <2>4 DEF Purge, storeVars, SessionStep, Purges
    <2>5. QED
      BY <1>3, <2>1, <2>2, <2>3, <2>4 DEF DeleteStep, DeleteFails, PurgeFails, FailsAt, DeletesSucceed
  <1>4. ASSUME NEW p \in Process, Start(p) \/ StartUpStep(p) \/ Crash(p)
        PROVE  SessionStep
    <2>1. queue[p] = {}
      BY DEF StartsClean
    <2>2. QED
      BY <1>4, <2>1 DEF Start, StartUpStep, Replay, ReplayFails, ReplayComplete,
         ReplayCompleteFails, Serve, Crash, DeletesSucceed, storeVars, callVars, SessionStep,
         PurgesGoOn
  <1>5. ASSUME NEW p \in Process, NEW s \in Session, CreateSession(p, s)
        PROVE  SessionStep
    BY <1>5 DEF CreateSession, StoreCreate, callVars, SessionStep, Creates
  <1>6. ASSUME NEW s \in Session, Expire(s)
        PROVE  SessionStep
    BY <1>6 DEF Expire, StoreExpire, SessionStep, PurgesGoOn
  <1>7. ASSUME AllAnswered
        PROVE  SessionStep
    BY <1>7 DEF AllAnswered, vars, storeVars, callVars, SessionStep, PurgesGoOn
  <1>8. QED
    BY <1>1, <1>2, <1>3, <1>4, <1>5, <1>6, <1>7 DEF Next

\* Inside the lock is who was there before, or found it free.
Enters(d) ==
  /\ job'[d] = job[d]
  /\ \/ pc[d] \in Locked
     \/ /\ pc[d] \in {"lock", "dlock"} /\ LockFree(job[d].proc, job[d].sess)
        /\ \A e \in Call : e # d => pc'[e] = pc[e]

LEMMA InsideSteps ==
  ASSUME TypeOK, Next, NEW d \in Call, pc'[d] \in Locked
  PROVE  Enters(d)
  <1> USE DEF TypeOK, CallTypeOK, Goto, Leave, Locked
  <1>1. ASSUME NEW c \in Call, ReceiveTurn(c) \/ ReceiveDelete(c)
        PROVE  Enters(d)
    BY <1>1 DEF ReceiveTurn, ReceiveDelete, Enters
  <1>2. ASSUME NEW c \in Call, TurnStep(c)
        PROVE  Enters(d)
    <2>1. CASE c # d
      BY <1>2, <2>1 DEF Enters, TurnStep, CommitTurn, ReadCache, ReadCacheFails, Reserve,
         ReserveFails, SqliteReserve, InsertReservation, InsertReservationFails, Acquire, Load,
         LoadFails, RunProcessor, ProcessFails, Commit, CommitFails, Persist, PersistFails,
         Complete, CompleteFails, Save, SaveFails, Unlock, Release, ReleaseFails, Abandon, FailsAt
    <2>2. CASE c = d /\ Acquire(c)
      BY <2>2 DEF Enters, Acquire
    <2>3. CASE c = d /\ ~Acquire(c)
      BY <1>2, <2>3 DEF Enters, TurnStep, CommitTurn, ReadCache, ReadCacheFails, Reserve,
         ReserveFails, SqliteReserve, InsertReservation, InsertReservationFails, Load,
         LoadFails, RunProcessor, ProcessFails, Commit, CommitFails, Persist, PersistFails,
         Complete, CompleteFails, Save, SaveFails, Unlock, Release, ReleaseFails, Abandon, FailsAt
    <2>4. QED
      BY <2>1, <2>2, <2>3
  <1>3. ASSUME NEW c \in Call, DeleteStep(c)
        PROVE  Enters(d)
    BY <1>3 DEF Enters, DeleteStep, AcquireDelete, Delete, DeleteFails, Purge, PurgeFails, FailsAt
  <1>4. ASSUME NEW p \in Process, Start(p) \/ StartUpStep(p)
        PROVE  Enters(d)
    BY <1>4 DEF Enters, callVars, Start, StartUpStep, Replay, ReplayFails, ReplayComplete,
       ReplayCompleteFails, Serve
  <1>5. ASSUME NEW p \in Process, Crash(p)
        PROVE  Enters(d)
    BY <1>5 DEF Enters, Crash
  <1>6. ASSUME NEW p \in Process, NEW s \in Session, CreateSession(p, s)
        PROVE  Enters(d)
    BY <1>6 DEF Enters, CreateSession, callVars
  <1>7. ASSUME NEW s \in Session, Expire(s)
        PROVE  Enters(d)
    BY <1>7 DEF Enters, Expire
  <1>8. ASSUME AllAnswered
        PROVE  Enters(d)
    BY <1>8 DEF Enters, AllAnswered, vars, callVars
  <1>9. QED
    BY <1>1, <1>2, <1>3, <1>4, <1>5, <1>6, <1>7, <1>8 DEF Next

\* Facts are written by who committed them.
LEMMA PersistSteps ==
  ASSUME TypeOK, Next, NEW d \in Call, pc'[d] = "persist"
  PROVE  /\ job'[d] = job[d]
         /\ \/ pc[d] = "persist"
            \/ HasMemory /\ status[job[d].sess] = "active" /\ UNCHANGED status
  <1> USE DEF TypeOK, CallTypeOK, Goto, Leave
  <1>1. ASSUME NEW c \in Call, ReceiveTurn(c) \/ ReceiveDelete(c)
        PROVE  pc[d] = "persist" /\ job'[d] = job[d]
    BY <1>1 DEF ReceiveTurn, ReceiveDelete
  <1>2. ASSUME NEW c \in Call, TurnStep(c), ~Commit(c)
        PROVE  pc[d] = "persist" /\ job'[d] = job[d]
    BY <1>2 DEF TurnStep, ReadCache, ReadCacheFails, Reserve, ReserveFails, SqliteReserve,
       InsertReservation, InsertReservationFails, Acquire, Load, LoadFails, RunProcessor,
       ProcessFails, CommitFails, Persist, PersistFails, Complete, CompleteFails, Save,
       SaveFails, Unlock, Release, ReleaseFails, Abandon, FailsAt
  <1>3. ASSUME NEW c \in Call, Commit(c)
        PROVE  /\ job'[d] = job[d]
               /\ \/ pc[d] = "persist"
                  \/ HasMemory /\ status[job[d].sess] = "active" /\ UNCHANGED status
    <2>1. job' = job
      BY <1>3 DEF Commit
    <2>2. CASE c # d
      BY <1>3, <2>1, <2>2 DEF Commit
    <2>3. CASE c = d
      <3>1. HasMemory /\ CommitTurn(d) /\ CanCommit(job[d].sess, job[d].exp)
        BY <1>3, <2>3 DEF Commit
      <3>2. QED
        BY <2>1, <3>1 DEF CanCommit, Active, CommitTurn, StoreCommit
    <2>4. QED
      BY <2>2, <2>3
  <1>4. ASSUME NEW c \in Call, DeleteStep(c)
        PROVE  pc[d] = "persist" /\ job'[d] = job[d]
    BY <1>4 DEF DeleteStep, AcquireDelete, Delete, DeleteFails, Purge, PurgeFails, Abandon, FailsAt
  <1>5. ASSUME NEW p \in Process, Start(p) \/ StartUpStep(p)
        PROVE  pc[d] = "persist" /\ job'[d] = job[d]
    BY <1>5 DEF callVars, Start, StartUpStep, Replay, ReplayFails, ReplayComplete,
       ReplayCompleteFails, Serve
  <1>6. ASSUME NEW p \in Process, Crash(p)
        PROVE  pc[d] = "persist" /\ job'[d] = job[d]
    BY <1>6 DEF Crash
  <1>7. ASSUME NEW p \in Process, NEW s \in Session, CreateSession(p, s)
        PROVE  pc[d] = "persist" /\ job'[d] = job[d]
    BY <1>7 DEF CreateSession, callVars
  <1>8. ASSUME NEW s \in Session, Expire(s)
        PROVE  pc[d] = "persist" /\ job'[d] = job[d]
    BY <1>8 DEF Expire
  <1>9. ASSUME AllAnswered
        PROVE  pc[d] = "persist" /\ job'[d] = job[d]
    BY <1>9 DEF AllAnswered, vars, callVars
  <1>10. QED
    BY <1>1, <1>2, <1>3, <1>4, <1>5, <1>6, <1>7, <1>8, <1>9 DEF Next

LEMMA StartsStep ==
  ASSUME TypeOK, OneProcess, StartsClean, DeletesSucceed, Next
  PROVE  StartsClean'
  <1> USE DEF TypeOK, ProcessTypeOK, CallTypeOK
  <1>1. ASSUME NEW c \in Call, ReceiveTurn(c) \/ ReceiveDelete(c)
        PROVE  StartsClean'
    <2>1. UNCHANGED <<phase, queue>> /\ \E p \in Process : phase[p] = "up"
      BY <1>1 DEF ReceiveTurn, ReceiveDelete, procVars
    <2>2. QED
      BY <2>1 DEF StartsClean, OneProcess
  <1>2. ASSUME NEW c \in Call, TurnStep(c) \/ DeleteStep(c)
        PROVE  StartsClean'
    <2>1. UNCHANGED <<phase, queue>>
      BY <1>2 DEF procVars, TurnStep, DeleteStep, ReadCache, ReadCacheFails, Reserve, ReserveFails,
         SqliteReserve, InsertReservation, InsertReservationFails, Acquire, Load, LoadFails,
         RunProcessor, ProcessFails, Commit, CommitFails, Persist, PersistFails, Complete,
         CompleteFails, Save, SaveFails, Unlock, Release, ReleaseFails, AcquireDelete, Delete,
         DeleteFails, Purge, PurgeFails, Abandon
    <2>2. pc[c] # "idle"
      BY <1>2 DEF TurnStep, DeleteStep, ReadCache, ReadCacheFails, Reserve, ReserveFails,
         SqliteReserve, InsertReservation, InsertReservationFails, Acquire, Load, LoadFails,
         RunProcessor, ProcessFails, Commit, CommitFails, Persist, PersistFails, Complete,
         CompleteFails, Save, SaveFails, Unlock, Release, ReleaseFails, AcquireDelete, Delete,
         DeleteFails, Purge, PurgeFails, FailsAt
    <2>3. QED
      BY <2>1, <2>2 DEF StartsClean
  <1>3. ASSUME NEW p \in Process, Start(p) \/ StartUpStep(p) \/ Crash(p)
        PROVE  StartsClean'
    <2>1. queue[p] = {} /\ \A q \in Process : q = p
      BY DEF StartsClean, OneProcess
    <2>2. CASE Start(p)
      <3>1. phase[p] = "down" /\ outbox = <<>> /\ UNCHANGED <<outbox, pc>>
        BY <2>2 DEF Start, StartsClean, storeVars, callVars
      <3>2. PendingMemoryWrites = {}
        BY <3>1 DEF PendingMemoryWrites
      <3>3. queue'[p] = {}
        BY <2>2, <3>2 DEF Start
      <3>4. QED
        BY <2>1, <3>1, <3>3 DEF StartsClean
    <2>3. CASE StartUpStep(p)
      BY <2>1, <2>3 DEF StartUpStep, Replay, ReplayFails, ReplayComplete, ReplayCompleteFails,
         Serve, StartsClean
    <2>4. QED
      BY <1>3, <2>2, <2>3 DEF Crash, DeletesSucceed
  <1>4. ASSUME NEW p \in Process, NEW s \in Session, CreateSession(p, s)
        PROVE  StartsClean'
    BY <1>4 DEF CreateSession, StoreCreate, procVars, callVars, StartsClean
  <1>5. ASSUME NEW s \in Session, Expire(s)
        PROVE  StartsClean'
    BY <1>5 DEF Expire, StoreExpire, procVars, StartsClean
  <1>6. ASSUME AllAnswered
        PROVE  StartsClean'
    BY <1>6 DEF AllAnswered, vars, storeVars, procVars, callVars, StartsClean
  <1>7. QED
    BY <1>1, <1>2, <1>3, <1>4, <1>5, <1>6 DEF Next

-----------------------------------------------------------------------------
(* The invariant of deletion is kept *)

LEMMA InsideJob ==
  ASSUME CallTypeOK, NEW c \in Call, pc[c] \in Locked \cup {"lock", "dlock"}
  PROVE  job[c].proc \in Process /\ job[c].sess \in Session
  BY DEF CallTypeOK, Locked, OnTurn, OnDelete, TurnJob, DeleteJob

LEMMA OneInsideStep ==
  ASSUME TypeOK, OneProcess, OneInside, Next
  PROVE  OneInside'
  <1> SUFFICES ASSUME NEW c \in Call, NEW d \in Call, c # d, pc'[c] \in Locked, pc'[d] \in Locked
               PROVE  job'[c].sess # job'[d].sess
    BY DEF OneInside
  <1>1. Enters(c) /\ Enters(d)
    BY InsideSteps
  <1>2. job[c].proc = job[d].proc
    <2>1. pc[c] \in Locked \cup {"lock", "dlock"} /\ pc[d] \in Locked \cup {"lock", "dlock"}
      BY <1>1 DEF Enters
    <2>2. QED
      BY <2>1, InsideJob DEF TypeOK, OneProcess
  <1>3. {"lock", "dlock"} \cap Locked = {}
    BY DEF Locked
  <1>4. QED
    BY <1>1, <1>2, <1>3 DEF Enters, OneInside, LockFree

LEMMA PersistsStep ==
  ASSUME DeletionInv, DeletesSucceed, Next
  PROVE  PersistsForLiving' /\ MemoryIfAny'
  <1>1. SessionStep
    BY SessionSteps DEF DeletionInv
  <1>2. ASSUME NEW c \in Call, pc'[c] = "persist"
        PROVE  HasMemory /\ status'[job'[c].sess] = "active"
    <2>1. /\ job'[c] = job[c]
          /\ \/ pc[c] = "persist"
             \/ HasMemory /\ status[job[c].sess] = "active" /\ UNCHANGED status
      BY <1>2, PersistSteps DEF DeletionInv
    <2>2. CASE pc[c] = "persist"
      <3>1. HasMemory /\ status[job[c].sess] = "active"
        BY <2>2 DEF DeletionInv, PersistsForLiving
      <3>2. job[c].sess \in Session /\ status \in [Session -> {"absent", "active", "deleted"}]
        BY <2>2, InsideJob DEF DeletionInv, TypeOK, StoreTypeOK, Locked
      <3>3. ASSUME NEW d \in Call, Removes(d)
            PROVE  job[d].sess # job[c].sess
        BY <2>2, <3>3 DEF Removes, DeletionInv, OneInside, Locked
      <3>4. QED
        BY <1>1, <2>1, <3>1, <3>2, <3>3 DEF SessionStep, Creates, Persists, Removes, Purges
    <2>3. QED
      BY <2>1, <2>2
  <1>3. ASSUME ~HasMemory
        PROVE  memory' = {}
    BY <1>1, <1>3 DEF SessionStep, Creates, Persists, Removes, Purges, PurgeMemory, DeletionInv,
                      MemoryIfAny, PersistsForLiving
  <1>4. QED
    BY <1>2, <1>3 DEF PersistsForLiving, MemoryIfAny

LEMMA DeletedStep ==
  ASSUME DeletionInv, DeletesSucceed, Next
  PROVE  DeletedLeavesNoMemory'
  <1> SUFFICES ASSUME NEW s \in Session, status'[s] = "deleted",
                      ~\E c \in Call : pc'[c] = "purge" /\ job'[c].sess = s,
                      NEW m \in memory', m.sess = s
               PROVE  FALSE
    BY DEF DeletedLeavesNoMemory
  <1> USE DEF DeletionInv
  <1>1. SessionStep
    BY SessionSteps
  <1>2. status \in [Session -> {"absent", "active", "deleted"}]
    BY DEF TypeOK, StoreTypeOK
  <1>3. PurgesGoOn => ~\E c \in Call : pc[c] = "purge" /\ job[c].sess = s
    BY DEF PurgesGoOn
  <1>4. CASE UNCHANGED <<status, memory>> /\ PurgesGoOn
    BY <1>3, <1>4 DEF DeletedLeavesNoMemory
  <1>5. CASE Creates
    BY <1>2, <1>5 DEF Creates, DeletedLeavesNoMemory
  <1>6. ASSUME NEW c \in Call, Persists(c)
        PROVE  FALSE
    <2>1. job[c].sess # s
      BY <1>6 DEF Persists, PersistsForLiving
    <2>2. m \in memory
      BY <1>6, <2>1 DEF Persists
    <2>3. QED
      BY <1>3, <1>6, <2>2 DEF Persists, DeletedLeavesNoMemory
  <1>7. ASSUME NEW c \in Call, Removes(c)
        PROVE  FALSE
    <2>1. CASE job[c].sess = s
      <3>1. ~HasMemory
        BY <1>7, <2>1 DEF Removes
      <3>2. QED
        BY <1>7, <3>1 DEF Removes, MemoryIfAny
    <2>2. CASE job[c].sess # s
      <3>1. status[s] = "deleted"
        BY <1>2, <1>7, <2>2 DEF Removes
      <3>2. QED
        BY <1>3, <1>7, <3>1 DEF Removes, DeletedLeavesNoMemory
    <2>3. QED
      BY <2>1, <2>2
  <1>8. ASSUME NEW c \in Call, Purges(c)
        PROVE  FALSE
    <2>1. m \in memory /\ job[c].sess # s
      BY <1>8 DEF Purges, PurgeMemory
    <2>2. ~\E d \in Call : pc[d] = "purge" /\ job[d].sess = s
      BY <1>8, <2>1 DEF Purges
    <2>3. QED
      BY <1>8, <2>1, <2>2 DEF Purges, DeletedLeavesNoMemory
  <1>9. QED
    BY <1>1, <1>4, <1>5, <1>6, <1>7, <1>8 DEF SessionStep

LEMMA DeletionStep ==
  ASSUME OneProcess, DeletesSucceed, DeletionInv, [Next]_vars
  PROVE  DeletionInv'
  <1>1. CASE Next
    BY <1>1, NextKeepsTypes, StartsStep, OneInsideStep, PersistsStep, DeletedStep DEF DeletionInv
  <1>2. CASE UNCHANGED vars
    BY <1>2, StutterKeepsTypes
    DEF DeletionInv, StartsClean, OneInside, PersistsForLiving, MemoryIfAny, DeletedLeavesNoMemory,
        vars, storeVars, procVars, callVars
  <1>3. QED
    BY <1>1, <1>2

LEMMA DeletionInit ==
  ASSUME Init
  PROVE  DeletionInv
  BY InitTypeOK
  DEF DeletionInv, StartsClean, OneInside, PersistsForLiving, MemoryIfAny, DeletedLeavesNoMemory,
      Locked, Init, StoreInit

\* In one process, and unless a delete fails or the process dies, a deleted session
\* leaves no facts in result memory, however turns and deletes of it interleave
\* (delete_session takes the lock that execute_turn holds from its commit to the write
\* of the facts).
THEOREM DeletionHolds ==
  ASSUME OneProcess, DeletesSucceed
  PROVE  Spec => []DeletedLeavesNoMemory
  <1>1. Init => DeletionInv
    BY DeletionInit
  <1>2. DeletionInv /\ [Next]_vars => DeletionInv'
    BY DeletionStep
  <1>3. DeletionInv => DeletedLeavesNoMemory
    BY DEF DeletionInv
  <1>4. QED
    BY <1>1, <1>2, <1>3, PTL DEF Spec
=============================================================================
