# Balance chat: specification and proofs

TLA+ models of the context service of `balance_chat` (`src/src/balance_chat`),
their TLC runs, and TLAPS proofs of what matters most. Paths below are relative
to `src/src/balance_chat/` unless they say otherwise.

## The system

A client opens a session and sends turns to it. A turn names the revision the
client last saw and, usually, a request id. The service reserves the session,
reads its context, lets the processor interpret the message (a language model
and deterministic routes), plan and execute it, reduces the outcome into the
context, commits it, stores the facts in result memory, saves the answer under
the request id and releases the reservation.

| component | state | operations | interacts with |
|---|---|---|---|
| context store (`store.py`, `src/migrations/`) | session rows (revision, payload, deleted_at), mutation journal, reservations, saved answers, outbox | create, reserve, get, commit, release, save and read of answers, delete, outbox reads | called by the service and by start-up, each call a transaction |
| conversation service (`service.py`) | one lock per session in each process; nothing else | create_session, execute_turn, delete_session; get_session and record_feedback only read | store, processor, result memory |
| start-up (`bootstrap.py`) | none of its own | replay of the outbox, then serving | store, result memory |
| result memory (`result_memory.py`) | facts of turns in pgvector | persist, retrieve, delete of a session | service, processor |
| context reducer (`reducer.py`, `conversation.py`) | none: a function from context and mutation to context | apply_context_transition | called inside commit |
| turn processor (`processor.py`) | none | process: routing, binding, execution, grouping, clarification | reads the context, calls all of the following |
| interpretation, binding, evidence gate (`interpretation.py`, `binding.py`, `gating.py`) | none | decision, its references resolved against the context, coverage of explicit entities | called by the processor |
| planning, execution, grouping (`planning.py`, `execution.py`, `grouping.py`) | a cache for the duration of one plan | plan, run scalar tasks, compare, rank, aggregate | external pipeline |
| HTTP API, browser client, gateway (`api.py`, `ui/app.js`, `hosting.py`) | the client holds session id, revision and transcript | requests, answers, reload after a 409 | service |
| compatibility, observability, acceptance and golden runners | none that the service shares | translation of envelopes, logs, tests | |

What is hard about it: several processes share the store, and each step of a
turn is a transaction of its own; a turn may outlive its reservation; any store
or memory call may fail before or after it took effect; a process may die
anywhere; clients repeat requests; sessions are deleted under running turns; and
a conversation is a long mix of successes, empty results, errors and questions
held in lists that are cut at four different limits. `PROJECT.json` lists these
hazards one by one with the line where each bites.

What makes each part correct:

- store and service: no lost update; a saved answer is one of the request's own
  committed revisions; a refusal changed nothing; deletion is final; facts of a
  committed turn reach result memory or stay pending; requests end and sessions
  do not stay reserved;
- reducer, window and processor: the dialogue continues from the newest success;
  a question lives for one turn; the window is the tail of the journal and points
  to stored results only; entity memory is ordered by recency; grouping never
  reuses the facts of an older turn;
- binding, gate and the routes of a message: a follow-up keeps what it does not
  change; of several operands none is picked at will; a reversal is the opposite of a
  flow between two ends or out of a balance, and keeps no article of the old direction; a
  flow is read on the balance of one end at the article of the other; every name of the
  message is bound, if no other name, or letters of one, may stand for it; a comparison
  is never answered by one number;
- planning, execution and grouping: no question is asked twice and none is answered
  by the answer to another; a task without data leaves the turn without facts; the
  sides of a comparison are the operands it names; a ranking and an extremum do not
  depend on the order of the rows; grouping loses no value and counts none twice;
  what is remembered is what the turn refers to.

## Modules

`ContextStore` is the database. Each operator is one transaction of `store.py`;
the constants `Postgres` and `HasMemory` choose the backend and its features.
Tables are sets of rows, the outbox a sequence in `created_at` order. A session's
payload is the sequence of turns reduced into it: its length is the revision
column and its i-th element the i-th row of the journal. `owner` in a reservation
is a history field: `release` does not look at it, as the code has no such column.

`TurnService` extends it with processes and calls. `pc[c]` is where a call is
between two store or memory calls of `execute_turn` or `delete_session`:

| label | the code about to run |
|---|---|
| `cache` | `get_request_result` (service.py:161) |
| `reserve`, `insert` | `reserve`: in PostgreSQL the clearing DELETE with the revision check, then the INSERT, since another process may act between them; in SQLite one `BEGIN IMMEDIATE` transaction |
| `lock` | `with self._session_lock` |
| `load` | `store.get`, metadata and revision check |
| `process` | `processor.process` |
| `commit` | `store.commit`: compare-and-set, reduction, journal and outbox in one transaction |
| `persist`, `complete` | `persist_result_memory`, `complete_memory_write` |
| `save` | `save_request_result` |
| `unlock`, `release` | end of the lock, `release` in the `finally` clause |
| `dlock`, `delete`, `purge` | `delete_session` |

A step named `...Fails` is the same call raising; where the call writes, it raises
either before or after the write took effect. `Crash` ends the calls of a process
and rolls its open transaction back; `Expire` lets a reservation pass its
`expires_at`. `Start`, `Replay`, `ReplayComplete` and `Serve` are
`build_application` with `_drain_memory_outbox`. A restarted process may serve
another metadata bundle.

`SessionLedger` is the abstract specification: sessions that open, grow one turn
at a time and close for good, answers bound to the turn of their own request, and
a memory of recorded turns. `TurnService` implements it (`LedgerSpec`) with
`ledger <- payload` and `answers <- results`; reservations, locks, retries,
processes and failures are stutters of it.

`DialogContext` is the conversation itself: `ContextContractV2` as
`apply_context_transition` changes it, and the processor's use of it. One step is
one committed turn. That is no restriction on concurrency: `NoLostUpdate`, proved
for `TurnService`, says that each committed turn was computed from the revision
just before it. The variables are the contract's fields. A turn is named by the
revision it produced and a scope by the turn that set it, because both are all the
properties tell apart. `Execute`, `Standalone`, `ReverseNoData`, `Regroup`,
`QueryAndGroup` and `Clarify` are the ways `process` can end in a commit; what the
language model and the database answer is chosen freely. A message the processor
refuses raises and commits nothing, so it is no step.

The step `Execute` of `DialogContext`, and `RunProcessor` of `TurnService`, stand for
a whole run of the processor. Its inside is modelled in two halves that meet at the
bound intent.

The first half is how a message becomes a bound intent:

| module | code | contents |
|---|---|---|
| `AnalysisIntent` | `contracts.py`, `gating.py`, normalisations of `processor.py` | the shape of an intent and what its validator accepts; coverage of names; the rewritings before planning (comparison of periods, temporal grouping, reduction of a series); which intents are about a whole balance |
| `EntityBinding` | `binding.py` | mentions to canonical entities, articles of a balance, ends of a flow, viewpoint and reversal, over a finite registry |
| `IntentGraph` | `binding.py`, `conversation.py` | handles of operands, entities and periods; completion of a graph from the tags of the message; the compilation of graphs and of drafts |
| `ResolvedPlan` | `compat/envelope_translation.py` | a plan the pipeline resolved, turned into an intent or refused |
| `TurnInterpretation` | `processor.py`, `interpretation.py` | sessions of such turns, one after the other |

`TurnInterpretation` starts from a new session or from a stored one (`Sessions`),
one of them older than the window. `stage` is `idle` between turns; a message takes
one of the deterministic routes (`BindAnalyzedFlow`, `BindSnapshot`,
`BindDirectedFlow`, `BindComparison`, `BindRoleSeparated`, `Standalone`) or goes to
the interpreter (`Interpret`); incomplete evidence is repaired once (`Repair`); a
bound intent is executed and journaled with an outcome chosen freely (`Execute`). The
first route of `Routes(m)` that applies is taken, in the order of the code. The
language model is external and answers as `Interpretations` lists: a graph, a draft,
a question, a refusal or something that breaks its contract. The window and the
scopes are functions of the journal here, which is what `DialogContext` proves of
them. `reply` is the code the turn ends with.

The second half is how a bound intent becomes an outcome. `ScalarPlan` is
`planning.py`: the scalar tasks of an intent and what is to be composed of them.
`TurnExecution` runs one turn: `Admit` normalises, gates and plans it, or one of the
`Refuse...` steps ends it; `Query`, `Reuse` and `QueryFails` are one task each, by the
pipeline, from the cache of `NativeExecutor`, or with an exception; `Compose` makes
the comparison, the set of differences, the formula, the ranking, the series or the
number, and the outcome. A turn about a whole daily balance takes `ShowLevel`, a
grouping `Regroup` (of the facts of the last result) or `QueryGroups`, with the
aggregation of `grouping.py`. The pipeline may answer any query in any of the ways
`Answers` lists, the same query twice included.

`MCTurnService`, `MCDialogContext`, `MCTurnInterpretation` and `MCTurnExecution` give
the constants values for TLC. The modules named `...Proofs` and `...Lemmas` hold the
theorems and lemmas.
Operators commented "Fault" are not part of any specification. Each is what one
line of the code would be with a plausible mistake in it, kept to show that the
property it belongs to notices.

## Runs

| run | instance | what it shows |
|---|---|---|
| `store_faults` | PostgreSQL, memory, 2 processes, 2 calls, 1 session, 2 request ids, every failure | type invariant; `NoLostUpdate`, `ExclusiveWithinTtl`, `SavedAnswersAreCommitted`, `AnswersMatchLedger`, `RefusalIsDefinite`, `MemoryFollowsCommit`, `NoFactsLost`, `DeleteIsFinal`; refinement of `SessionLedger` |
| `one_process` | SQLite, memory, 1 process, 3 calls, 2 sessions, 2 request ids, no failures | `DeletedLeavesNoMemory`, `AnswersMatchLedger` |
| `turn_liveness` | PostgreSQL, 1 process, 2 calls, 1 session, 2 metadata bundles, every failure | `EveryCallEnds`, `ReservationsEnd` |
| `dialog` | 3 intents, 3 entities, window 2, results 2, turns 3, entities 2, 5 turns | `ScopesFollowJournal`, `AnswersAreCurrent`, `PendingIsLastTurn`, `WindowIsJournalTail`, `MemoryIsByRecency`, `GroupingUsesLastResult` |
| `interpretation` | 21 messages, several graphs and drafts, continuing or standing alone, for each that needs the interpreter, a new session and 4 stored ones, window 1, 2 turns | `FollowUpKeepsTheRest`, `AmbiguousNeverPicked`, `ReversalSwapsTheEnds`, `FlowIsReadOnItsEnd`, `EveryNameIsBound`, `ComparisonNeverDegrades` |
| `execution` | some 140 turns of every operation, answers of up to 3 rows in two orders, with equal values, and with buckets that do not say their days; rows to group with and without key, label, type and hints | `EachQuestionOnce`, `AllTasksOrNothing`, `SidesAreAsNamed`, `RankingIsTheTop`, `ReductionIsOfTheSeries`, `GroupsConserveRows`, `MemoryIsOfTheResult` |
| `two_turns` | PostgreSQL, 2 processes, 3 calls, 1 request id, failing processor | violates `NoTwoTurnsAtOnce` |
| `request_twice` | PostgreSQL, 1 process, 2 calls, 1 request id | violates `RequestCommittedOnce` |
| `store_error` | PostgreSQL, 1 process, every failure | violates `StoreErrorChangesNothing` |
| `stuck_session` | SQLite, 1 process, crashes | violates `InProgressMeansBusy` |
| `exact_day` | the directed flows of `execution` over more than a day | violates `CallersHoldExactDay` |
| `reverse_incoming` | the instance of `interpretation` | violates `ReversalIsOpposite` |

Bounds. `Call` bounds the number of requests over the whole life of an instance,
each of them a turn or a delete at the client's choice; it is the only bound on
`TurnService`: everything else (crashes, restarts, expirations, failures) may
happen as often as it likes. Two calls in two processes give every race of two
turns, of a turn with a delete and of a request with its repetition; three are
needed where a third party profits from a wrong release (`two_turns`, where the
documented property fails) and for two sessions (`one_process`). `DrainLimit` is
1 instead of 100, so that a replay leaves rows behind. In `dialog` the limits of
the lists are 2 and 3 instead of 7, 20, 50 and 100, and `MaxTurns` is 5, so that
every list overflows and shifts more than once; the intents name one entity twice,
two entities, and group. Two turns are enough in `interpretation`, since a turn
reads nothing but the active scope and the frames of the window: the stored sessions
put a flow, a comparison, a failure after a success, or a journal from before the
window there, and the second turn sees what the first left behind. With a window of one
frame the active scope is outside of it as soon as a turn fails. In `execution` two
or three operands, periods and rows make every shape a plan can take, with ties and
with the neighbours of every limit. `CHECK_DEADLOCK FALSE` is set in `dialog` and
`interpretation` since a session with `MaxTurns` turns takes no more, and in
`execution` since a turn ends. `TurnService` is checked for deadlock: a workload
that is not answered (`AllAnswered`) must always have a step. Symmetry of calls,
processes and request ids is used in the safety runs only.

Fairness (`FairSpec`). Handlers and the start-up replay are weakly fair: a thread
of a living process is scheduled again, and its calls return or raise. A call that
waits for the session lock or for a row lock is enabled whenever it is free, and a
lock holder always leaves it, so weak fairness suffices for the finite workload.
`Expire` is weakly fair because clocks advance. Nothing is assumed of clients,
crashes or restarts: a call whose process died ends as `lost`.

`ExclusiveWithinTtl` and `NoTwoTurnsAtOnce` differ in whose time to live ran out:
the first allows an overlap as soon as any turn of the session outlived its own
reservation, the second only to the turn that did.

### Where the documentation and the code disagree

- `two_turns`: `src/README.md:17` promises that no two turns of a session run at
  once. A turn that outlived its reservation deletes, on release, the row of a
  retry with the same request id; a third turn then runs beside the retry.
- `request_twice`: `src/README.md:18` promises that a repeated request id is not
  processed again. The saved answer is looked up before the reservation only.
- `store_error`: `ui/app.js:356` tells the user that after a store error the
  session is unchanged. A failed save of the answer, or a lost acknowledgement of
  the commit, is reported as the same error after the turn was recorded.
- `stuck_session`: `store.py:44` says another turn is already processing. A SQLite
  reservation left by a dead process has no time to live and nobody is processing.

In each of these the ledger stays right (`LedgerSpec` holds in all of these
behaviours): what is lost is work done twice, or a misleading answer.

- `exact_day`: `compat/pipeline_runtime.py:108` says callers of
  `execute_balance_day` hold an exact day. A directed flow over a month is sent
  there with its first day, and answered by the figures of that day.
- `reverse_incoming`: `src/docs/architecture.md:174` requires the reverse direction to
  swap source and destination, and calls the rule implemented, though not yet kept for
  every kind of reference;
  `src/acceptance/context_chat_business_scenarios.feature:64` has a reversal swap them,
  and its scenario BC-09 (line 194) reverses after a turn that was read on the balance
  of the destination. What comes in to Moscow from Tomsk, read on the balance of
  Moscow, becomes what Tomsk distributes to Moscow: the same flow, read at its other
  end (binding.py:746-750). `ReversalSwapsTheEnds` states what does hold: the opposite of a
  flow read on the balance it leaves, or of a source and a destination.

### What modelling brought to light besides

None of these has a run: each is either a matter of judgement or outside what a
property of the model can tell.

- An explicit baseline of a comparison is given up when both operands have the same
  scope and two periods: the turn becomes a comparison of periods
  (`src/docs/architecture.md:184`).
- A new period for the whole graph is ignored by an operand that has one of its own
  (binding.py:436-448).
- As many mentions as operands are handed out by position, whichever operand the
  interpreter meant by which name (binding.py:651-656).
- A follow-up that refers to an older turn by a handle takes that turn's operand, but
  shares the periods of the active scope (binding.py:371-375); the periods the older turn
  shared among its operands are not among those of the operand. `FollowUpKeepsTheRest`
  says so; `src/docs/architecture.md:44` and 173-174 have a period kept by reference.
- A message that only names a balance replaces all that its operand was about, a geo
  object included (binding.py:648).
- The modes offered to the interpreter depend on whether there is an active scope
  (interpretation.py:88-92); the one it returns is not compared with them
  (interpretation.py:108-127), so that a graph marked as standalone may refer to earlier
  turns, and one marked as a mutation needs none.
- Two operands over the same days in two wordings ask the database twice: the label of a
  period is part of the cache key (execution.py:207-217).
- A row with an id but without a label is identified anew by the geo object one of its
  hints names (grouping.py:100-105, processor.py:1093-1122), although
  grouping.py:80 says that no display label is ever used as identity.
- A mention turns a source that would be ambiguous into a new or replaced entity, so
  that the ambiguity is not reported (`src/docs/architecture.md:136`).
- The entity mode `add` merges by role (binding.py:818). A new balance keeps the article
  of the old one; and both ends of a flow without an article of its own are added to a
  turn about another flow, whose balance and article stay and decide what is shown,
  though entities of the message take priority (`src/docs/architecture.md:139`).
- Two geo objects said of one operand leave the later one, and the gate is content if
  the name of the other, or an alias of it, is letter by letter part of it, as Omsk is
  of Tomsk (gating.py:204-209), though entities chosen explicitly stay operands of
  their own (`src/docs/architecture.md:178`). `EveryNameIsBound` is about names that
  stand apart from all others.
- A kept aggregate of a draft is that of the first operand for all of them
  (binding.py:269-279).
- A draft that refers to an aggregate, or that the contract refuses, raises an
  exception nobody translates, and the turn ends as `turn_failed`.
- A task that ends in an error is masked when another has no data: the turn is
  reported as one without data (`FailureStatus`).
- A section or a directed flow without rows of its article is without data even if
  the pipeline reported an error.
- The result of a grouping is written to result memory whether or not the processor
  has one; the other branches look first (processor.py:1067).
- The name of an entity that normalises to nothing covers every name (gating.py:207).
- The deterministic routes for a reversal, an extremum, a geo object, a period and a
  grouping need an active scope in a function that is entered only without one
  (processor.py:115): they are dead code.

## Proofs

All theorems hold for every value of the constants under the stated assumptions:
`StoreAssumption`, `FaultsAssumption` and `DialogAssumption` are types of parameters,
limits that are not zero, and a window no longer than the other lists;
`IntentsAreValid` says that binding hands over intents the contract has validated,
`RowsAreLists` and `GroupRowsAreLists` that an answer carries a list whose rows have
a number each, and a day and hints as lists, `OperandNames` that no operand is named
like a task. Which geo objects a label names, which aliases a record has and which name
is part of another are operators without any assumption. For
`TurnInterpretation`, `RegistryNames` and `RegistryIsFinite` say that the
registry is a finite catalogue of named records, `SessionsAreBound` that a stored
session was committed by this program, `BoundsAssumption` that the window has room,
and `MessagesAreRead` what the tagger and the pipeline hand over: lists, roles of the
contract, geo objects the registry has, two peers or none. Nothing is assumed of the
interpreter: what the contract does not accept is refused.

`TurnServiceProofs` proves `TypeOK` and `NoLostUpdate`. The latter is not inductive
alone: a commit is safe because the snapshot handed to the processor is the
revision the client expected, which `commit` compares again. `NoLostUpdateInv`
adds that (`SnapshotIsExpected`).

`LedgerProofs` proves `SavedAnswersAreCommitted`, `AnswersMatchLedger`,
`MemoryFollowsCommit`, `DeleteIsFinal` and the refinement `LedgerSpec`. `LedgerInv`
adds to the above what a call between commit and answer knows: the revision it is
about to publish is one its own request committed (`PublishesCommitted`), it is not
answered yet (`OpenCallsUnanswered`), outbox rows are rows of committed turns
(`OutboxFollowsCommit`), and a purge is of a deleted session (`PurgesDeleted`). The
refinement then maps each action to one ledger action or a stutter.

`TurnServiceProofs` also proves `ExclusiveWithinTtl` and `RefusalIsDefinite`. For the
first, `ReservationInv` says that a session has one row at most (`OneRowEach`), that
only expired rows are cleared (`ClearedAreExpired`), that a row belongs to a call
that began on that session (`RowsOfCalls`), and that a turn at work still has
its row unless some turn of the session outlived its own (`RowsAreThere`). The
second follows the answer of a call through its labels (`RefusalInv`): before the
commit a call has committed nothing, and after it no refusal is reachable.

`LedgerProofs` also proves `NoFactsLost`. `DeliveryInv` adds to `LedgerInv` that a handler
about to complete an outbox row has stored its facts, or the session is gone
(`HandlersDelivered`), and the same of every process that replays
(`ReplaysDelivered`); processes may replay the same rows side by side.

Last, it proves `DeletedLeavesNoMemory` for one process in which deletes
succeed and which does not die (`OneProcess`, `DeletesSucceed`), every other failure
allowed. These are hypotheses of the theorem, and needed: a second process has a lock
of its own, and a lost purge or a replay after a crash leaves facts behind. The
argument is that two calls inside the lock are of different sessions (`OneInside`),
so that a session cannot be deleted between the commit of a turn and the write of its
facts (`PersistsForLiving`).

`DialogProofs` proves `ScopesFollowJournal`, `AnswersAreCurrent`,
`PendingIsLastTurn` and `GroupingUsesLastResult` for conversations of any length
and for the code's own limits. The first lemma (`StepReduces`) turns every action
into the reduction of one journal row that fits the context it was made in; the
rest is about that reduction. `FocusIsNewest` states the focus without choosing a
maximum, `PastHasNewest` and `PastIsFixed` carry the maximum over to the past of
each turn, and `ReferencesFollowJournal` says that a stored result is that of a
success and that the active one is never cut off.

It also proves `WindowIsJournalTail`, with two more invariants: the frames
are the newest rows of the journal in their order (`FramesFollowJournal`), and the
stored results are the newest successes (`ReferencesAreNewest`). Since the window is
no longer than the list of results, a success in the window is among them.

The second half of `DialogProofs` proves `MemoryIsByRecency` and, with it, `TypeOK` of
`DialogContext`.
A turn folds its mentions into the entity memory one by one, and each mention moves
one entry to the front, adds it, or adds it and drops the last. `RecencyInv` is said
of the memory and of the list of all mentions up to a moment, so that a single mention
preserves it (`MentionStep`) and the fold of a turn is a walk along the list
(`EntityMemorySteps`). It is stronger than the property: an entry counts the mentions
since it entered, and the memory is full or has forgotten nothing (`Full`). Without
the latter a mention could bring back an entity with the count it had before.

`TurnExecutionProofs` proves `TypeOK`, `EachQuestionOnce` and `AllTasksOrNothing` for
plans of any length. `ExecutionInv` ties the three together: queries are the
questions of the cache (`CallsInv`), each result is its task's reading of the answer
cached for its question (`ResultsInv`), a running plan has a task left (`PlanInv`),
and an outcome is the composition of the plan and its results (`OutcomeInv`). That
the normalisations leave an intent valid, though the code does not validate it again,
is part of `TypeOK`.

`CompositionProofs` proves what that composition makes of the results.
`SidesAreAsNamed` rests on the plan: its tasks carry the operands in their order and
no two share a name (`PlanTasks`), so that the first result of a name is the only one;
every task asks about the effective periods of its operand, which the number of a single
question then says, while a bucket says its own days or none.
`RankingIsTheTop` and `ReductionIsOfTheSeries` rest on facts about any list of rows:
sorting by value and date gives a permutation in that order, the first row with
the best value is the one a search by `min` or `max` finds, and a finite set of periods
has an earliest beginning and a latest end (`Overall`). `GroupsConserveRows` adds
up the groups of all entities, whatever identity each row was given: each row is at one place of one group, and the sum over
the groups of the sums of their rows is the sum of the rows (`Conserved`).
`MemoryIsOfTheResult` holds because a success of a query has a fact or a point of a
series for each task, and there is at least one task.

`TurnInterpretationProofs` proves `TypeOK`, `FollowUpKeepsTheRest`,
`ReversalSwapsTheEnds`, `AmbiguousNeverPicked`, `ComparisonNeverDegrades`,
`EveryNameIsBound` and `FlowIsReadOnItsEnd` for any messages, registry, window and
interpreter. Its `Inv` says that every journaled intent
is bound (`IsBound`: one the contract has validated, of canonical entities), and that
a turn that executes has a bound intent with a period for each operand which, if the
interpreter was asked, is the compilation of its decision by the session as it stands,
normalised (`Follows`), and which, whatever the route, has passed the gate of that
route (`Grounds`). The last two are what makes the properties inductive: they relate
the intent that runs to the message, the decision and the journal, and none of the
four changes until the turn ends. It is kept by one lemma for each
route, which says what that route builds (`TranslatedBound` for the plan of the
pipeline, `GraphResult` and `DraftResult` for the two compilers).

The properties are then facts about the compiler alone. `SpecFollowed` takes a graph
through reconciliation with the words of the message, the choice of the source, the
selection of fields and the direction: the operand of a spec is `Directs`, of one that
`Selects` its fields from the source and from what the spec itself asks for. The
normalisations before the gate leave the operands alone unless they fuse them into a
comparison of periods (`NormalForm`). `RestIsKept` reads off what was inherited, the
operand's fields from the source and the shared periods from the active intent;
`NoneIsPickedAtWill` reads off what an empty source leaves to the spec, and
`EndsAreSwapped` follows the reversal through `SwapEnds` and the article of the way
back, which is always one of distribution (`WayBackArticle`).
`ComparisonsAreKept` is about a single step: the translator counts operands and
periods before it reads the plan as an intent.

`NamesAreBound` follows from what the gate looked at. The gate is content if the name or
an alias of a record contains, or is part of, that of a bound entity, letter by letter,
so the property is about names of which that is true of no other name of the registry
(`StandsApart`); for these a covering entity has the very name. What the letters are is
left to `Inside` and `Aliases`, about which the theorem assumes nothing.

`FlowsAreReadOnTheirEnd` follows the two names of a flow through the compiler, for a
spec that is asked by name alone. The specs of a normalised graph mention what those
of the interpreter's did (`AskedAlike`); reconciliation gives a spec just the names it
is asked about (`ReconciledNames`); each of the two ends is one entity of that name, or
the graph is refused (`MentionsAreNamed`); the viewpoint reads a flow the registry
knows once as balance and article and leaves every other as both its ends
(`ViewpointRead`); the entities of the flow replace what was inherited in their roles
(`FlowSelected`), and the metric's own article is added only where there is none. The
two deterministic routes build the flow directly (`AnalyzedFlowBound`,
`DirectedFlowBound`).

`IntentLemmas` holds what the execution and the interpretation need of an intent: what
the normalisations keep of it and how a selection of a list is formed.

`ListLemmas` holds what all of these need of lists: folds of numbers, concatenation of
lists of lists, sorting and selection. A fold is defined by recursion on its list, and
its value at the next length is found by unfolding it once; a statement for all
lengths then follows because a set of natural numbers that is not empty has a least
one, so that a first length for which it failed would contradict the step before it.

What proving and a second reading against the code changed in the model:

- `ReductionIsOfTheSeries` said of a mean that it times the number of rows is their
  sum, which was true of the instance's rows only, where the division leaves no
  remainder; it now says that the rest is smaller than the number of rows, which is
  what a mean rounded down here, and exact in the code, has to fulfil.
- `ValidShape` did not bound the limit of a ranking, which `contracts.py:138` keeps
  within 1 to 100.
- Sorting and selection are stated by what they give (`InOrder`, `Picked`) and not by
  an algorithm.
- What the contract accepts of an interpreter (`IsDecision`) is spelled out, and
  `Interpret` and `Repair` refuse the rest (interpretation.py:108); it had been one
  kind of decision of the instance.
- A peer that names an article whose balance the registry no longer has is no peer
  (`OnBalance`, processor.py:1945); the model had chosen from an empty set.
- `FollowUpKeepsTheRest` did not allow for a draft whose "compare" of two operands
  that differ in their periods alone becomes a comparison of periods
  (`PeriodComparison`).
- Facts said the periods of the intent; those of a bucket say the bucket's, or none,
  and a reduction the span of its buckets (`BucketDays`, `Overall`).
- A row was grouped by its own key or else by its label; the resolver, its hints, the
  types and their errors are modelled now (`Resolved`, `TypeOf`, `Groupable`).
- Names were compared word by word; the gate compares letters, and aliases
  (`Overlaps`, `Variants`).
- Handles of periods carried the wording of the period; they are of its days, and which
  of several wordings comes back is the code's choice (`PeriodOf`).
- `ReversalSwapsTheEnds` compared names only, which a flow that came in passes without
  being turned; what it says of the flow itself is now apart from `ReversalIsOpposite`.
- `EveryNameIsBound` was true of the instance's registry only, where no name was a part
  of another, and did not cover the deterministic routes. The instance has such names
  now, and the old property fails there.
- `FlowIsReadOnItsEnd` spoke of the message's names and of every operand, which a
  share of a flow in all that one of its ends distributes contradicts (each operand has
  names of its own), and so does a follow-up that adds a flow to another.
  It is now about what each operand is asked about, and says of a
  flow without an article that neither of its ends is lost.
- `AmbiguousNeverPicked` asked for entities even where the spec gives them up, or
  replaces them by nothing, which the contract allows; and a reversal gives the entities of a
  spec other roles, and with them other handles than the spec has.

Model-checked only:

- liveness (`EveryCallEnds`, `ReservationsEnd`): fairness and ENABLED are out of the
  prover's reach. Every other property of a passing run is the statement of a theorem.

## Not modelled

The wording of messages and answers, the words of a mention beyond the name the registry
reads in them (case endings, the prefix a business mention gets, processor.py:1753), of a
clarification which option was chosen (an option that was not offered is refused as a stale
question is, processor.py:2598), logging, authentication, diagnostics, the SQL
pipeline and the language model; numbers are small integers, without units and
decimals. Retrieval and
ranking of result memory return text for the language model, which is free anyway.
`reduce_intent` patches an intent field by field, but every caller outside the tests
replaces it whole, which is how it is modelled. The browser client is, for the
service, any client: requests with arbitrary revisions and request ids.
`InMemoryContextStore` is the test double of the two durable stores. The acceptance
and golden runners drive the service from outside. `PROJECT.json` gives the reason
component by component.

## Plan

All components that keep or transform the state of a conversation are modelled. What
is left, in this order:

1. `TurnInterpretation` and `TurnExecution` composed: `Execute` of the one as a run of
   the other, so that a later turn follows up on an outcome that was computed.
2. `OutboxDelivery`: rows that fail again and again against the limit of the replay.
