# A formal model of KSQLite

KSQLite keeps a local SQLite copy of what a host application appends, with one
Kafka topic per source partition (its *changelog*) as the durable truth. This
directory holds TLA+ modules that model it, TLC configurations that check them
on small instances, and theorems with TLAPS proofs about them. Paths such as
`_lifecycle.py` are files of `src/ksqlite/`.

## 1. The system

| Component | State | Operations | Module |
|---|---|---|---|
| Partition bookkeeping, `_state.py` | per partition: status, checkpoint, log end | `mark_*`, `record_*`, `partition_states` | `PartitionStates` |
| Materialization SQL, `_schema.py` | tables `_records`, `partition_checkpoint`, `_owned`; view `records` | insert, upsert, clamp, own, disown | `Materialization`, `Replica` |
| Append path, `_write.py` | locals of the calls under way | `append` | `Appender` |
| Rebalance hooks, `_lifecycle.py` | locals of the call under way; the cached consumer | `on_partitions_assigned`, `on_partitions_revoked`, `aclose` | `PartitionLifecycle` (data), `StoreFacade` (consumer) |
| Facade, `_store.py` | run state, in-flight counter, drain event, clients | `start`, `stop`, delegation | `StoreFacade` |
| One instance with its host and its brokers | all of the data state above | crash, restart, host calls, other writers, retention | `ChangelogReplica` |
| Pool and transactions, `_pool.py`; `query`, `_read.py` | connections, their open transaction and flags | checkout, `TransactionRunner.run`, `query_only`, `query` | `Transactions`, `AtomicTransactions` |
| Schema migration, `_schema.py` | the stored schema | `migrate`, `start` | `SchemaMigration` |
| Changelog topics, `_topics.py` | cache of verified partitions | `ensure_and_verify` | `ChangelogTopics` |
| One file and one broker under store after store | all of the two above | start, crash, assignment, operations on topics | `StoreSetup` |
| Wire format `_wire.py` | none | `classify`, `encode` | the kinds of `Replica` |
| Names and DDL `_sql.py` | none | validation, rendering | what `SchemaMigration` needs of them |
| `_ids.py`, `types.py`, `errors.py` | none | | statuses in `PartitionStates` |

How they interact. Everything runs in one asyncio loop: two tasks interleave
only at an `await`, but nearly every line of an append or a hook is one. The
Appender and the hooks share the SQLite tables (through transactions on separate
connections), the in-memory entries (directly, between awaits) and the
changelog (one writes it, the other reads it). The host must call the hooks
from its rebalance listener and `append` from its message loop; the store trusts
it with the order. Nothing is shared between two instances but the changelog.

What is hard, and where:

* **A checkpoint is one number.** It stands for "everything up to here is in
  SQLite", so each of its writers (append, batch, clamp) can make it a lie about
  records it does not concern: a failed append before a successful one, a partial
  replay before an append, a lost log tail.
* **Two copies of it.** The in-memory checkpoint follows each commit after an
  await, or not at all when the call is cancelled there.
* **The log moves during a replay.** It grows past the captured end, retention
  moves its start, an unclean election moves its end back.
* **A hook is bounded in time, not in work**; whatever it has not finished must
  be visible, and its next call must resume correctly.
* **Any await may raise**: crash, broker error, SQLite error, cancellation.
* **A cancelled statement still runs**: its caller has left, the worker thread
  of the connection has not, and the connection goes on to the next caller.
* **migrate() commits statement by statement**, and compares what it finds by
  name and by the text of the schema.
* **start() and stop() are long**, may fail at each step, and are called by a
  host that may be cancelled itself.

What makes each component correct:

* bookkeeping: monotonic but for the clamps; lag and checkpoint are live;
* materialization: one row for a message, whoever brings it, and the row is the
  changelog's record;
* append: never a row without its record; never a checkpoint past a record that
  is not applied;
* hooks: hidden until replayed, then all at once; READY means complete; the
  callback ends, and reveals all it was given, unless it raises;
* transactions: every attempt starts clean, a call takes effect once or not at
  all, and how it ends says which;
* migration: a store that is up has what it declares; a refusal means drift; an
  interrupted migration is no drift;
* topics: what is cached has existed; a failure is never cached; a compacted
  changelog is reported;
* facade: no client lost, none closed under an append, a drain that ends.

## 2. The modules

```
PartitionStates <- Materialization <- Replica <-+- Appender           <-+
                                                +- PartitionLifecycle <-+- ChangelogReplica
ChangelogReplica <- MCChangelogReplica               (instances for TLC)
ChangelogReplica <- ChangelogReplicaProofs <- ReplicaSafetyProofs
                    <- ReplicaViewProofs <- ReplicaCheckpointProofs
                    <- ReplicaRefinementProofs
CheckpointedReplica <--implements-- ChangelogReplica
StoreFacade      <- MCStoreFacade                    (instances for TLC)
StoreFacade      <- StoreFacadeProofs

AtomicTransactions <--implements-- Transactions <- MCTransactions
                                   Transactions <- TransactionsProofs
SchemaMigration + ChangelogTopics <- StoreSetup <- MCStoreSetup
                                     StoreSetup <- StoreSetupProofs
```

**PartitionStates, Materialization**: pure operators, one per method or SQL
statement. `None` is `NoOffset` = -2, below the -1 that a clamp may write. Rows
carry partition, message id and offset; payload and key travel with the id and
no property distinguishes them.

**Replica**: the shared variables. `log[tp]`/`logStart[tp]` are the broker's,
`rows`, `ckpt`, `owned` the three tables, `entry` the in-memory machine.

**Appender**: `append` cut at its awaits. `StartAppend` mints the id; `Produce`
is the broker's write, taken again for the producer's own resend; `CommitAppend`
the transaction; `AppendReturns` the in-memory write-back. `ProduceFails` and
`MaterializeFails` are the error and cancellation exits, with or without the
record, or the row, written.

**PartitionLifecycle**: both hooks. `cb` holds the locals of the code under their
names there, and `cb.pc` names the await it is at; one action is the code from
one await to the next. `LoopHead` is the loop condition together with what
follows the loop. The consumer's fetch position (`cb.fetch`) is separate from
`position`, as it is in the code: after `seek_to_beginning` they differ.

**ChangelogReplica** composes the two with the process (`StartStore`, `Crash`),
the host (`HostAppends`, `HostAssigns`, `HostRevokes`) and the world
(`ForeignWrites`, `OtherOwnerWrites`, `Trim`, `Regress`), and states the
properties. Two constants say what a configuration is about:

* `HostRules`, the rules the documentation asks of the host: `one_writer`,
  `await_each`, `quiesce`, `ready_only`, `rehydrate_after_storage_error`,
  `rehydrate_after_produce_error`, `revoke_first`. `rehydrate_after_produce_error`
  is in no guide: it is what the run `doc_produce_error` shows to be necessary.
* `Env`, what may happen: `crash`, `append_fails`, `hook_fails`, `foreign`,
  `other_owner`, `newer_writer`, `trim`, `regress`.

`claimed` and `dirty` are the host's knowledge: the partitions its group gave
it, and those it must rehydrate after a failed append.

**CheckpointedReplica**: what the replica promises a host that keeps the rules. It
has no program counters, no batches and no memory beside the tables: a copy of
messages, and for each partition a frontier the copy is complete below, whether
it may be used (`ready`) and whether it is seen (`shown`). `Produce` and `Apply`
are an append, `GiveUp` its failure; `Withdraw`, any number of `Replay`s and
`Reveal` or `Hide` are a hook. The frontier never falls, the copy loses nothing,
and a partition becomes ready only when the copy has its whole changelog.
`ChangelogReplica` maps to it with `Copied` (the rows, without their offsets),
`Frontier` (the offset after the stored checkpoint), `Landed` (the appends between
produce and commit) and `Usable` (claimed, READY, no hook at work on it and not
waiting for a rehydrate).

**StoreFacade**: `start`, `stop`, `append`, `query` and the hooks as tasks on
one store, for the clients they open, use and close. A client is live from its
creation until its closer is called; whether that succeeds does not matter, as
the code logs and goes on. A call is made once; its program counter names the
await it is at. `query` and the revoke hook are one kind of call, which borrows
from the pool and is not counted. `HostRules` are `one_start`, `await_stop`,
`hooks_first` (the shutdown order of wire-into-your-consumer.md, asked of queries
as well) and `one_hook`.

**AtomicTransactions**: what a write transaction and a query promise. A call
takes effect at one instant or never; a query sees one instant; a call that
returns has taken effect, one that raises `StorageError` has not, a cancelled
one may have.

**Transactions**: `TransactionRunner.run` and `QueryRunner.query` statement by
statement over the connections of the pool. The work of a call is two
statements, the record and its checkpoint, so that a half-done call can be told
from a done one. SQLite is external: one connection at most holds the write
lock, and a connection reads what is committed and what it has written itself.
`Cancel` ends a call at any await, with the statement it was waiting for taking
effect or not. `Faults` says what may go wrong: another process with the lock,
a failing statement, cancellation, the spurious `BEGIN` the docstring of `run`
reports, and a connection found with a transaction open. Its refinement mapping
turns the committed statements of a call into one effect, and into none of the
abstract values when they are not together.

**SchemaMigration**: `start()` up to the composed store, over and over on one
file, with a configuration of the host's choice each time. Every statement is a
step, since each commits on its own; `boot.read` is what the loop over columns
has read before it began. `Fails` is the end of a start or of a store, at any
step. Columns and indexes are records with a name, and three facts about names
decide what the code does: `Folded`, SQLite's comparison without regard to case;
exact names, the code's comparison; and `Suffixes`, the pairs of names of which
one ends the other, since the drift check searches the clause of a column in the
schema text without a boundary before it.

**ChangelogTopics**: `ensure_and_verify` at its three awaits, with the broker's
codes, and with topics that appear and disappear between them. `existed` and
`reported` are history variables.

**StoreSetup** composes the two: the store that is up checks the partitions it
is assigned with the flags of its configuration, and its end takes the cache
along and leaves the file and the broker. It states the properties of both.

### Abstractions

* In the replica a transaction is one atomic step. `Transactions` shows that the
  code provides it: `ImplementsAtomicCalls`.
* A record the client has given up on is not written afterwards: `ProduceFails`
  comes before or after the write, and a crash ends the request. A record that
  the broker does write late reaches a partition like the record of another
  instance, perhaps one that is READY here: it amounts to a world without the rule
  `one_writer`, and what needs that rule (`CheckpointHonest`, `ReadyComplete`,
  `KeepsPromise`, the theorems under `Careful`) is not claimed for it.
* `getmany` returns the next records from the fetch position, up to
  `max_records`, or none, or raises. Prefetched records that retention has since
  dropped are not delivered.
* `position == leo` is re-evaluated where the code does, but an append's status
  warning, logging and validation errors leave no state and are left out.
* The order in which a hook takes its partitions is free (an iterable of the
  host's choice).
* Wall-clock time is one event: the deadline passes, at any point of an
  assignment.
* A hook that raises is taken by the host as a failed assignment: it no longer
  holds the partitions the hook had not finished.
* `ChangelogReplica` runs one hook call at a time and has one process; another
  instance is a writer of the changelog.
* `StoreFacade` leaves out the injected pool and configuration errors (raised
  before any client exists).
* In `Transactions` a call is made once and its work is two writes that do not
  fail for what is in the tables; the order of the waits on SQLite's busy handler
  is free, and time is the choice to give up at any attempt.
* In `SchemaMigration` one process at a time uses the file (the documentation
  asks for one store per file). Its `db.indexes` are the declared ones: a declared
  index with the name of a base index or table is not modelled, and no
  configuration of the runs has one. Base statements are numbered, not told apart. A
  unique index over rows that are not unique is a statement that fails. A drift
  message and the orphans that are only logged are left out.
* `cleanup.policy` is `delete` or `compact`; the template that names changelogs
  is a constant map.

## 3. What the runs check

| Run | Question | Checks |
|---|---|---|
| `replica_one` | does the store keep its promises to a host that keeps the rules? | `CheckpointHonest`, `ReadyComplete`, `RowsFromChangelog`, `HiddenUntilReplayed`, `ReadyAtLogEnd`, `CheckpointIsLive`, `TypeOK`, `IInv`, the invariant of the proofs, and `KeepsPromise`, the refinement of `CheckpointedReplica` |
| `replica_unruly` | what holds whatever the host does? | `OneRowPerMessage`, `MemoryNeverAhead`, `CheckpointFallsOnlyAfterRegression` |
| `replica_regress` | does a reset leave the checkpoint right when both ends of the log move? | `ReadyAtLogEnd`, `CheckpointFallsOnlyAfterRegression` |
| `replica_two` | several partitions, one call: is each revealed, or hidden, and does the callback end? | `HeldIsVisible`, `AssignReveals`, `RevokeHides`, `AssignEnds` |
| `store_calls` | are the clients looked after, and does a drain end? | `NoClientLost`, `CallsKeepTheirClients`, `StopHasOneWinner`, `StopCloses`, `TypeOK` |
| `store_unruly` | and with cancelled stops, and hooks racing stop and each other? | `AppendsKeepTheirClients`, `DrainInv`, `PhaseMovesOn` |
| `transactions` | is a call of the pool atomic, whatever is cancelled, busy or left behind? | `AttemptsStartClean`, `CallsInv`, `ImplementsAtomicCalls`, `CallsEnd`, `TypeOK` |
| `setup` | what do a file and its changelogs look like after any sequence of starts, releases and failures? | `UpMeansDeclared`, `BootShowsNothing`, `RefusalMeansDrift`, `InterruptedStartsFinish`, `StartInv`, `CachedWasThere`, `CompactIsReported`, `PartitionsGetChecked`, `TypeOK` |

Runs named `doc_*` each refute one sentence of the documentation, or of a
comment, by what the code does:

| Run | Sentence | What happens |
|---|---|---|
| `doc_append_to_partial` | an append to a non-READY partition "still converges" | its checkpoint passes over what the replay had left |
| `doc_produce_error` | after a produce error "nothing to undo" | the broker may have the record; the next checkpoint passes it |
| `doc_stop_cancelled` | the winner of two stops runs the close sequence | a winner cancelled in its drain does not, and nobody else can |
| `doc_suffix_drift` | a declared column that differs from the stored one raises `ConfigError` | `id`, changed to the definition of `user_id`, is found as the end of the clause of `user_id`, and `start()` goes on |

`migrate()` is as blind to two declared indexes whose names differ in case only:
`index_list` does not show the second, and `CREATE INDEX IF NOT EXISTS` then does
nothing. `NamesApart`, the assumption of the theorems about the file, excludes
both cases.

Some rules exist because the code needs them, not because a guide states them;
the comments of `HostRules` in both modules list them. `one_start` is one: a
`start()` made during another's awaits passes the same check, although
ksqlite.md says that a second call raises. `quiesce` is another: an append
between a clamp's commit and its write-back is forgotten in memory.

### Bounds

`MaxLog` (records of a changelog), `MaxIds` (messages minted by anyone) and
`BatchSize` are the only bounds of the replica. Three records are enough for a
checkpoint in the middle of a log, a gap below it and a record above; for a
trimmed prefix, a lost tail and a regrown one; and for a batch of two followed
by a shorter one. Four ids with three slots let a lost tail be rewritten with
new messages. `BatchSize = 2` lets a batch straddle the captured log end and
carry a foreign or an unreadable record beside a good one. One partition is
enough for every property of a partition, since partitions share only the hook
call and its deadline; `replica_two` has two for those, with two records each,
which is enough to be trimmed, force-stopped or passed over. Its records are
foreign ones: they may be written while the host holds the partition, so that a
log grows under a replay and a batch of two carries the position past the
captured end, after which only the deadline ends the loop (the mutant of
`AssignEnds` drops it there). It has no appends (`MaxIds = 0`): `quiesce` keeps
them off the partitions of a hook, and they neither reveal nor hide one. Two tasks
(`replica_unruly`) are enough for two appends to commit in either order around a
hook. The bounds cut no operation short otherwise: at `MaxLog` a produce waits,
and everything else goes on. The symmetry sets are used with safety properties
only.

The facade has no counter to bound; five calls allow a failed `start` and a good
one, an append and a hook and a `stop`, or two appends and two stops; six the
two together. Calls run out, so these runs do not check deadlock; in
`ChangelogReplica` a hook can always be called, and deadlock is checked.

`transactions` has two writers and a query on two connections: two transactions
that contend for the lock, a call that finds the pool exhausted, and a
connection that goes from a cancelled call to another; `MaxAttempts = 3`,
the code's value, gives a first, a middle and a last attempt. All calls end, so
deadlock is not checked.

`setup` has eight configurations: the current one, one with less, one with more
columns and indexes, one with a column and one with an index changed, one that
declares a column twice, one that differs in case from stored and system names,
one with an index over a column it does not declare. `MaxFaults = 3` injected
failures let a migration be interrupted, its repetition too, and the topics
fail beside. `Suffixes` is empty although `user_id` ends in `id`: the run speaks
of names that `migrate()` tells apart (`NamesApart`), and `doc_suffix_drift` has
the pair. One partition is enough for the cache, whose entries are
independent.

### Fairness

`FairSpec` of `ChangelogReplica`: the awaits of a hook return (`WF` of
`HookRuns`: `getmany` has a timeout of 200 ms, SQLite its busy timeout, the
clients their request timeouts) and the clock passes the deadline (`WF` of
`ClockTicks`). Nothing is assumed of the broker's answers: empty for ever is
allowed. `FairSpec` of `StoreFacade`: each call under way goes on (`WF` of
`Proceeds(c)`); `stop()` has no bound of its own on the appends it waits for, so
that they end is an assumption about the clients' timeouts. `FairSpec` of
`Transactions`: every call goes on when it can (`WF` of `CallStep(t)`: SQLite's
busy timeout, the attempts and the pool's timeout bound each wait); nothing is
assumed of the other process, which may keep the lock for ever. `FairSpec` of
`StoreSetup`: the event loop resumes what was answered, a supervisor starts the
process again after it ended, and the host assigns the partition again after a
failure; the faults are bounded, so they end at some point.

### Properties and mutants

Every property of a passing run comes with a changed form of a modelled
definition (the operators named after it: `DoneLate`, `BatchMaxToLogEnd`,
`SignalStale`, ...) under which TLC finds it violated: an off-by-one, a dropped
guard, a missing reset.

## 4. What is proved

TLAPS checks the proof modules for every value of the constants: any partitions,
tasks, calls, connections, configurations and bounds.

| Module, theorem | Statement |
|---|---|
| `ChangelogReplicaProofs`, `TypeCorrect` | `Spec => []TypeOK` |
| `ReplicaSafetyProofs`, `Inductive` | `Careful` implies `Spec => []IInv` |
| `CheckpointIsHonest` | `Careful` implies `Spec => []CheckpointHonest` |
| `ReadyIsComplete` | `Careful` implies `Spec => []ReadyComplete` |
| `RowsAreRecords` | `Careful` implies `Spec => []RowsFromChangelog` |
| `ReplicaViewProofs`, `HeldVisible` | `Spec => []HeldIsVisible` |
| `HiddenUntilReveal` | rule `revoke_first` implies `Spec => []HiddenUntilReplayed` |
| `AssignRevealsAll` | `Spec => AssignReveals` |
| `RevokeHidesAll` | `Spec => RevokeHides` |
| `ReplicaCheckpointProofs`, `OneRowEach` | `Spec => []OneRowPerMessage` |
| `FallsOnlyAfterRegression` | `Spec => CheckpointFallsOnlyAfterRegression` |
| `MemoryIsCommitted` | `NoFalls` implies `Spec => []MemoryNeverAhead` |
| `RevealedAtLogEnd` | `NoHalfClamp` implies `Spec => []ReadyAtLogEnd` |
| `CheckpointStaysLive` | `NoHalfClamp` and `rehydrate_after_storage_error` imply `Spec => []CheckpointIsLive` |
| `ReplicaRefinementProofs`, `PromiseIsKept` | `Careful` implies `Spec => KeepsPromise` |
| `TransactionsProofs`, `CallsInductive` | `Spec => []CallsInv` |
| `TypeCorrect` | `Spec => []TypeOK` |
| `CleanAttempts` | `Spec => []AttemptsStartClean` |
| `Refinement` | `Spec => ImplementsAtomicCalls` |
| `StoreSetupProofs`, `TypeCorrect` | `Spec /\ NamesApart => []TypeOK` |
| `StartsBuildOnTheFile` | `Spec /\ NamesApart => []StartInv` |
| `DeclaredWhenUp` | `Spec /\ NamesApart => []UpMeansDeclared` |
| `NothingShownAtBoot` | `Spec /\ NamesApart => []BootShowsNothing` |
| `RefusedForDrift` | `Spec /\ NamesApart => []RefusalMeansDrift` |
| `CachedHadChangelog` | `Spec => []CachedWasThere` |
| `CompactNeverSilent` | `Spec => CompactIsReported` |
| `StoreFacadeProofs`, `TypeCorrect` | `Spec => []TypeOK` |
| `DrainInductive` | rule `one_start` implies `Spec => []DrainInv` |
| `DrainProtectsAppends` | `one_start` implies `Spec => []AppendsKeepTheirClients` |
| `PhaseOnlyMovesOn` | `one_start` implies `Spec => PhaseMovesOn` |
| `OneStopWins` | `one_start` and `await_stop` imply `Spec => []StopHasOneWinner` |
| `ClientsHaveClosers` | all four rules imply `Spec => []NoClientLost` |
| `CallsKeepClients` | all four rules imply `Spec => []CallsKeepTheirClients` |

Where nothing is said, a theorem assumes nothing but the assumptions on the
constants: it holds for any host and any surroundings. `Careful` is: the host keeps all rules but
`revoke_first`, and no changelog loses its tail. `ready_only` and
`rehydrate_after_produce_error` are needed, as their `doc_*` runs show. A
regression breaks the conclusion too: a log that loses its tail and grows past
the old checkpoint is resumed in the middle of records never read. `NamesApart`
is needed, as `doc_suffix_drift` shows. Two assumptions are about the await
between a clamp's commit and its write-back:

* `NoFalls`: no log end falls, and either the host keeps its appends away from a
  hook at work (`quiesce`) or nothing is trimmed. A clamp that lowers the
  checkpoint commits first and tells memory later, so memory is ahead of the
  file for the length of an await (with `regress`, a behaviour of 16 states).
  Without a regression the clamp lowers it only if an append has raised it past
  the captured log end meanwhile (with `trim` and no rule, 18 states).
* `NoHalfClamp`: the host keeps `quiesce`, and no hook fails or no log end falls.
  A hook that fails between the two leaves memory at the old checkpoint for the
  rest of the process; the next assignment takes the fast path from the file and
  reveals the partition READY with a checkpoint that is not the file's (21
  states). An append beside the hook can move the log end past the captured one
  (10 states).

TLC finds each of these behaviours when the rules, the surroundings and the
invariant of `replica_regress` are changed accordingly.

**The argument for the replica.** `CheckpointHonest` is not inductive: an append commits an offset
that jumps over whatever lies between, and a batch the same. The strengthening
`IInv` adds

* `LogInv`: offsets lie inside the log, ids of one changelog are its own;
* `AppInv`: an append under way is alone on a settled READY partition, so by
  `ReadyComplete` its record is the only one that is not applied, and its commit
  takes the checkpoint over nothing but applied records. Honesty of the
  checkpoint and completeness of READY thus rest on each other;
* `ClaimInv`: whose partitions a hook works on, so that no other append of this
  host is on them;
* `HookInv`: what a hook has established at each await. It works from both ends:
  `Materialized(tp, n)`, all below `n` is applied, and `MaterializedFrom(tp, n)`,
  all from `n` on. From the capture of the log end on, only foreign records are
  added to a claimed, quiet partition, which gives the second at the log end;
  each batch raises the first, and at the loop's exit they meet.

The proofs have one lemma per action (or per group that disturbs the same
parts) and cite for each conjunct what it depends on; a few lemmas about the
operators (what `InsertBatch`, `UpsertCheckpoint` and appending to a log do to
`Applied`) carry the reasoning about sequences. The least record or message of a
batch is found with `WellFoundedInduction` instantiated on the naturals.

**The argument for the view** does without `IInv`. `ViewInv` adds to
`HeldIsVisible` that a reveal is of a partition marked as ready, that nothing
shown is unseen, and that the host holds nothing a revoke has still to hide;
`HiddenInv`, that what an assignment has still to do is hidden. `HookView` sums
up what a step of a hook may do to the view (show the partition at its reveal,
hide one of a revoke, pass on one that is done), so that both are proved about
this summary and not about some twenty actions. `AssignReveals` and `RevokeHides` follow since a hook
returns with nothing to do.

**The argument for the checkpoint** compares its three copies: `ckpt` in the file,
`entry` in memory, and the locals of the hook and of each append that will be
written back.

* `OneRowPerMessage` follows from the conflict clause alone.
* For the clamp, `BoundsInv` says that no offset that anyone holds lies beyond the
  log end, and `ClampFalls` that its target is one below the captured end.
* `MemInv` says that memory and each value that will be written to it are at most
  what is committed. It is kept by every step that lowers no checkpoint, so all
  that is left is that the clamp does not: `QuietInv` (no append on a partition
  of the hook) and `AboveInv` (what the hook fetches next is above the
  checkpoint) under `quiesce`, `NoResetInv` where nothing is trimmed.
* `KnowsInv` says, for each await of a replay, what the hook's locals tell of the
  committed checkpoint; at the loop's exit the two are equal, and so is the log
  end. `RestInv` says which fields a hook that replays nothing has, and `LiveInv`
  carries the equality through the appends that follow.

**The argument for the promise** needs no invariant of its own, only those above:
`IInv`, and `AboveInv` and `ClampFalls` for the clamp, which must not take the
frontier back. Each step of the program is one of the promise:

| Step of `ChangelogReplica` | Step of `CheckpointedReplica` |
|---|---|
| `Produce`, a resend included | `Produce` |
| `CommitAppend` | `Apply` of the record at its offset |
| `AppendProduceFails`, `AppendStorageFails` | `GiveUp` |
| `HostAssigns`, `HostRevokes` | `Withdraw` |
| `CommitBatch` | `Replay` of the offsets of the batch |
| `ClampCommit` | `Replay` of nothing, at the captured log end |
| `Reveal`, `RevokeCommit` | `Reveal`, `Hide` |
| `ForeignWrites`, `OtherOwnerWrites`; `Trim` | `OthersWrite`; `Expire` |
| `Crash`, `StartStore` | `Crash`, `Restart` |
| all others | a stutter |

That the frontier passes only what is copied is `CheckpointHonest` after the step;
that the copy gets all of a batch, the conflicting records included, is
`BatchStored`; that a READY reveal has the whole changelog is `HookInv` at the
reveal; and that nothing becomes usable or unusable besides is `HookFrame` with
`ClaimInv`: what a hook works on is out of use, what it has revoked is not claimed.

**For transactions**, `CallsInv` says of each call what its connection and the
store hold at each await: an attempt has written exactly the statements it has
passed, on a connection nobody else uses; nothing of a call is committed before
its commit, and both statements are after it. The busy retry keeps it because
`Rollback` empties the connection, and the case of a call cancelled at `BEGIN`,
which leaves an open transaction behind, because `Release` and `Checkout` empty
it again. The refinement proof then maps each step: a commit to `Apply`, a fetch
to `Observe`, a step to "done" to `Return`, all others to a stutter.

**For setup**, `UpMeansDeclared` and `RefusalMeansDrift` need to know, in the
middle of `migrate()`, that what the loops have passed is stored, and that every
stored column is either in the one reading of the schema or was added by this
start (`StartInv`): an `ALTER` that fails then has met a name that is stored with
another definition, or is declared twice.

**For the facade**, `DrainInv` says that `in_flight` is the number of appends
under way (a cardinality, which is why the set of calls is finite), which calls a
phase allows, and that a store that is RUNNING or STOPPING has its producer and
pool: an append keeps them because nothing but the close sequence closes them,
and that starts in RUNNING with a zero counter, or after an event that only the
last append sets. `NoClientLost` needs more (`ClientInv`): the hook at work and
the stop that closes work on the store that is there, and of a CLOSED store
everything live is still ahead of that stop. Each step then passes on a client
it does not close. `UsersInv` says what a call uses: a query the store it found
running, a replay the one consumer, which the hook that made it has put there
before; the calls beside it neither take nor close it.

**Only model-checked** are the liveness properties (`AssignEnds`, `StopCloses`,
`CallsEnd`, `InterruptedStartsFinish`, `PartitionsGetChecked`): they depend on
fairness, and the prover reasons about neither `ENABLED` nor liveness. Every
invariant, every action property and both refinements of the passing runs are
statements of theorems. No module has a RECURSIVE operator or a proof by
induction over data.

## 5. Not modelled, and plan

Not modelled: JSON and header encoding, hydration, the regular expressions for
names, the merging of client configurations (pure functions of one call, which
the unit tests enumerate); TLS contexts and logging; opening a connection. Two
hook calls at once on the data: `PartitionLifecycle` has one, and `StoreFacade`
has several only as far as the consumer they share is concerned.

Left of the plan:

* `ConcurrentHooks`: two hook calls over one consumer, whose `assign()` replaces
  the partition the other is polling.
