# Verification of sysboost

sysboost tunes a running Linux host (CPU frequency and governor, cgroup
controls, process priorities) for the length of one *boost session* and promises
to put every value back exactly as it was, also when the program crashes, its
journal cannot be written or somebody else changes the same knobs. This project
models the parts that carry that promise in TLA+, checks them with TLC on small
instances and proves the central claims with TLAPS for instances of every size.

Paths below are relative to `src/crates/`.

## 1. The system

| part | source | state it keeps | operations |
|---|---|---|---|
| session record | `sysboost-core/src/session.rs`, `transaction.rs` | session state, per operation: lifecycle state, snapshot, receipts, readback; transition and failure lists | `transition`, `capture_snapshot`, `record_intent`, `record_apply`, `record_verification`, `fail_operation`, `begin_restore_operation`, `record_restore`, `fail_restore`, `encode`/`decode` |
| transaction engine | `sysboost-platform/src/transaction.rs` | the lease `active` | `prepare`, `abort_prepared`, `apply`, `restore`, `recover_unfinished`, `status` |
| state store | `sysboost-platform/src/state.rs` | one file per session under `/run/sysboost` | `create`, `replace`, `load`, `load_unfinished`, `remove` |
| session lock | `sysboost-platform/src/state.rs`, `process.rs` | the file `.mutating.lock` naming its owner | `acquire` (with `reclaim_stale_lock`), drop of the guard |
| CPU backend | `sysboost-linux/src/cpu.rs` | none; reads and writes cpufreq files | `snapshot`, `apply`, `verify`, `restore` |
| workload backend | `sysboost-linux/src/workload.rs` | discovered cgroups | the same, plus creation and removal of managed cgroups |
| registry | `sysboost-platform/src/backend.rs` | registered backends | `register`, routing by ownership |
| privilege service | `sysboost-platform/src/privilege.rs` | approved plans, session bindings, last request id per peer | `handle_frame`, `prepare/apply/restore/status_for_peer` |
| protocol | `sysboost-protocol/src/lib.rs` | none | frame encode and decode |
| planner | `sysboost-core/src/planner.rs`, `plan.rs`, `mutation.rs`, `capability.rs` | none (pure) | candidate evaluation, ordering, `validate_complete` |
| discovery, topology | `sysboost-linux/src/discovery.rs`, `topology.rs`, `fs.rs`, ... | none (read-only) | probing, topology building |
| config, controller, privd, testkit | | none | parsing, report-only bootstraps, fixtures |

**How they interact.** The privilege service owns one engine and calls it for
its peer; constructing the service runs `recover_unfinished`. The engine takes
the lock, reads and writes session files through the store and calls the backend
that owns a mutation. All calls are synchronous: what runs concurrently are
*processes* (several coordinators competing for the lock) and *other programs*
writing the tuned targets. Nothing is shared in memory; disk and host are.

**What is hard.** (1) Every call is a sequence of journal writes and host writes
with a possible crash between any two. (2) A journal write may fail before or
after it took effect (`write_atomic` renames, then syncs the directory), and some
of its errors are dropped on purpose (`let _ = self.persist(..)`). (3) A backend
write may fail before, half-way or after taking effect. (4) Targets change
underneath. (5) The lock is a file manipulated by name from several processes.
(6) Kernel files and PIDs are reached by name, and the object behind a name may be
replaced between two accesses. (7) CPUs go off and on line while the topology is
read file by file. (8) Requests to the helper are lost, repeated and delayed, and
the helper forgets what it has in memory when it stops. `PROJECT.json` lists these hazards line by line.

**What makes the parts correct.**

* record: no legal sequence of operations leaves the shapes that `encode`
  accepts; an interrupted operation can always be resumed;
* engine: a write in place is always owed by a durable record that holds the
  value it replaced; one unfinished session at a time; applies advance only over
  durable matched readbacks; undo in reverse order; the lease is dropped only on
  a clean host; a restored session is final; recovery converges;
* lock: at most one holder; a dead owner's lock is reclaimed;
* backends: compare-and-restore, never overwrite a foreign value, leave either
  the original or a value the receipt describes, valid ranges at every moment;
* service: only approved plans of the authenticated peer, no replay, no session
  without a handle;
* planner: complete, deterministic, conflict-free plans in dependency order; a
  stricter policy admits less; the more trusted layer wins;
* codecs: what is written can be read, what is accepted can be written again
  without losing a byte, and a frame has one encoding;
* topology: half of the cores stay with the rest of the host, SMT cores are not
  split, and what is submitted is what a fresh discovery would decide.

## 2. Modules

Every module is translated from the code; `PROJECT.json` maps each definition to
its lines. Data is reduced to what the properties tell apart (a target's value is
the desired one, the original or a foreign one), control is kept. Calls that only
return an error without changing anything are stuttering steps without an action.

### The engine and its promise

**SessionRecord** is the durable record as a pure value, `[state, ops]`, with one
operator per method and the two `can_transition` tables as sets of edges. A refused
transition leaves the record as it is. `ValidOperation` and `Serializable` are
`validate_operation_record` and `validate_for_serialization`. Identifiers, times,
texts and the two lists of the record are in `RecordCodec` and `JournalGrowth`.

**TransactionEngine**. State: `disk` (the session files), `mem`, `cur`, `pc`,
`idx`, `failed`, `uncertain`, `snaps` (the locals of the running call), `active`
(the lease), `value` (the host's targets), and two auxiliary variables: `lost[i]`,
the value the session's own write replaced on target `i` as long as that write is
in place, and `quiet`, which says that faults have stopped. Every call is a chain
of actions, one for each journal write or backend call, with the pure computation
in between folded into the action before it:

* `prepare`: `PrepareBegin`, `SnapshotOp` per operation, `CreateIntent`
  (or `PrepareFail`); `abort_prepared`: `AbortPrepared`;
* `apply`: `ApplyBegin`, then per operation `ApplyOp` (Applying durable),
  `Backend...` (what the backend did), `ApplyRecord`, `ApplyVerify`,
  `ApplyVerified`; then `Activate`, `ActivateClockError` or `ActivateFail`; every
  failure goes through `FailPersist` and `RollbackAfterFailure`;
* `restore`: `RestoreBegin`, `RestoreBeginFail`, `ReleaseIfRestored`;
  `recover_unfinished`: `RecoverBegin`, `RecoverBeginFail`;
* `restore_record`: `RestoreSkip`, `RestoreUncertain`, `RestoreOpBegin`,
  `RestoreFound`/`RestoreOwned`/`RestoreRefused`, `BackendRestored`/
  `BackendRestoreFailed`, `RestoreRecord`/`RestoreFailPersist`, and at the end
  `ConcludeRestored` or `ConcludeDegraded`;
* environment: `Crash`, `OtherWrite`, `FaultsStop`.

`Replace` is the store: an unserializable record is refused, and an error may come
with the new record in place or not. What a backend may do on apply is the constant
`ApplyOutcomes`: `CpuOutcomes` (receipt, refused, unknown) is `CpuBackend`, which
undoes a failed write or says `Unknown`; `leftover` is `WorkloadBackend`, whose
failing readback says nothing of the write in place. Two answers break the contract of
the trait: `unbound`, a receipt that does not match the precondition, which is recorded
and then refused by the codec; `misnamed`, the receipt of another mutation, which
`record_apply` refuses, so that apply returns at once and leaves the session `Applying`.

**SessionLedger** is the abstract specification: sessions are none, prepared, open
or done, there is one lease, and the host is dirty or clean. A session is entered
only on a clean host with nothing pending, the host is changed only for the open
session, and an entry is closed only when the host is clean. **EngineRefinement**
reads the ledger off the engine's files, lease and targets; `EngineIsLedger` says
that every step of the engine is a step of the ledger or invisible in it.

### Storage

**StateStore** is `FileStateStore`: `write_atomic`, `remove` and `load_unfinished`
with one action per access (check, open, write, sync, recheck, rename, check again,
sync of the directory), each of which may fail, under crashes, loss of power and an
administrator who replaces a file. **RecordStore** is what the engine takes a store
to be, one record per session that changes as a whole; `StoreIsAtomic` is the
refinement.

**JournalGrowth** (with its constants in **JournalBounds**) follows the number of
transitions and failures and the size of one journal through any number of restore
passes that fail, crash or cannot be stored.

**RecordCodec** has the binary format of a record as the fields `encode` writes and
the fields `decode` reads, as two separate descriptions, with every constructor check
of `mutation.rs`, the rules of `validate_operation_record` and `can_transition` (the
latter are `SessionRecord`'s tables) and the replay of the transition list. The records
are those that three journeys of a session leave behind, and some that `encode` must
refuse because a backend's answers contradict each other. A record is written, the file
may be written anew by something else (`Rewrite`: another payload with a length and a
checksum that fit it, up to `MaxEdits` times), and it is read. Bytes that changed under
their checksum are refused before anything is decoded, so they are not enumerated.

**SessionLock**: several processes run `acquire` and drop; each file-system call
(create, write, stat, read, compare, unlink) is an action. A process is a process
*generation* (pid, start time, boot), a file is an inode, numbers are not reused.
An unlink by a drop or a giving-up owner may fail, and the code ignores that
(`RemoveFails`). A process that leaves a call, or dies, forgets the call's locals.
The history variable `raced` records that some unlink removed a file other than the
one its process had compared.

### The Linux backends

**CpuBackend**: one cpufreq, boost or scalar node at the level of single file
accesses: `snapshot`, `apply` with its internal undo, `verify` and `restore`, each
read three steps (first part, second part, identity), each write one step per file
in the order `write_frequency` chooses. Which kind of node it is and whether other
programs write and replace files is chosen in the initial state.

**WorkloadControl**: the workload backend on one cgroup attribute, niceness or
placement; every identity check and every access by name is a step, and the object
behind the name may be replaced; the kind of control is chosen in the initial state.
**ManagedCgroup**: creation and removal of a managed group, with other programs in the
directory and, where `crashes` says so, helper restarts.

**Topology**: discovery of the CPU and NUMA files one by one while CPUs go off and on
line, `from_facts`, the core groups, selection of workload CPUs, the revision, and
the second discovery that is compared with the first before submission.

### The planner

**ProposalSelection** merges proposals by trust; **PolicyResolver** is
`resolve_spec`, the admission gates for one feature in their order; **PlanOrder** is
the dependency linking and numbering loop of `finalize_candidates`, together with the
check of `plan.rs` that no two executable items are for one control of one target;
**PlanValidation** has the rules of `Plan::validate`, and **PlanConstruction** runs
them over every list of mutations against an independent statement of the rules.

### The service

**PrivilegeService** is the helper: plan catalog, peer and request-number checks,
dispatch, `prepare_by_identity` with its abort, the in-process calls, and
construction with recovery. It is written on top of `SessionLedger`, the abstraction
that the engine is shown to implement, so that the composition of service and engine
does not need the engine's detail. **WireCodec** encodes and decodes every request and
response cell by cell, with the widths of the fields as constants (a frame of the run
has shorter ones in the same layout). **BackendRegistry** registers backends and routes calls.

### Modules for TLC, and slips

`MCTransactionEngine`, `MCSessionLock` and `MCWorkloadControl` name constants.
`MCLinux`, `MCRequest` and `MCRecovery` each hold several machines that
share no state: the initial state picks one of them in `mode`, only that one takes
steps, the variables of the others keep an initial value. A suite extends the modules
of its machines, so what it checks are the very definitions the theorems are about;
only the codec of records, which no theorem is about, is an instance with properties of
the suite that restrict its own to the mode.

Operators introduced by a comment that starts with "Slip" are deliberately wrong
variants of the definition below them. Nothing uses them; replacing the definition by
its slip must break the property that `PROJECT.json` pairs it with, which shows that
the property can see that mistake.

## 3. Runs

| run | instance | properties |
|---|---|---|
| EngineCpu | 1 session, 2 operations, 3 values, CPU outcomes, foreign writes, fairness | `JournalCoversHost`, `RecordsSerializable`, `ReverseRestoreOrder`, `AppliesInOrder`, `LeaseReleasedClean`, `EngineIsLedger`, `RecoveryConverges` |
| EngineSessions | 2 sessions, 1 operation, every outcome the trait allows, foreign writes | `AtMostOneUnfinished`, `RestoredIsFinal` |
| Linux | modes cpu, control, topology | `RangeValid`, `WritesAreReported`, `HousekeepingReserve`, `CoresKeptWhole`, `FallbacksTruthful`, `SubmittedIsCurrent`, `ReceiptsAreTruthful`, `ReceiptsHitTarget` |
| Request | modes order, validate, resolve, select, delivery, restart, wire, registry | `DependenciesFirst`, `CycleIsReal`, `CanonicalOrder`, `OrderedPlanIsValid`, `VerdictIsRight`, `AdmittedIsValid`, `TighterPolicyAdmitsLess`, `TrustedLayerWins`, `InOrderOnce`, `BoundPlanIsApproved`, `UnboundNeverApplied`, `CanonicalOnly`, `RoundTrip`, `RoutedToOwner` |
| Recovery | modes lock, journal, store, codec, group; fairness of the lock | `ExclusionUnlessRaced`, `DeadOwnerReclaimed`, `CleanPassFits`, `LoadIsExact`, `StoreIsAtomic`, `WrittenIsReadable`, `AcceptedIsWritable`, `RemovesOwnUnlessRaced` |
| EngineRetry | violation | `RestoreIsRetryable`: an operation durably `Restoring` cannot be resumed |
| EngineLeftover | violation | `RestoredMeansOriginal` fails with `WorkloadBackend`'s outcomes |
| EngineActive | violation | `ActiveIsHeld`: durably Active, rolled back on the host |
| LockExclusion | violation | `MutualExclusion`: two reclaimers of one stale file |
| LockCrash | violation | `StaleLockReclaimed`: an empty lock file is never reclaimed |
| WorkloadPlacement | violation | `RestoreWritesPreimage`: restore of a placement writes the destination again |
| ManagedGroup | violation | `EmptyGroupRemoved`: control files are taken for nested groups |

**Bounds and why they are enough.**

* Engine: two operations are enough for every relation between an operation and an
  earlier or later one; the loops treat operations alike. Three values are the desired
  one, the original and a foreign one. Two sessions are enough for "another session";
  they meet in EngineSessions.
  Crashes, journal failures, backend failures and foreign writes are not bounded.
* Linux: three frequencies make ranges below, above and across the current one;
  `MaxGen` and `MaxObjects` are the numbers of objects behind one name (2 for files, 3
  for cgroups and PIDs: planned, replaced, replaced again). Five CPUs in four cores and two nodes have
  an SMT core, a core alone on its node and an odd half; seven hosts differ in capacity
  and in which files are unreadable; two hotplug events can hit between any two reads.
* Request, planner: three operations on two targets have chains, diamonds and cycles, and
  on one target two of them set one control; lists of
  three mutations have every pair of rules; four features (governor, platform
  profile, GPU profile, niceness) reach every gate of the resolver, with two edits of
  the input so that consecutive decisions can be compared; three proposals of three
  sources have ties and overrides.
* Request, service: two sessions and two requests that are lost, repeated and reordered, one
  life (delivery) or two (restart); frames with two damaged cells; three backends over
  four names.
* Recovery: three processes and three lock files, so that two reclaimers of a dead
  owner's file meet each other, or a third process that took the lock in between;
  states in which `raced` is TRUE, with one and with two holders, are among those
  reached. `MaxFiles` bounds the files ever created and the liveness property discounts
  runs that reach it. The journal has two
  operations and `MaxTransitions`, `MaxFailures` scaled down in the same relation
  (17 = 3·3 + 8) as the code's constants satisfy with room to spare. The store makes
  three calls for two sessions with two faults. One rewrite of a record; three
  generations of a managed group (`MaxGroups`). The group's directory is without control
  files here (`ControlFiles = FALSE`), as in the repository's tests: with them restore
  removes nothing (ManagedGroup), and `RemovesOwnUnlessRaced`, which is about what is
  removed, would say nothing.

Deadlock checking is off because each system may rest: an engine between calls, a
finished plan, a process that died, a stopped helper.

**Fairness.** `FairSpec` of the engine: weak fairness of the running call (synchronous
code without waiting goes on) and of `RestoreCall` (the helper runs
`recover_unfinished` whenever it starts and a session's owner may repeat `restore`;
the property is about a host on which somebody does). Faults need not stop; the
property speaks of behaviours in which `quiet` became true. In Recovery, a running
process goes on and asks again for a lease it did not get, as the `Retry` in the error
tells its caller. ManagedGroup assumes that a running call goes on and that restore is
repeated until it succeeds, the most a caller can do, and the group still stays. No
fairness is assumed of faults or other programs.

## 4. What the violations mean

1. *Restoring is not re-entrant* (EngineRetry). `restore_record` makes `Restoring`
   durable before it looks at the target. After a crash there (or a journal failure
   that leaves `Restoring` on disk) `begin_restore_operation` refuses the transition
   Restoring -> Restoring on every retry, and the session stays `RecoveryPending`.
   `RecoveryConverges` states what is true: recovery settles every session without
   such an operation (`CaughtRestoring`).
2. *Workload apply may leave its write* (EngineLeftover). See `BackendLeftover`. For
   `CpuOutcomes` the same property is proved (`CpuRestoredMeansOriginal`).
3. *Active without a boost* (EngineActive). Needs the sync after a rename to fail and
   the following journal writes to fail as well.
4. *Two lock holders* (LockExclusion). Compare-then-unlink by name.
   `ExclusionUnlessRaced` shows that this window is the only way.
5. *A lock nobody owns* (LockCrash). Created, never written.
6. *Placement is not restored* (WorkloadPlacement). `write_mutation` takes the
   destination from the mutation, so `restore` moves the process where `apply` did.
7. *An empty group is not removed* (ManagedGroup). `ARCHITECTURE.md:654` asks that the
   session's own group be empty and without nested groups. `remove_child`
   (`linux/workload.rs:1022`) refuses when an entry of the directory does not start with
   `cgroup.`, and takes the controller files of a cgroup2 directory (`cpu.weight`, ...)
   for nested groups: every restore refuses, however often it is repeated.

**Further differences between code and documents**, met while modelling and visible in
the modules, without a run of their own:

* `linux/cpu.rs:345`: the undo of a failed apply writes the original without comparing,
  so a foreign value written in that window is overwritten (`docs/SAFETY.md:38`).
* `linux/cpu.rs:467`: a restore that fails between the two frequency files leaves a
  mixture that no later restore accepts (`docs/SAFETY.md:37`).
* `linux/workload.rs:1172`: between the identity check and the niceness syscall the PID
  may have a new owner (`docs/ARCHITECTURE.md:650`); `ReceiptsHitTarget` shows that
  no receipt is given for such a write.
* `linux/workload.rs:1706`: after a helper restart a foreign group of the managed name
  may be removed (`docs/SAFETY.md:38`); `RemovesOwnUnlessRaced` states when not.
* `core/planner.rs:2933` rejects the whole plan for a missing dependency of an optional
  operation (`docs/ARCHITECTURE.md:437`); `core/planner.rs:2615` drops a less
  trusted request for the value already selected together with its `required` flag
  (`docs/SAFETY.md:21`).
* `platform/privilege.rs`: request numbers live in memory, so a restarted helper accepts
  an old one (`docs/SAFETY.md:156`), and nothing rolls back on disconnect
  (`docs/SAFETY.md:128`, `docs/ARCHITECTURE.md:517`). `InOrderOnce` is about one life.
* `platform/state.rs:314`: a repeated `remove` after a failed directory sync finds no
  file and reports success without syncing; `RecordStore!Succeed` says so.
* `linux/topology.rs:99`: an SMT core may be split when the ids are readable for one of
  its threads only; a NUMA node without CPUs makes the topology refused.
* `core/transaction.rs`: the counts never block a clean pass, the byte limit of a record
  can; a failure message that is too long is cut, one with a NUL byte is refused.

## 5. Proofs

All theorems hold for every value of the constants under the named assumptions of the
modules (`NumOps` a positive natural, `Desired` a value, sentinels outside their sets,
...) and the ones named here. All but a few state a property that a run checks on a small
instance, as `PROJECT.json` lists.

**Engine** (`TransactionEngineProofs`). Five theorems hold for any backend, `WorkloadBackend`
included:

* `TypeCorrect` (`TypeOK` ties `mem`, `cur` and `idx` to `pc`, so it is inductive).
* `OneUnfinished`, `RestoredForGood`. `SessionInv`: a running call works on *the*
  unfinished session and does not take it for restored, and prepare runs with nothing
  unfinished. Every step then replaces at most the file of that session (`SavesAtMost`)
  and goes on with it or ends (`GoesOn`), whatever the backend answered.
* `AppliedInOrder`, `EncodeNeverRefuses`. `OrderInv` is `ShapeInv` (every file and the
  record in memory are matched up to the operation in progress, and serializable if
  receipts are) and `ProgressInv` (what lies before the apply loop). One lemma for each
  edge of an operation's life shows that it keeps the shape; `BackendOrder` shows it for
  every answer of the backend. `EncodeNeverRefuses` excludes one answer, a receipt that
  does not name its target (`"unbound"`): the codec does refuse such a record.

The others assume `ApplyOutcomes \subseteq CpuOutcomes`; each of them fails for a backend
that may leave its write in place, as EngineLeftover shows for one.

* `JournalSafety`, `CpuRestoredMeansOriginal`. `JournalCoversHost`
  alone is not inductive: it says nothing of the record in memory that the next journal
  write puts in place of the one on disk. `IInv` adds `DiskInv` (the one unfinished file
  covers all writes in place; without one there are none; snapshots are never the
  desired value; an `IntentDurable` file is untouched), `CallInv` (the record in memory
  covers the host too and has the file's snapshots, so it makes no difference whether
  a journal write takes effect), `PrepareInv`, `ApplyInv`, `RestoreInv` (where the
  loops are; in particular the durable operation is `Applying` at the backend call) and
  `LostInv`. `ReplaceKeeps` is the central lemma, `WriteCovered` its counterpart for
  the host write; then one lemma per group of actions with a step per action.
* `EngineImplementsLedger` (`Spec => EngineIsLedger`), `LeaseHeldUntilClean`. `Good`
  adds `FileInv` (a file shows a state from the intent on, the lease is for the only
  unfinished session) and `LeaseInv` (session state and lease of the running call). Every
  action is first shown to have one of the `Effect`s on files, lease and host (kept,
  saved, wrote, cleared, closed, ...); the refinement and the action property then follow
  effect by effect.
* `RestoredInReverse` adds `UndoInv` to `Good` and `OrderInv`: in the restore loop every
  operation behind the present one was tried or has no write in place.

**Recovery** (`RecoveryProofs`).

* Lock: `LockTypeCorrect`, `LockExclusion`, any number of processes and files. The
  invariant has who owns which file (files are not shared, their content is their
  creator's), what a reclaimer that passed its probe knows (a dead owner, and the file it
  compared holds that owner) and, unless raced, that a possessed file is the one at the
  name.
* Store (`Records` positive numbers): `StoreImplemented` is the refinement of
  `RecordStore`: data is synced before the rename and so never torn, the name is
  rechecked, and the disk agrees with the name once the directory is synced.
  `LoadsAreExact` adds what a running load has seen.
* Journal (`MaxTransitions >= 3 * MaxFailures + 8`): `RestoreIsNeverBlocked` rests on a
  count: the transitions stored are at most three per failure stored plus a margin that
  depends on the session state.
* Managed cgroups: `RemovesOnlyItsOwn`. `OwnInv` follows the group between the check of
  its identity and the removal by name: unless others came in between, the group at the
  name is one of the session's.

**CPU** (`CpuBackendProofs`). `FrequencyRangeValid` rests on `PendInv`: each of the files
still to be written, in their order, leaves a range. `CpuWritesAreReported`, for every
kind of node and with other writers, rests on `ReportInv`: what the running call knows it
has written, which of it is in place, and that a call which is about to answer "refused"
or "undone" has read every file back since.

**Workload** (`WorkloadProofs`). `ControlTypeCorrect`, `ReceiptsDescribeTheHost`,
`ReceiptsAreForTheTarget`, for any number of replaced objects. An object that lost its
name never gets it back (numbers only grow), so a matching identity *after* a write shows
that the write hit the planned object: `StrayInv` says when a write went astray,
`ReadInv` and `CapturedInv` what was read back and captured.

**Topology** (`TopologyProofs`), for any number of CPUs, layout, unreadable files,
policies and hotplug events.

* `CpuListsRoundTrip`: `parse_cpu_list` after `render_cpu_set` is the identity on sets.
  Runs end (`RunEnds`), every CPU is in a run that starts (`RunStarts`), and `Ranks`
  shows that counting the smaller starts numbers them without gaps.
* `HousekeepingIsReserved`, `FallbacksAreTruthful`, `CoresStayWhole`,
  `SubmissionIsCurrent`. The cores part the CPUs on line (`GroupsPart`) and `Before` is a
  strict total order on them (`GroupOrder`), so every core has a place (`GroupPlaces`).
  The workload is an initial piece of that order no longer than the reserve allows
  (`SplitHolds`); a workload that is too small has taken all that the reserve leaves
  (`SmallTakesAll`), which makes the reported reduction exact. `TopologyInv` carries
  what was read: any online list that was read names CPUs of the host, however torn the
  rest, and without hotplug the facts are exactly the texts of the readable files.

**Planner** (`PlannerProofs`, `PlanOrderProofs`).

* `TrustedLayerIsSelected`: `SelectionInv` says that the proposals left are those behind
  the ones seen, sorted by trust, and that a key is decided by the first that named it.
* `AdmittedPlansAreValid`, `PolicyIsMonotone`: no gate of `resolve_spec` admits a mutation
  by failing, so a mutation is admitted exactly when every gate of every list passes
  (`FirstFailingAdmits`, `JoinedGates`, one lemma per list of gates). What then reaches
  `Plan::validate` has the type and the contract its rules ask for, and each gate that a
  tighter policy passes the policy passes as well.
* `PlansAreOrdered`, `OnlyCyclesAreRejected`, `PlansAreCanonical`: in the loop of
  `finalize_candidates`, `ready` is exactly the set of mutations that wait for nothing,
  and an indegree is the number of dependencies without an identifier.
* `ValidationIsExact`, `OrderedPlansValidate`: the depth-first search of `Plan::validate`
  is a function that satisfies its own recursive equation; it exists as the largest set
  of stacks that can go on or repeat (`WalkExists`). A set of entries that depend on one
  another lets a walk go on until it repeats (`CycleIsFound`), and a walk that repeats
  goes around a cycle (`FoundIsCycle`); a list in dependency order has neither.

**Service** (`ServiceProofs`). `RequestsInOrder`, `NothingUnboundApplied`,
`ApprovedPlansOnly`: what ran was numbered no higher than the last request, a bound
session has a record, its plan is in the catalog and its own, and a session that is
being checked is not bound yet. `RoutingIsStable` (names of capabilities and operations
disjoint): no two backends own a name, and a snapshot was taken by an owner.

`FramesAreCanonical` and `FramesRoundTrip` hold for all field widths, frame limits,
cells and numbers of changes on the way, if request numbers are not zero and fit their
field and the longest message fits a frame (`WireAssumption`; the code's 8, 16 and 32
bytes and 64 KiB satisfy it). `Digits` and `Number` recurse over a field:
`ShiftedExists` and `ReadExists` show that the functions exist, `NumberOfDigits` and
`DigitsOfNumber` that each undoes the other, by an induction that is carried out on the
least counterexample (`UpTo`), since the library's induction theorems cannot be
instantiated here. `StateTable`, `ErrorTable` and `KindTable` compare the matches with
one another, `Joined` and `Parted` put fields together and take them apart; `CodeRead`
and `CodeWritten` are the two directions for the last field. `WireInv` then says that a
frame on the way is made of bytes and that the receiver has what its decoder made of it.

**Only model-checked.** Liveness under fairness (`RecoveryConverges`,
`DeadOwnerReclaimed`), which the prover does not reach, and the
codec of records (`WrittenIsReadable`, `AcceptedIsWritable`): it interprets a description of
nested fields by `RECURSIVE` operators, which the prover cannot read.

## 6. Not modelled

* Probing other than of CPU and NUMA files (`discovery.rs`, `fs.rs`, parsing of procfs
  and sysfs): independent reads of one file each with no state between them.
* `detect` of the backends and the static catalogs of capabilities: tables.
* I/O priority syscalls: the same steps as niceness with another syscall.
* Digests, identifiers, times, rendering of explanations, logging and error texts: no
  property is about them; a digest is compared, never computed.
* Ownership, mode and link-count checks of files are one check that passes or fails.
* File identity is device and inode; reuse of an inode number is not modelled.
* Configuration parsing, port traits, the controller and helper binaries (which only
  report at this commit) and the test kit.
