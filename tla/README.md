# Verification of the Pulumi Kubernetes operator

TLA+ specifications of `pulumi-rs-kube-operator`, model-checked with TLC and proved
with TLAPS.  Paths below are relative to the repository (`src/` in `PROJECT.json`).

## 1. The system

The operator drives Pulumi from Kubernetes objects.  A **Stack** says what to deploy;
the operator keeps a **Workspace** (a StatefulSet with an agent in its pod) for it, and
creates one **Update** object per Pulumi operation, which an executor task runs by
gRPC in that pod.  A **Program** is an inline source served as an archive.

| Component | Source | State it keeps | Operations |
|---|---|---|---|
| Stack actor | `src/operator/actors/actor.rs` | `ActorState`: failure count, lock state, `last_commit`, `next_reconcile_at`; everything else is in the Stack's status | handle one message: read the Stack, run the pipeline, carry out its action, maybe schedule a requeue |
| Pipeline | `src/operator/reconcile/*.rs`, `finalizers.rs` | none: reads the Stack, Updates, Workspace; creates objects | finalizer, project check, `currentUpdate`, source, `is_synced`, prerequisites, Workspace, Update; destroy flow of a deleted Stack |
| Dispatch | `actors/dispatcher.rs`, `messages.rs` | one bounded channel and task per Stack | route a message, dropping it when the channel is full; shut down |
| Watchers, executor | `controllers/mod.rs`, `controllers/update.rs` | `update_in_progress`: names being executed | Stack, Workspace, Update, Program watchers; `execute_update` |
| Workspace builder | `controllers/workspace.rs` | none | build StatefulSet and Service, readiness |
| Connection pool | `operator/connection.rs` | slab of channels, index by address | `lend`, `evict_idle` |
| Lock recovery | `operator/lock.rs`, `core/recovery.rs`, `core/lock.rs`, `reconcile/sync.rs` | `LockState`, failure count | conflict, back off, force-unlock, cooldown |
| Project verification | `reconcile/project.rs` and its steps in the pipeline and actor | `pendingDeletionSince` in the status | grace period; what happens when it ends |
| Program serving | `controllers/program.rs`, `run_program_watcher` | archives by name, Program status and finalizer | build, replace, serve, remove |
| Agent | `src/agent/*.rs` | a child process, its pipes, a cancellation | preview, refresh, up, destroy, cancel, install |
| Webhooks, events, metrics, health | `operator/webhook`, `events.rs`, `metrics.rs`, `health.rs` | counters | HTTP in and out |

How they interact: watchers send messages to actors (channel); the actor and the
executor meet only in the API server (Update conditions, Stack status) and in
`update_in_progress`; the executor reaches the agent over a pooled channel; the
garbage collector and the API server act on finalizers and owner references.

What is hard:
* the actor works on the Stack *as it read it* and awaits API calls between its steps;
  users, executors, watchers and the garbage collector go on meanwhile;
* any API call may fail, mostly with no more than a line in the log;
* a restart loses tasks, timers, `last_commit` and `update_in_progress`, but no object;
* messages are dropped on purpose (full channel, debounce window);
* the same Update name is used again for the same commit;
* deletion is a protocol of finalizers among three parties;
* delays, cooldowns and lock timeouts race with events.

What makes the components correct: an Update runs at most once and its result is
recorded for what it ran; a Stack has one Update in flight; a running Update and its
workspace are not taken away; a required destroy precedes the removal of the
finalizer; a Stack converges, a failure is retried, a deletion completes; no change is
forgotten; a channel leads to the address it was asked for; a Stack is cleaned up only
after its project was missing for the whole grace period; what a workspace's pod is told
to fetch is served, and a Program outlives the Stacks that need it.  `PROJECT.json` lists the
hazards behind these at their lines.

## 2. The modules

| Module | What it is |
|---|---|
| `StackLifecycle` | one Stack: its actor, the update watcher and executor tasks, and their surroundings |
| `UpdateContract` | the abstract promise about Update objects, which `StackLifecycle` refines |
| `StackLifecycleMC` | the Stack specs TLC explores |
| `StackLifecycle_proofs` | type correctness, protection of running Updates, the refinement |
| `CurrentUpdate_proofs` | what `currentUpdate` gives: one Update at a time, its commit, reclaim and destroy in order |
| `StackMailbox` | how changes reach an actor: channel, priority heap, debounce window, requeue tasks |
| `StackMailbox_proofs` | no change is forgotten |
| `AgentOperation` | one Pulumi operation: executor, agent task, child process and its pipes, the backend's lock |
| `OperationContract` | the abstract promise about operations, which `AgentOperation` refines |
| `AgentOperation_proofs` | recorded results are true, stale locks are those of killed processes, outcomes are final, the refinement |
| `LockRecovery` | when a Stack is tried again: retries, cooldown, lock conflicts, force-unlock |
| `LockRecovery_proofs` | no failure is forgotten; what the counters of failures and conflicts come to |
| `ConnectionPool` | the slab of channels, its index, concurrent connects, eviction |
| `ConnectionPool_proofs` | the index is sound; a made connection always finds room; the oldest makes it; only races lose slots |
| `ProjectGrace` | a Stack whose cloud project disappears: the cached check, the grace period, the cleanup |
| `ProjectGrace_proofs` | when a cleanup may happen; a pending deletion is looked at again |
| `ProgramServing` | a Program: watcher loop, file server, finalizer, the Stacks and pods that use it |
| `ProgramServing_proofs` | what templates name is served; a Program in use stays; no Stack goes back |

A definition whose name extends that of the next one (`CooldownUncapped`, `GiveUpAndRetry`)
or says what it does instead (`WindowOnly`, `RequeueSoon`) is a plausible bug of the
definition it stands before.  The specifications do not use it; it tests that a property
notices (`mutants` in `PROJECT.json`).

How they fit: `StackLifecycle` has the whole life of a Stack, with a message, a delay and
an operation as single steps.  `StackMailbox` opens the first of these, `LockRecovery` the
second, `AgentOperation` the third and `ConnectionPool` the connection it runs over.
`ProjectGrace` is the check that precedes the flow of `StackLifecycle`, `ProgramServing`
the source that some of its Stacks have.  The two contracts are where the parts are
joined formally: what `StackLifecycle` promises of Update objects is `UpdateContract`,
what it takes a whole operation to be is `OperationContract`, and `AgentOperation`
is shown to keep to that.

### StackLifecycle

`actor.pc` is where the handler of the current message is: between two of its values
everything else may happen.  Most calls to the API server have a step of their own.
Some handlers make several, each of which may fail, in one step: `RemoveFinalizer` (the
reclaim of the workspace and the removal), `EnsureWorkspace` (Workspace, StatefulSet,
Service), `CreateUpdate` (look up, strip, delete, before the half second; `RecreateUpdate`
after it), `FinishUpdate` (the Update's finalizer, the reclaim) and `CleanupOrphans`.
`actor.snap` is the Stack it read at the start.

| TLA+ | Code |
|---|---|
| `Debounced`, `Reconcile`, `CleanupOrphans`, `GetFails` | a message is received; `handle_reconcile` to the pipeline's start |
| `FirstStep` | `stack_finalizer_action`, then `currentUpdate`, in `run_pipeline` and `handle_destroy` |
| `CheckUpdate`, `AfterCheck` | `check_update` and what both flows make of it |
| `ResolveSource`, `EnsureWorkspace`, `CreateUpdate`, `RecreateUpdate` | steps 4 to 8 of `run_pipeline` |
| `DestroyGate`, `CreateDestroy` | `handle_destroy`, `create_destroy_update` |
| `AddFinalizer` ... `RecordDestroyFailed` | the arms of `handle_action` |
| `StepFails` | an error of the pipeline and `handle_error` |
| `WatchUpdate` | one event in `run_update_watcher` |
| `ExecStart` ... `ExecNotify` | `execute_update`, a task per Update |
| `User`, `Cluster`, `Crash` | the user, API server and garbage collector, time, a restart |

`ApplyStatus` is server-side apply under one field manager: a field the patch leaves out
disappears.  That is why `RecordCreated` resets `last`.  `Outcome(ok)` lets an API call
fail within a budget.  `backend` is a ghost of what Pulumi has deployed: from which
commit (that of the pod's template) and which generation of the spec.

The message and timers are abstract here: `wake` is "some watcher message waits",
`timers` the kinds of sleeping requeue tasks, `debounce` and `cooling` whether
`next_reconcile_at` and the recorded failure's cooldown lie in the future.
`StackMailbox` is the detailed account of that part.

Left out: project verification (in `ProjectGrace`), prerequisites, Flux sources, lock
conflicts, permanent errors, lengths of delays, the reconcile-request annotation (so
`IsSynced` is the code's function without it and without the resync interval), an
executor's panic (`Panic` in `AgentOperation`, after which its Update stays in progress), and
watch events older than their object.

### UpdateContract

Objects go from none to created, running, completed, and away; a task works on an
object from running to completed or is lost.  `Create` needs that no task works under
the name.  The refinement maps conditions and `exec` (`ContractState`, `Working`).

### StackMailbox

One actor's channel (`mailbox`), the batch it drained (`heap`), requeue tasks
(`timers`), and `window`, the task whose delay is `next_reconcile_at`.  A ghost counter
`revision` stands for the changes of the objects a reconcile reads, `seen` for the last
one read.  Sleeps may end in any order, as delays range from 1 s to 24 h.  FIFO order
is not kept: `run` drains the channel into a heap that does not order equals.
Every Retry the code schedules is one of three kinds: `check` (Normal), `retry`
(FailureRetry), `lockRetry` (LockRecovery); watchers always send at Normal priority.

### ConnectionPool

Everything `lend` and `evict_idle` do under the index lock is one step; connecting is
not.  The clock advances with every reading, so no two readings are equal (the code
compares monotonic nanoseconds strictly).

### AgentOperation

| TLA+ | Code |
|---|---|
| `Start`, `CallSucceeds`, `CallMeetsLock`, `CallFails` | `stream_update` to the operation's request; `retry_on_lock` |
| `Request` | the handlers `up`, `destroy`, `preview`, `refresh`, which spawn a task |
| `Spawn`, `ReadStdout`, `ReadStderr`, `Wait`, `Kill` | the phases of `run_pulumi_streaming`; only the first of reading heeds the token |
| `StopReading` | the `_ => break` of a reader: the end of the pipe, or a line that is not UTF-8, while the process may go on |
| `AnswersError`, `Blames`, `Answers`, `Reply` | the message a handler sends, and what its text says of the lock |
| `Receive`, `Panic`, `GiveUp` | the stream in `stream_update`; `truncate_message` cutting within a character; the operation timeout |
| `NoticeDrop` | the `DropGuard` in `CancellableStream` |
| `CancelUpdate` | the agent's `cancel_update`, which clears the lock of a live process too |
| `OperatorRestarts`, `PodRestarts`, `Pulumi`, `Others` | the surroundings |

Operations of a workspace come one after the other, but the process of one may outlive
its execution: `Start` waits only for the record of the one before.  Output is counted in
lines; the pipes have a capacity, so a process can block on one that nobody reads, and
one that writes where the reader is gone dies of it.  What is kept of it is counted until
the stream is dropped: nobody gets it afterwards.  `CancelUpdate` may come once a conflict
was recorded; the delays that lead there are those of `LockRecovery`.  Assumed of Pulumi:
it starts to work only with the lock, releases it unless it is killed or the lock is no
longer its own, and speaks of a lock only when it was refused (the text decides what is
recorded as a conflict; the converse is not assumed, as messages are cut after a hundred
characters).  The processes of the calls before the operation are not modelled.

### OperationContract

Of an operation it keeps the `outcome` the executor records and the `effect` of its
process on the backend.  An operation begins when none is running; pulumi does not work
before its operation begins, and one at a time, until the lock was the outcome of one of
them, after which it may be cleared under a process at work; a success of `up` or `destroy`
is one that has been applied and works no more; one stopped by the lock has no effect;
a failed or lost one may still get any.  The refinement maps what a client is at, the
result it recorded and the kind of operation to `outcome`, and the child to `effect`.
That is what lets `StackLifecycle` take an operation for one step, `ExecStream`, with an
outcome: a success there changes `backend`, and a failure may or may not have.  (An executor
that panics is a lost operation here; `StackLifecycle` has lost ones by restarts only.)

### LockRecovery

Time goes in tens of seconds.  `timers` are the requeue tasks, which may be several,
`window` is `next_reconcile_at`, `since` the age of `lastResyncTime`, `seen` that of
`first_seen`.  A reconcile is one step, `Pipeline`, with one disjunct per result; each of
its status patches may fail.  `HandleEvent`, `HandleRetry` and `HandleLockRetry` are the
triggers: only the first respects the window, the last first clears the lock.  A failed
Update is recorded with the actor's `failures`, and `Cooldown` of that count is used
twice, by `RequeueAfterCooldown` when the retry is scheduled and by `Synced` when it
comes.  `PipelineFails` has every transient error that can end a reconcile, with its own
base and limit (`ApiError`, `NotReady`), `Stalls` the permanent ones, after which nothing
is scheduled; `stalled` is that the last reconcile ended so.  Restarts, the destroy flow and
new commits are left to `StackLifecycle`.

### ProjectGrace

| TLA+ | Code |
|---|---|
| `Cached`, `Answers`, `GraceOver` | `check_project` with its five-minute limit, `is_grace_period_expired` |
| `ProjectNotFound`, `ProjectReinstated`, `ProjectTtlExpired` | the arms of `run_pipeline` and of `handle_action` of these names |
| `NormalFlow` | the rest of `run_pipeline`, as what it does to the status and the requeue tasks |
| `FlowFails`, `Stalls` | its errors in `handle_error`: those that are retried, and the permanent ones, as `ProgramNotFound` |
| `AddFinalizer`, `Deletion`, `GetFails` | what comes before the check, or instead of it |
| `HandleEvent`, `HandleRetry` | a watch event, which the window may drop; a requeue task's Retry |
| `ProjectFlips`, `UpdateEnds`, `EditSpec`, `DeleteStack`, `Restart`, `Tick` | the surroundings |

A reconcile is one step per outcome.  Time is in units of which the five minutes are
`Recheck` and the grace period (days) is `Grace`; a delay shorter than five minutes is
one, `Short`; ages stop at the bound beyond which nothing tells them apart.  `tasks` are
the times left of the requeue tasks: a Retry of one ignores the `window` of another, so
several may live at once.  The point of the module is server-side apply: `pending` and
`check` disappear with each status patch that leaves them out, and those are most.
`absent` is a history variable, the time since the first check that missed the project;
`mishaps` notes what the properties except by name: overlapping tasks, a restart, a
reinstatement whose patch failed, a failed call after which nothing is scheduled.
`stalled` is another exception: the check of a Stack whose Program is gone has no answer,
the flow that goes on ends in a permanent error, and the pending deletion waits for the
next change.

### ProgramServing

| TLA+ | Code |
|---|---|
| `Receive`, `ReconcileProgram`, `ProgramDeleted` | an event in `run_program_watcher` |
| `ProgramAction`, `Build` | `reconcile_program`, `program_finalizer_action`; the archive and its `put` |
| `AddFinalizer`, `RemoveFinalizer`, `Publish` | the calls that follow, and `trigger_referencing_stacks` |
| `Resolve` | `resolve_program`, or `handle_destroy` |
| `ProtectProgram` | `ensure_program_finalizer` |
| `Synced`, `Deploy`, `Destroy` | the rest of the two flows, each with the `ensure_workspace` before it and an Update as a step |
| `Given`, `EnsureWorkspace`, `Ready` | `ensure_workspace` with the URL of the moment; its readiness, which a pod about to be replaced has too |
| `Archives`, `Ran`, `UpdateSucceeded`, `UpdateFails` | what an Update may run: the archive of the pod, or of the one that replaces it; how it ends |
| `Serves`, `PodFetches`, `PodReplaced`, `PodEvicted` | the file server, the pod's fetch container, the StatefulSet's controller |

One Program and any Stacks that refer to it, all with `destroyOnFinalize`.  `view` and
`store` are the reflector stores of Programs and Stacks, which lag behind the cluster;
`events` is the Program's watch.  `synced` is the commit that is recorded, `deployed`, a
history variable, the archive that the last Update ran, also one that failed half way:
the two differ when an Update runs on a pod about to be replaced ("early").  An artifact, a URL, a pod template and a running pod are
all known by the generation they are of.  `mishaps` again notes what the properties
except: a removal decided without a Stack that refers to the Program, a failed patch of the
loop, a restart, a restart while the deletion of the Program is under way, and an Update
that succeeded on an archive older than the commit it is recorded for.

## 3. Runs

Every run is one question.  `pass` runs:

| Run | Shows | Bounds and why they are enough |
|---|---|---|
| `stack_sources` | `OneInFlight`, `DestroyedBeforeRemoval`, `RecordedCommit`, `ReclaimedWhenIdle` | two commits (an Update for an old and one for a new), two generations, one destroy; a Stack with workspace reclaim and one that follows a Program; nothing fails |
| `stack_disturbed` | `TypeOK`, `InFlightProtected`, `UnrecordedCostFailures`, `RefinesContract` | one failed call, one failed operation, one restart, all at any step; one commit, so every further Update reuses a name; a preview Stack and one that reclaims |
| `stack_liveness` | `DeletionCompletes`, `Converges` | an edit, a deletion and one failing operation at any time, two destroys so that one can be repeated; no failed calls and no restarts. `Converges` is about each generation while a later Update must still read the spec (`ConfigurationUnread`); an edit after that is `generation_lost` |
| `mailbox` | `TypeOK`, `NothingForgotten`, `ChangesAreSeen` | a channel of two that four changes and two tasks overfill, a failed read |
| `pool` | `TypeOK`, `IndexSound`, `LentToItsKey`, `RoomForEveryInsert`, `EvictsOldest`, `LostToRacesOnly` | two slots for three addresses, two callers that can connect to the same one, seven readings of the clock |
| `agent` | `TypeOK`, `SuccessIsReal`, `LockedChangedNothing`, `StaleLockIsKnown`, `ProcessesEnd`, `RefinesOperation` | two operations, which can overlap; a pipe of one line, so both pipes fill; two lines kept, so a result can be too large; one restart; `up` only, because the other handlers run the same task and the safety part is proved for all kinds |
| `lock` | `TypeOK`, `RetryComes`, `FailureRetried` | a cap of 90 s, between the second and the third delay (90 s and 270 s), the least lock timeout (60 s), three failed calls, so that the count exceeds the cap; one edit, one killed operation; errors of all delays up to five minutes |
| `grace` | `TypeOK`, `RecheckComes`, `CleanupIsDue`, `CleanupIsCurrent`, `GraceEnds` | a grace period longer than a recheck and no multiple of it, a task one unit late; the project disappears and returns, or the other way round; two failed calls, so that a patch and the cleanup after it can fail; one restart; both choices of cleanup, with and without a Kustomization |
| `program` | `TypeOK`, `TemplatesServed`, `GoneUnused`, `NeverGoesBack`, `Converges`, `DestroysEnd` | two generations and the one of the deletion, one Stack created and deleted at any time, a failed call or an eviction, a restart; the safety part is proved for any number of Stacks |

`violation` runs each refute one statement of the repository (see `findings`):

| Run | Statement | What happens |
|---|---|---|
| `up_as_destroy` | "Destroy completed successfully. Remove finalizer now." | the Stack is deleted while its up runs; the up's success removes the finalizer |
| `generation_lost` | `lastUpdate.generation` tells what is applied | an edit while an Update runs is recorded as applied |
| `lock_never_cleared` | "CancelUpdate force-unlocks a stale Pulumi backend lock." | each retry creates the Update anew, which resets the conflicts: the timeout is never reached |

The other findings of `PROJECT.json` have no run.  Those seen in an execution of a model
are the retry that a restart loses, the Workspace that still names its first commit, the
foreground deletion in which Stack and Update wait for each other, the channel outside
the pool's index that is never pruned, the Retry of an older task that ignores a newer
window, the process that no cancellation reaches once its stdout was read (`Unheeded`),
the panic that leaves an Update without a result (`Panic`), the lock of a live process that
is cleared (`CancelUpdate`), the pending deletion that stalls (`stalled`), the Program's
edit that is recorded as deployed from the archive before it (`"early"`), and most of the
others about projects and Programs, which are behind the exceptions (`mishaps`) of the
properties of these modules.  The others come from reading the code
for the models: what preview and refresh answer, stderr, the size of a message, the retry
of conflicts, the count of failures that each retry resets (proved, `CooldownDoesNotGrow`),
shutdown, the check-back, the clone of a revision, the annotation.

All runs of `StackLifecycle` delete in the background; the theorems hold for any
`Propagations`.  Deadlock is not checked: once the budgets are used and everything has
settled the system rests.

Bounds of every kind: `MaxGeneration`, `MaxFaults`, `MaxRunFailures`, `MaxCrashes`,
`DestroyNames` (a destroy's name carries the time), `Commits` (a source never goes back),
`MaxRevision`, `Timers`, `MaxClock`, `MaxOps`, `MaxAttempts`, `Capacity`, `Limit`,
`MaxRestarts`, `MaxEdits`, `MaxKills`, `MaxFlips`, and the shrunk times `Recheck`, `Grace`
and `Late`.

**Fairness.** `StackLifecycle!FairSpec`: the actor's task runs (tokio), its requeue
tasks wake, each Update's event is delivered and its executor ends (every stream is cut
by the operation timeout), time passes, the cluster's controllers work.  The cooldown's
Retry has its own fairness: a heap of finitely many messages is worked off before the
next is taken.  Users, failures and restarts are not fair.  `StackMailbox!FairSpec`: the
same, and strong fairness for a task that waits for room in the channel, which tokio
serves in order of arrival.  `AgentOperation!FairSpec`: the operation timeout fires, a
dropped stream is noticed, and `select!` takes each of two ready branches in time; nothing
is assumed of Pulumi.  `LockRecovery!FairSpec`: the actor handles what waits, operations
end (by their timeout), time passes; another user of the lock need never end.
`ProjectGrace!FairSpec`: the actor handles what waits, operations end, time passes; the
project need not return, and no cleanup need succeed.  `ProgramServing!FairSpec`: the watcher
loop and each Stack's actor run, the Stack store is kept up to date, pods are started and
replaced by the cluster; a fetch container is tried again until its URL is served.

**`PromptExecutors`.** `RecreateUpdate` sleeps half a second between deleting and
creating.  TRUE says that a task which has reported is over by then; FALSE lets it linger,
and then the new Update is never executed (its event meets the old key).  Safety under
faults is checked with FALSE; the other runs use TRUE.

`OneInFlight`, `DestroyedBeforeRemoval` and `ReclaimedWhenIdle` speak of behaviours in
which no call failed and no restart happened (`Undisturbed`): otherwise the code itself
gives them up, as an error of a status patch is only logged.

## 4. Proofs

TLC checks instances; these theorems hold for all values of the constants.

| Theorem | Says | Argument |
|---|---|---|
| `TypeCorrect`, of each module with state | `Spec => []TypeOK` | in `StackLifecycle` `TypeOK` alone is not inductive: `ActorKnows` adds what the handler holds at each step (the name and commit the next action uses are set) |
| `Protected` | `Spec => []InFlightProtected` | not inductive either: `Protection` adds that the actor is in the pipeline only while its Stack holds the finalizer (so the Stack, whose disappearance would free the Updates, stays), that the Update it records is over, and that a task works on an Update that is running, or gone together with its Stack |
| `StackLifecycle_proofs!Implements` | `Spec => RefinesContract` | from the same invariant, one lemma per group of steps: quiet ones, removals, the executor's |
| `CommitOfUpdate` | `Spec => []RecordedCommit` | `Path`: the Update that is checked is the one `currentUpdate` names, and one is created only when that is gone. So `CommitKnown`: `last_commit` is that of the current Update from its creation to the record of its result, or lost in a restart |
| `OneAtATime` | `Spec => []OneInFlight` | `Flight` adds to that path that at most one Update is busy, in flight or still at work: an Update gets in flight only by its creation, at which `currentUpdate` is clear |
| `ReclaimSafe` | `Spec => ReclaimedWhenIdle` | from the same invariant: an operation at work would be that of the current Update, but the one whose result led to the reclaim is over, or already forgotten |
| `OrphansCostFailures` | `Spec => []UnrecordedCostFailures` | the same path, for behaviours with faults: an Update gets in flight only when nothing is current and the actor is about to record it, and drops out of the record one at a time, by a failed call or a restart; so the set of the unrecorded grows by one element at most in a step, and only in one that is counted |
| `DestroyedFirst` | `Spec => []DestroyedBeforeRemoval` | a destroy is made only for a Stack that requires it (`DestroyWanted`), and nothing else is busy then; its success implies that nothing is deployed and nothing busy (`DestroyIsTrue`), and no later step can create an Update for that Stack. With `currentUpdate` clear the finalizer of a Stack that requires a destroy goes only after one |
| `NeverForgotten` | `Spec => []NothingForgotten` | inductive with the types: a message is dropped by a full channel, which holds others, or in a window whose task still sleeps |
| `IndexNamesItsChannels` | `Spec => []IndexSound` | an insert takes a slot that no other key names: a free one, or the one whose entry was just removed from the index |
| `LendsRightChannel` | `Spec => []LentToItsKey` | from that: what a key names was made for it |
| `RacesLoseSlots` | `Spec => LostToRacesOnly` | eviction and the evictor free a slot together with its index entry, so only an insert over an entry loses one; that entry was absent when the caller looked |
| `AlwaysRoom` | a made connection finds room | a full slab has an indexed slot (the last insert's, until `evict_idle` frees it), all entries were used before now, and a set of times has a least one |
| `OldestIsEvicted` | `Spec => EvictsOldest` | only the insert of the caller that is served changes an entry the index names, and only when no slot is free; it takes the indexed one of the least time of use |
| `RecordedSuccess` | `Spec => []SuccessIsReal` | what is on the wire, and then recorded, is what the process ended with: a Result is sent only after the wait for the process, and one that the handler checked is of a process that ended with status 0, wherever the reading of its output stopped |
| `LockStops` | `Spec => []LockedChangedNothing` | the same invariant: only a refused process is blamed on the lock |
| `StaleLocks` | `Spec => []StaleLockIsKnown` | the same, with the holder of a lock being at work or killed: it may lose the lock to `CancelUpdate`, and then releases no other's |
| `AgentOperation_proofs!Implements` | `Spec => RefinesOperation` | the same, and `Sequential`: before an operation starts nothing of it exists; until a conflict is recorded nobody clears a lock, so a process at work holds it and there is one |
| `OutcomeIsFinal` | a recorded outcome stays, and behind a success or a conflict no process moves | the same: an executor that has recorded is over, and such a process has ended, or was never asked for |
| `CooldownDoesNotGrow` | `last.failures <= faults + 1` | `CountersReset`: while an Update is current, `failures` counts the faults since its creation |
| `ForceUnlockByFaultOnly` | no force-unlock is scheduled, and no stale lock cleared, before a call has failed | the same for `attempts`: without a fault the conflict that is counted is the first, and its age is 0 |
| `FailuresRemembered` | `Spec => []RetryComes` | a window always has a task that ends with it, so dropping an event loses nothing; a reconcile that takes a failure's task away finds its cooldown over, hence does not hold it for synced, or stalls; while an Update is current the status tells of no failure, and nothing can stall |
| `PendingIsRechecked` | `Spec => []RecheckComes` | a window implies a task that outlives it, so a dropped event leaves a task; each outcome that leaves the deletion pending schedules one, is itself an event, or is a stall, which the property names |
| `CleanupAfterGrace` | `Spec => CleanupIsDue` | `Evidence`: the age of `pending` never exceeds that of `absent` as long as every reinstatement was recorded |
| `CleanupOfMissing` | `Spec => CleanupIsCurrent` | `WindowCovers`: without overlap and restart no task fires, and no event passes the window, before the cached answer of a missing project is old |
| `ServedWhileThere` | `Spec => []TemplatesServed` | a template names what was published, that was built before, and an archive goes only with the Program; a generation is never built, removed and used again |
| `NoneGoesBack` | `Spec => NeverGoesBack` | `Ordered`: the Program's queued events, what the loop is about to publish, the status and the store carry generations in the order in which they were made, and every hand-over keeps it. `Followed`: all that may still reach a Stack is no older than what it has resolved, and that no older than what is recorded of it |
| `NotGoneInUse` | `Spec => GoneUnused` | `Protection`: a Stack for which an Update has run the Program, or that is past `ProtectProgram`, means a Program with its finalizer, which only the loop removes, after it counted no reference |

Assumptions: the named `ConstantsAssumption` of each module, evaluated by TLC in the
runs.  Every invariant and every safety property of a `pass` run is proved.  Only
model-checked: liveness (`DeletionCompletes`, both `Converges`, `ChangesAreSeen`,
`ProcessesEnd`, `FailureRetried`, `GraceEnds`, `DestroysEnd`), as fairness
is out of the prover's reach.

## 5. Not modelled, and what could follow

Not modelled yet:
* Flux sources, which resolve to a revision by a call that may fail, and whose fetch differs
  from a Program's only in where it comes from;
* permanent errors inside `StackLifecycle`: `LockRecovery`, `ProjectGrace` and
  `ProgramServing` have them, with what they leave unscheduled;
* the reconcile-request annotation and the resync interval as inputs of `is_synced`;
* lock conflicts of the destroy flow, and the destroy whose `DestroyStarted` is not recorded;
* the grace period inside `StackLifecycle` instead of beside it, as a composition;
* the workspace deletions of the destroy flow against a task at work: `ReclaimedWhenIdle` is
  about the reclaim after an Update.

Not planned: prerequisites (a test on other Stacks' status that keeps no state of its own: in
every module one more way in which a reconcile fails and is retried), webhooks and events
(no state of the reconciliation depends on them), token exchange and redaction (I/O and
strings), `whoami`, `install`, versions and environments of the agent (no state), CRD
generation, the contents of pod templates other than the source's URL.  Shutdown is
described by a finding instead of a model: no message and no closed channel can end an
actor, so there is nothing to explore.
