# TLA+ models of gVisor sentry task blocking, PID namespaces and gofer handles

This directory holds TLA+ specifications of three parts of the gVisor
sentry. Each comes with TLC model-checking runs and TLAPS proofs. All line
numbers below refer to the files under `src/`.

## The system and its parts

| part | source | module(s) | status |
|---|---|---|---|
| Task blocking | `pkg/sentry/kernel/task_block.go` | `TaskBlock`, `MCTaskBlock`, `BlockContract`, `TaskBlockProofs`, `TaskBlockRefinement` | modelled |
| TaskSet and PID namespaces | `pkg/sentry/kernel/threads.go` | `PIDNamespace`, `MCPIDNamespace`, `PIDNamespaceProofs`, `PIDNamespaceCounters`, `PIDNamespaceVisibility` | partly |
| Gofer dentry host handles | `pkg/sentry/fsimpl/gofer/dentry_impl.go` | `GoferDentry`, `MCGoferDentry`, `GoferDentryProofs` | partly |
| Bazel BUILD files (`runsc/container`, `test/benchmarks/network`, `tools/gpu/drivers`, `pkg/log`) | | none | not modelled: build rules, no runtime state |
| `test/syscalls/linux/unlink.cc` | | none | not modelled: sequential tests against a host kernel |

How the parts interact:

- **Task blocking.** A task goroutine blocks (task_block.go) inside system calls. Other goroutines interrupt it, for example a signal sent by another thread.
- **Tasks and namespaces.** Tasks are created, exit and are reaped in the TaskSet. The TaskSet names them in every PID namespace of the chain (threads.go).
- **Files.** A task's file operations reach a gofer dentry. The dentry owns host file descriptors (dentry_impl.go).

The models keep the three separate. They share no state in the code beyond
the task itself. Composing them would add states without adding a
question: no property of one part depends on the other two.

## Modules and how they correspond to the code

### TaskBlock (task_block.go, 37-295)

**State.** `pc[t]` says where each task goroutine is: Idle, Blocked,
Stopping or Uninterruptible. `call[t]` holds the entry point, the timeout,
the error and the remaining time. The other variables mirror one field or
channel each:

| variable | models |
|---|---|
| `C` | the caller's channel |
| `ech` | the BlockOn waiter entry |
| `intr` | `interruptChan`, capacity 1 |
| `armed` / `deadline` | `blockingTimer` |
| `tchan` | `blockingTimerChan` |
| `active` | Activate / Deactivate |
| `gostate` | the goroutine state accounting |

**Actions.**

- `Call` is one action per entry point. It covers Block, BlockOn, BlockWithDeadline(From), BlockWithTimeout(On) and the Uninterruptible pair.
- `FastPath` is the first select (172-177).
- `BeginBlock` covers prepareSleep and arming the timer.
- The blocking select (195-213) is three disjuncts of `Wake`: `SelectEvent`, `SelectInterrupt` (which includes `interruptSelf`) and `SelectTimer`. Each one includes the deferred `completeSleep`.
- `StopTimer` disarms the timer and drains its channel (136-145, 115-122). For BlockWithTimeout it also computes the remaining time, capped at 0 (49-64).
- `UnsetInterrupted` is `unsetInterrupted`.
- `Interrupt` is `interrupt` / `interruptSelf`.

**Environment.** `Send`, `Notify`, `TimerFire` and `Tick` are the event
producers, the timer and the clock. Their code is outside `src/`.

**Abstraction.** Durations are small naturals, and the clock is bounded by
`MaxTime`.

### BlockContract (the doc comments of task_block.go)

`BlockContract` is the abstract specification of what a blocking call
promises, taken from the doc comments of `BlockWithTimeout` (28-37),
`BlockWithDeadline` (76-82), `unsetInterrupted` (264-265) and the
uninterruptible sleep pair. Per task it keeps a state (Idle, Blocked,
Asleep), whether the awaited channel holds an event, the pending interrupt,
whether the call is timed, its deadline and the last result. A blocked
call `Return`s only for one of its three reasons: it takes the event (nil),
an interrupt is pending and stays pending (ErrInterrupted), or the call is
timed and the clock has reached the deadline (ETIMEDOUT). Timers, the timer
channel and the sleep accounting are invisible.

`TaskBlock` defines `Contract == INSTANCE BlockContract WITH ...`. The
mapping:

| abstract | image in TaskBlock |
|---|---|
| `st[t]` | `AbsSt(t)`: Blocked in the select, Asleep in an uninterruptible sleep, Idle otherwise (a task in `Stopping` has already taken its result) |
| `evt[t]` | `Chan(t)`: the waiter entry for BlockOn/BlockWithTimeoutOn, else `C` |
| `intr`, `now`, `dl` | `intr`, `now`, `deadline` |
| `timed[t]` | the entry point has a timeout or deadline |
| `res[t]` | `call[t].err` |

`Wake` maps to `Return`, `Call`/`FastPath`/`BeginBlock` to `Start`, and
`StopTimer`, `TimerFire` and a notification of a channel the call does not
wait on to stutters.

### PIDNamespace (threads.go)

**State.** For every namespace the model keeps:

- `tasksMap` (`tasks`), `tids` and `tgids`: the bimaps of 149-214;
- `last` and `exiting`;
- `parent`, created by `NewChild` (276-280).

For every thread group it keeps `leader`, `pidWithinNS`, `tasksCount`,
`tgLive` and `tgActive` (threadGroupNode, 405-469). For the TaskSet it keeps
`liveTasks`, `noNewTasksIfZeroLive` and a count of zero-live broadcasts
(60-108).

**Lookups.** `TaskWithID`, `ThreadGroupWithID`, `IDOfTask`,
`IDOfThreadGroup`, `Members`, `Count`, `MemberIDs` and `ID` are the accessors
of 282-530. `Ancestors(ns)` is `ns` together with the last entry of every parent chain from it (`ParentChains(ns, n)`: functions over `1..n` whose next entry is the parent of the one before), up to `Cardinality(NSs)` entries. This is the walk along `ns.parent` that `assignTIDsLocked` and `releaseLocked` make (149-171).

**Spec-modelled actions.** Task creation, exit and reaping (`newTask`,
`assignTIDsLocked`, `exitNotifyLocked`, `reapLocked`) are not in `src/`.
`NewTask`, `ExitInitiated`, `ExitZombie` and `Reap` are modelled from the
specification and are marked `spec_modelled` in the map.

**TID allocation.** The specification only requires a collision-free choice
that wraps at the limit. The model therefore allows any free TID: above
`last` if one exists, otherwise above `initTID`. A new task gets a TID in
every ancestor namespace, or creation fails.

**Reaping.** The leader may be reaped before the other members of its
group. This follows the comment on `threadGroupNode.leader`. Reaping the
leader releases `tgids` in every ancestor namespace, and `ID()` then
returns 0 (526-530).

**Not modelled.** Sessions, process groups, exec, stop counts and
container IDs.

**Not checked.** The zero-live broadcast on the last exit and the refusal
of `newTask` once admission is closed are each one conditional of a single
atomic step here. A property about either would restate that conditional,
so none is checked. Partial TID allocation is not in the model, because
creation is modelled as all-or-nothing. The lock-free load of
`pidWithinNS` by `tg.ID()` is not a step of its own, so a load racing a
reap is not checked either.

### GoferDentry (dentry_impl.go)

**State.** The dentry's `readFD`, `writeFD`, `mmapFD` and directfs
`controlFD`. Two flags record whether the lisafs read and write handles are
valid. `hostOpen` is the set of host FDs the dentry owns. `readers` counts
holders of `handleMu` for reading. `rpc[r]` and `ret[r]` give each reader's
place in `readHandleForDeleted` and the handle it returned.

**Actions.**

- `closeHostFDs` (157-176) closes readFD, closes writeFD unless it equals readFD, and closes the directfs control FD.
- `Acquire`, `CheckReadHandle`, `EnsureRead`, `Relock` and `Release` walk `readHandleForDeleted` (592-622). They take the lock, return a valid read handle or drop the read lock, call `ensureSharedHandle`, re-lock and re-read `readHandle()`. For directfs they seek the control FD instead.
- `EnsureShared` is the effect of `ensureSharedHandle` through `openHandle` and `updateHandles` (113-152). A RDWR open fills both FDs with one host FD.
- `Upgrade` is another goroutine calling `ensureSharedHandle`.

**Not modelled.** The metadata, xattr, directory and restore dispatchers.
They only forward to lisafs or directfs.

## Runs

All runs are listed in `PROJECT.json`. Each property has a mutant: a
plausible bug in the mapped definition. TLC catches every mutant under the
run's own configuration.

- **taskblock_safety** (`MCTaskBlock.cfg`, pass, about 14,600 states). It checks:
  - `TypeOK`;
  - `TimerQuiescent`: outside a timed block the timer is disarmed and its channel is empty, so a late expiry cannot time out the next block;
  - `InterruptedUntilUnset`: after a block returns ErrInterrupted, `Interrupted()` stays true until `unsetInterrupted`;
  - `RemainingInRange`: the remaining time is 0 on ETIMEDOUT and otherwise lies between 0 and the timeout;
  - `SleepBalanced`: deactivate/activate and the goroutine state pair up;
  - the liveness property `BlockReturns`: every blocking call returns.
- **taskblock_refinement** (`MCTaskBlockContract.cfg`, pass, about 14,600 states). It checks `ImplementsContract`, that is `Contract!Spec` with its fairness: the implementation, timer race included, is a behaviour of the contract, and every call that can return does return. Without the drain of `blockingTimerChan` in `StopTimer`, a stale expiry makes a later timed block return ETIMEDOUT before its deadline, which the contract forbids; the mutant shows TLC finds this.
- **interrupt_priority** (violation). `InterruptWinsAfterFastPath` states the specification's rule that a pending interrupt wins. Go's select chooses at random among ready cases, so an event can win.
- **remaining_vs_error** (violation). `RemainingImpliesEvent` states that a positive remainder means an event. The code returns a positive remainder with ErrInterrupted.
- **pidns_safety** (`MCPIDNamespace.cfg`, pass, about 121,400 states). It checks:
  - `TypeOK`;
  - `BimapConsistent`: `tasks` and `tids` are inverse in every namespace;
  - `VisibilityExact`: a live task has a TID exactly in its own namespace and the ancestors of that namespace;
  - `ThreadGroupIDs`: `tgids`, `ID()` and `pidWithinNS` agree with the leader while it is unreaped, and are released afterwards;
  - `CountersMatch`: `tasksCount`, the live and active counts and `liveTasks` equal the sets they count.
- **gofer_handles** (`MCGoferDentry.cfg`, pass, about 5,000 states). It checks:
  - `TypeOK`;
  - `NoBadClose`: no double close and no foreign FD;
  - `HostFDsAccounted`: the owned host FDs are exactly the referenced ones;
  - `ReadHandleForDeletedOk`: a reader returns a usable, still-open handle although the lock was dropped.

### Bounds

| model | bounds | why they are enough |
|---|---|---|
| TaskBlock | one task, clock 0..3, timeouts 0..2 | A timer can expire before, at and after a wake-up, and a zero timeout is included. Tasks share nothing but the clock, so one task shows every interleaving with the environment. |
| PIDNamespace | three tasks, two thread groups, a root, a child and a grandchild namespace, two TIDs per namespace | Enough for a clone into an existing group, nesting over a parent chain of three (so `Ancestors` takes more than one parent step), reuse after reaping, wrap-around, exhaustion, and a leader reaped before a member. TLC reaches each of these. |
| GoferDentry | two readers, three host FDs | Two readers can race through the lock drop while an upgrade happens. A RDWR open can share an FD. |

### Fairness and deadlock

TaskBlock assumes weak fairness of:

- the task goroutine's own steps (`Wake`, `StopTimer`), because the Go scheduler runs a runnable goroutine;
- `UninterruptibleSleepFinish`, because the host operation completes;
- `TimerFire` and `Tick`, because the kernel timer and clock advance.

Interrupts and events get no fairness: nothing in the code promises them.

The PIDNamespace and GoferDentry runs disable deadlock checking for a
reason. Their systems really stop:

- PIDNamespace stops when the finite task identities are used up, or when admission is closed with no live task.
- GoferDentry stops when the dentry is destroyed.

## What is proved (TLAPS)

The proofs hold for every value of the constants, under the assumptions
`TimeAssumption` (TaskBlock), `PIDAssumption` (PIDNamespace) and
`GoferAssumption` (GoferDentry). The last two include that the set of tasks
and the set of readers are finite. The counting arguments need this, and
both sets are finite in the code: they are sets of live goroutines.

**TaskBlockProofs**

- `TypeCorrect` proves `Spec => []TypeOK`. The lemma `CallFieldUpdate` states that updating one field of a call record keeps it in `Calls`.
- `TimerQuiescentHolds`, `InterruptedUntilUnsetHolds` and `RemainingInRangeHolds` prove each invariant inductive together with `TypeOK`. There is one step per action, and under it a step for each conjunct the action can disturb.
- `SleepBalancedHolds` proves `Spec => []SleepBalanced`. `SleepBalanced` alone is not inductive. `UninterruptibleSleepFinish` reactivates according to the call's `deactivate` flag, so the proof needs to know what `UninterruptibleSleepStart` did. The strengthening `SleepInv` adds that during an uninterruptible sleep the address space is active exactly when the call did not deactivate it. TLC checked `SleepInv` on two tasks before it was proved.

**PIDNamespaceProofs**

- `BimapConsistentHolds` proves `Spec => []BimapConsistent`.
- `BimapConsistent` is not inductive on its own. The proof uses `BimapInv == MapsOK /\ BimapConsistent /\ UnbornInvisible`:
  - `MapsOK` gives the types of the maps;
  - `UnbornInvisible` says that a task not yet created has no TID anywhere, which rules out a new task colliding with a stale entry.
- Lemmas:
  - `AssignedTIDFree`: an assignment only hands out free TIDs;
  - `AncestorsType` and `AncestorsRefl`: the ancestors of a namespace are namespaces and include it;
  - `NewTaskKeepsBimap`, `ReapKeepsBimap` and `OtherStepsKeepBimap`: preservation for each group of actions.

TLC checked `BimapInv` as an invariant before it was proved.

**PIDNamespaceCounters**

- `CountersMatchHolds` proves `Spec => []CountersMatch`.
- `PIDTypeCorrect` proves `Spec => []TypeOK`.
- The inductive invariant is `CounterInv == BimapInv /\ TypeOK /\ BornHasGroup /\ CountersMatch`.
  - `TypeOK` is not inductive alone. `tgActive[tg] - 1` is a natural only because an active task is counted in `tgActive[tg]`.
  - `BornHasGroup` says that a created task has a thread group. The exit and reap steps decrement the counters of that group.
  - `BimapInv` supplies the types of the maps that `NewTask` and `Reap` write.
- Each counter is related to the set it counts by `MembersOf`, `LiveOf`, `ActOf` and `LiveSetOf`, which take the status and group maps as parameters, so the same lemmas apply to the current and the next state.
  - Every step adds `t` to some of these sets, removes it, or leaves them alone.
  - `FS_AddElement` and `FS_RemoveElement` give the new sizes.
  - `CountersOrder` derives `activeTasks <= liveTasks <= tasksCount` from the nesting of the sets.
- TLC checked `CounterInv` on the `MCPIDNamespace` instance before it was proved.

**GoferDentryProofs**

- `GoferTypeCorrect`, `NoBadCloseHolds`, `HostFDsAccountedHolds` and `ReadHandleForDeletedOkHolds` prove `TypeOK` and the three safety invariants, for every set of readers and number of host FDs.
- They rest on `GInv`, which adds four conjuncts to the invariants:
  - `LockCount`: `handleMu`'s reader count equals the readers that hold it. `EnsureShared` (under `Upgrade` or `EnsureRead`) and `closeHostFDs` run only when `readers = 0`, which is when `handleMu` is held for writing. This conjunct turns that guard into the fact that no reader is using the handles (`NoHolderAtZero`).
  - `DestroyedIdle`: after `closeHostFDs` no reader is inside `readHandleForDeleted`.
  - `ControlFDOwn`: the directfs control FD is an open FD of its own, distinct from the read and write FDs. So closing it never closes a handle FD twice.
  - `RelockOk`: a reader between `ensureSharedHandle` and re-taking the read lock has seen a valid read handle. Handles are never uninstalled while the dentry lives, so the handle is still valid after the lock was dropped.
- There is one lemma per action (`AcquireGInv`, `ReleaseGInv`, `RelockGInv`, `CheckReadHandleGInv`, `CloseGInv`, `UpgradeGInv`, `EnsureReadGInv`). `EnsureSharedKeeps` is shared by the two actions that open handles.
- TLC checked `GInv` on three readers (55,141 states) before it was proved.

**PIDNamespaceVisibility**

- `VisibilityExactHolds` proves `Spec => []VisibilityExact`. The inductive
  invariant is `VisInv == CounterInv /\ ParentCreated /\ BornInCreated /\
  VisibilityExact`.
  - `ParentCreated` says that every parent pointer names a created namespace
    or none.
  - `BornInCreated` says that a created task's group namespace is created.
  - Together they give the frame fact `NewChildKeepsAncestors`. The new
    child is not created before the step, so it is no one's parent, and it
    lies on no parent chain from an existing namespace. `NewChild` therefore
    leaves the ancestors of every namespace in use unchanged. The proof
    splits on the chain position (`i = 1` or `i > 1`); it needs no
    induction.
  - `NewTask` gives a TID exactly in `Ancestors(ns)`. `Reap` clears exactly
    `ReapTargets(t)`, which is the same set (`AncestorsUnchanged`: no other
    step changes `parent`).
- `ThreadGroupIDsHolds` proves `Spec => []ThreadGroupIDs`. The inductive
  invariant is `GroupInv == VisInv /\ LeaderOK /\ GroupTIDs`.
  - `LeaderOK` says that a group has a namespace exactly when it has a
    leader, and the leader is a created task of the group.
  - `GroupTIDs` says that `tgids[ns][tg]` and `pidWithinNS[tg]` are the
    leader's TIDs (in `ns`, and in the group's namespace).
  - Reaping a leader clears both in the namespaces it leaves. Outside them
    the leader had no TID already, by `VisibilityExact`.
  - `GroupIDsFromInv` derives the property. The bimap sends the group's
    TID back to the leader, and `tgOf` sends the leader back to its group.
    Once the leader is reaped it is visible nowhere, so `ID()` is 0.
- TLC checked `GroupInv` (which includes `VisInv`) on the `MCPIDNamespace`
  instance (121,394 states) before it was proved.

**TaskBlockRefinement**

- `ImplementsContractSafety` proves `Spec => Contract!SafeSpec` for every
  set of tasks and time bound: `Init` maps to the contract's `Init`, and
  every step of `Next` maps to a step of the contract's `Next` or a stutter
  (`RefinementStep`, with one lemma per group of actions: `CallRefines`,
  `WakeRefines`, `StopTimerRefines`, `UnsetRefines`, `SleepRefines`,
  `FinishRefines`, `EnvironmentRefines`).
- The step proof needs the invariant `RefInv == TypeOK /\ TimerInv /\
  ExpiryInv`. `ExpiryInv` says that a full timer channel implies the clock
  has reached the deadline, so a timer case of the select is always a
  legitimate ETIMEDOUT. `TimerInv` (the strengthening behind
  `TimerQuiescentHolds`) says that an armed timer or a full timer channel
  only exists while a timed call is in flight, so no stale expiry is left
  for a later timed call. The two are the argument why the drain at 136-145 is
  needed.

**Only model-checked**

- the liveness properties `BlockReturns` and the fairness part of `ImplementsContract`, since the provers do not handle fairness or ENABLED.

Every safety invariant that a passing run checks is proved. No module uses RECURSIVE or `Relation`: `Ancestors` is written
with parent chains as functions over `1..n`, so the provers can reason about
it without induction.

## Findings

Both findings are divergences between the specification and
`task_block.go`; they are not crashes:

- A ready event can beat a pending interrupt in the blocking select (195).
- BlockWithTimeout's remaining time is computed for interrupted calls too (58-64).
