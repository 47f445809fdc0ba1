# TLA+ models of the dynsec stall engine and hooks

This directory holds TLA+ models of the kernel side of dynsec, TLC
configurations that check them on small instances, and TLAPS proofs of
their main invariants for every value of the constants.

## The system and its parts

dynsec reports security events from kernel hooks to a user-space agent.
Some events *stall* the calling task until the agent answers. The parts
are these:

| Part | Source | Role |
|---|---|---|
| Stall engine | `src/dynsec/src/hooks.h` 95-226 | `dynsec_wait_event_timeout` inserts a stalling event into the stall table. `do_stall_interruptible` then waits on the entry for a response, a timeout, a signal or a CONTINUE, and finally removes and frees the entry. |
| Stall configuration | `hooks.h` 229-313 | `handle_stall_ioc` changes `global_config`: stall mode, the two timeouts (clamped) and default-deny. |
| Hook adapters | `src/unnamed/part_000` | The LSM hooks, tracepoints and kprobe (exec, unlink, rmdir, rename, setattr, mkdir, create, link, symlink, open, close, ptrace ×2, kill, fork, exit, free, mmap, clone). Each builds `report_flags`, allocates and fills an event, then either stalls on it or enqueues it without stalling. |
| Older hook variant | `src/dynsec/src/hooks.c` | An older copy of four hooks. It frees an event that enqueue refuses. |
| Event factory | `src/dynsec/src/factory.h` | Declarations only. |
| Stall table, queues, caches, delivery | not under `src/` | Described in `spec.md` §4.2 and §4.5-4.6. |

The parts interact as follows:

- A hook's task calls into the stall engine.
- The agent resolves table entries by request id and drains the
  delivery queues (normal priority first, then low priority).
- An administrator issues control requests. The engine re-reads those
  settings on every wait round.

## Modules

| Module | Models | Kind |
|---|---|---|
| `StallConfig` | `global_config` and `handle_stall_ioc` | component |
| `StallEngine` | the stall engine, composed with `StallConfig`; stall-table insert, resolve and remove from spec 4.2 | component (composes the configuration) |
| `EventDelivery` | every hook of `part_000`, the two delivery queues and the agent's dequeue | component |
| `StallConfigProofs`, `StallEngineProofs` | TLAPS proofs | proofs |
| `MCStallConfig`, `MCStallEngine`, `MCEventDelivery` | constants for TLC | model instances |

### StallConfig

- **Variables:** `stallMode`, `bypassMode`, `denyOnTimeout`,
  `stallTimeout` and `continueTimeout`.
- **`StallIoc(flags, …)`** is the whole of `handle_stall_ioc` for a
  permitted caller with a non-empty flags word. The EINVAL and EPERM
  returns change nothing, so they are stutters. The four blocks run in
  the code's order. The continue clamp (`ClampContinue`) reads the stall
  timeout that the same request may just have set (`ClampWait`).
- `bypassMode` is never set by code under `src/`. It is chosen once in
  `ConfigInit`.

### StallEngine

Per task the model keeps:

- `pc`: idle, inserted, retry or wait;
- `req`: the request id;
- `dflt`: `default_reponse`, which the code reads from `entry->response`;
- `cont`: `continue_count`;
- `verdict`: what the hook returned.

Global state:

- `nextId`: the next id;
- `tbl`: linked entries;
- `ent`: id ↦ [mode, response];
- `freed`: kfree'd entries.

Ghost variables, which the properties use: `outcome`, `denied`, `rounds`
(the wait rounds the task's last stall started at the `retry:` label;
`CountRound` stops it one past the cap, so it stays finite under a mutant
that never reaches the cap),
`dfl` (the configured default at insert) and `offDuring`.

| Action | Code |
|---|---|
| `StartStall` | `dynsec_wait_event_timeout` through `stall_tbl_insert` (189-215); an insert failure ends the stall with ALLOW |
| `Prologue` | `do_stall_interruptible` 95-107: reads `default_reponse` from the published entry |
| `Retry` | the `retry:` label 109-118: returns -ECHILD when stall mode is off or bypass is on |
| `Expire` | a wait round that times out or is interrupted (120-143) |
| `Wake` | a wake-up by a resolve (144-176): ALLOW/DENY ends the stall; CONTINUE re-arms the entry and loops until the cap |
| `Finish` | the common end (178-186), with the caller's `kfree` at 222: the verdict, `stall_tbl_remove_entry`, the free |
| `Resolve` | the agent's `stall_tbl_resolve` (spec 4.2) |
| `Configure` | `handle_stall_ioc` acting on waiting tasks |

Time is abstract: a wait round may expire at any moment. The
`stall_tbl_enabled` test is taken as true, i.e. the agent is connected.

### EventDelivery

- **Variables:**
  - `pc` per task: running, stalled, exited or freed;
  - `nseq`: submissions so far;
  - `normalQ` and `lowQ` of `[task, seq]` events;
  - `delivered`;
  - `stallCls`: the class of the event a task stalls on;
  - `freedEv`: per task, the events its hook freed after a refused enqueue.
- **Actions:** each hook is one action (`ExecHook` … `KprobeCloneHook`).
  It builds `report_flags` exactly as the hook does: `SelfOrStall`,
  `AuditOnly`, `SetattrMask`, `OpenFlags` and `MmapFlags`. `Submit` then
  either stalls or enqueues.
- **Enqueue:** `Enqueue` appends while the queue is below `QCap`.
  Otherwise `enqueue_nonstall_event` returns 0 (`Refused`) and the event
  is the caller's to free. The constant `FreeRefused` selects the caller.
  FALSE is part_000's `(void)` discard, used by every run. TRUE is
  hooks.c's `if (!size) free_dynsec_event(event)` (lines 57-61), which
  counts the event in `freedEv`.
- **Stalls:** `StallReturn` ends a stall. The stall itself is what
  `StallEngine` models.
- **Task lifecycle:** `ExitTp` and `TaskFree` model `__dynsec_task_exit`
  and the two tracepoints.
- **Agent:** `Dequeue` is the agent draining normal priority before low.

## Runs

| Run | Config | Expect | What it shows |
|---|---|---|---|
| config_bounds | `MCStallConfig.cfg` | pass | Any sequence of requests with timeouts below, inside and above the limits keeps both timeouts clamped (`ConfigTypeOK`). |
| config_order | `MCStallConfig_order.cfg` | violation | `ContinueNotShorter`: a request that sets only the stall timeout leaves the continuation timeout below it. |
| engine_safety | `MCStallEngine.cfg` | pass | Two tasks, two ids, an arbitrary agent and administrator. Checks `EntryOwnership` (stalled tasks and live entries correspond one-to-one), `DenyJustified` (DENY only if the agent denied that id or default-deny was on at its insert) and `ContinueCapExact` (a stall that ends at the continuation cap ran exactly `MaxContinue` wait rounds, spec scenario 7). |
| engine_liveness | `MCStallEngine_live.cfg` | pass | `StallTerminates`: every stall ends, even against an agent that answers CONTINUE forever. |
| engine_dangling_entry | `MCStallEngine_NoDanglingEntry.cfg` | violation | A freed entry is still linked in the table. |
| engine_timeout_default | `..._TimeoutYieldsDefault.cfg` | violation | A timeout returns an early agent response, not the configured default. |
| engine_cap_verdict | `..._ContinueCapDenies.cfg` | violation | Reaching the CONTINUE cap returns ALLOW. |
| engine_disable_abort | `..._DisableAbortsStalls.cfg` | violation | Disabling stall mode leaves waiting tasks to time out, possibly to DENY. |
| delivery_safety | `MCEventDelivery.cfg` | pass | `NoSelfStall` (the agent never stalls on itself), `NoStallOnRedundantSetattr` and the queue bound inside `TypeOK`. |
| delivery_order | `MCEventDelivery_PerTaskOrder.cfg` | violation | A task's events are delivered out of submission order. |
| delivery_leak | `MCEventDelivery_EventsAccounted.cfg` | violation | `EventsAccounted`: with part_000's caller, an event refused by a full queue is neither queued, delivered nor freed. With `FreeRefused = TRUE` (hooks.c's caller) the same property holds on the same instance, so the violation is the discarded return and not the drop, which the spec allows. |
| delivery_nonotify_open | `MCEventDelivery_NoNotifyOpenNotStalled.cfg` | violation | A no-notify read-only open still stalls. |

Each property of a passing run has a mutant in `PROJECT.json`: a plausible
bug in the mapped definition that TLC must catch (a dropped clamp, a reused
id, a cap tested one round early, an off-by-one at the cap, a missing count, a missing
queue check, a missing SELF clear, an inverted size filter).

### Bounds

**StallEngine**

- Two tasks and two request ids let one task stall again after another
  stall ended. That is the case in which a stale resolve could hit a
  reused slot.
- `MaxContinue = 2` lets a CONTINUE loop both re-arm and reach the cap.
  The code's 256 only lengthens the loop.
- Timeouts are collapsed to one value, because the engine never observes
  their size.
- Tasks are symmetric.

**EventDelivery**

- One agent task and one other task.
- Three submissions per task, so a task can mix a low-priority event with
  later normal ones.
- A queue capacity of 1, so that a full queue happens.

**StallConfig**

- The request timeouts lie below, inside and above the limits.

### Fairness

The waiting task's own steps (`Prologue`, `Retry`, `Expire` and `Wake`)
are weakly fair. A task in a hook is runnable: its wait is bounded by a
kernel timer and a resolve wakes it.

The agent and the administrator get no fairness. `StallTerminates` must
hold whatever they do, including an agent that answers CONTINUE forever.
It holds because of `continue_count` and the timer alone.

`EventDelivery` has no liveness property. Its runs are safety only, and
`Finished` is the terminal state once all tasks are freed and the queues
are empty.

## Findings

Each finding below is a violation run.

1. **Dangling entry** (`hooks.h:110`). The `retry:` label returns -ECHILD
   without `stall_tbl_remove_entry`. `dynsec_wait_event_timeout` then
   kfree's the entry while it is still linked. A later resolve by id would
   write freed memory.
2. **Stale default** (`hooks.h:103`). `default_reponse` is read from the
   entry after it was published, so an early agent response changes what a
   later timeout returns.
3. **Cap verdict** (`hooks.h:171`). At `MAX_CONTINUE_RESPONSES` the result
   is ALLOW. Spec §4.1 says DENY.
4. **Disable does not abort** (`hooks.h:256`). Spec §5 says in-flight
   stalls are aborted with ALLOW.
5. **Timeout ordering** (`hooks.h:279`). The continuation timeout can
   fall below the stall timeout.
6. **Event leak** (`part_000:65` and every enqueue site). The return of
   `enqueue_nonstall_event` is discarded, so a refused event is never
   freed. Spec 4.2 says the caller frees it. The older `hooks.c` does, and
   with that caller `EventsAccounted` holds.
7. **Priority reordering** (`part_000:929`, 1042, 1086). Events on the
   low-priority queue are delivered after the same task's later
   normal-priority events.
8. **Open overwrite** (`part_000:642`).
   `report_flags = DYNSEC_REPORT_STALL` undoes the earlier stream and
   no-notify clears.
Observations that no run states:

- In `dynsec_mmap_file` (`part_000:1006`), an executable mapping with
  `mmap_stall_on_exec` off falls into `else if (mmap_stall_on_ldso)` and
  stalls anyway. `MmapFlags` models this fallthrough. Whether it is
  intended is not settled: the spec only calls the policy configurable.

- The `part_000` hooks pass a `GFP_ATOMIC` allocation to the filler
  without a NULL check.
- `hooks.c`'s variant is not the one built. Only its free of a refused
  event is modelled, as `FreeRefused = TRUE`.

## Proofs

`StallConfigProofs`:

- `ConfigTypeCorrect`: `ConfigSpec => []ConfigTypeOK`, for all limits
  satisfying `ConfigAssumption`.
- The argument rests on two lemmas, `ClampWaitRange` and
  `ClampContinueRange`, about the clamp operators. `ConfigTypeOK` is
  inductive by itself.

`StallEngineProofs` proves four theorems under `EngineAssumption` and
`ConfigAssumption`:

- `TypeCorrect`: `Spec => []TypeOK`.
- `OwnershipInvariant`: `Spec => []EntryOwnership`.
- `DenyJustifiedInvariant`: `Spec => []DenyJustified`.
- `ContinueCapExactInvariant`: `Spec => []ContinueCapExact`.

`TypeInv` is `TypeOK /\ ReqValid /\ RoundsCount`. `ReqValid` says a
stalling task's id was issued. `RoundsCount` says a task before its wait
has started `cont` rounds and a waiting task `cont + 1`. Without it, the
bound `rounds <= MaxContinue` in `TypeOK` is not inductive.

Neither invariant is inductive alone. The proofs use

`SafetyInv == TypeInv /\ IdsIssued /\ DfltReset /\ EntryOwnership /\ DenySources`

where:

- `IdsIssued`: linked and freed ids, and every `req`, are below `nextId`.
  This is what makes a freshly issued id free of entries and owners.
- `DfltReset`: an idle or just-inserted task has `dflt = ALLOW`.
- `DenySources`: every DENY that can reach a verdict is justified. That
  covers an entry's response, a task's `dflt` and its `verdict`.

Each is proved with:

- `Init => SafetyInv`;
- one lemma per action for `SafetyInv /\ A => SafetyInv'`;
- `NextSafety`.

`ReleaseOwnership` is the lemma for the remove-and-free step that
`Finish` shares.

`ContinueCapExact` is proved from `CapInv == TypeInv /\ OutcomeCleared /\
ContinueCapExact`. `OutcomeCleared` says a stalling task's outcome is
still "none", so the rounds `Retry` counts never belong to a finished
stall. At the cap, `RoundsCount` and `cont < MaxContinue` give
`rounds = cont + 1 = MaxContinue`.

No run checks `SafetyInv` or `CapInv`, since each property of a run has a
mutant. Both were checked with TLC on the `engine_safety` instance (all
408,484 states) before the proofs were written.

Left to TLC only:

- **Liveness.** `StallTerminates` needs fairness and ENABLED, which
  TLAPS does not handle here.
- **The EventDelivery properties.** They are
  checked on the instances above, but no proof of them for all constants
  has been written yet.

## Not modelled

- **The factory bodies and the event fillers.** They are not in the
  repository.
- **The task and inode caches.** `handle_stall_ioc` only clears them.
- **Serialization and parsing of the delivery surface.** This is pure
  data conversion.
- **Table sharding and byte accounting.** These are abstracted to one
  table and queues counted in events.
- **The timeout lengths.**
- **`stall_tbl_enabled`.** It is assumed true.
- **The lock `stall_tbl_resolve` takes.** Its code is not under `src/`.
  `Resolve` is atomic with respect to `Wake`, as spec section 1 says the
  entry lock protects the entry's mutable fields. If resolve took only
  the shard lock, a response written between the waiter's read (line
  149) and its re-arm (line 153) would be lost. The model does not
  cover that case.
- **Signals.** They are folded into `Expire`: the code returns the same
  default for an interrupted wait as for a timed-out one.
