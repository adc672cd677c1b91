# TLA+ models of nnabla's SwapInOutScheduler

The source is `src/src/nbla/lms/swap_in_out_scheduler.cpp` (777 lines); the
header `swap_in_out_scheduler.hpp` is not in the repository. The scheduler
lets a network train with more tensors than fit on the device. It does three
things:

- in iteration 0 it records every get/cast/clear of a `SyncedArray` made by
  the functions of the graph;
- at the end of iteration 0 it plans, for each function, which arrays to
  prefetch, which to swap out and which swap-outs to wait for;
- from iteration 1 on it runs that plan around each function, through the
  pre-function and pre-update hooks.

## 1. Inventory

### Components

| # | Component | Code (lines) | State it keeps | Operations |
|---|---|---|---|---|
| C1 | Trace and schedules | `RecType`, members | `order` (records: tag, id, weak handle, size, dtype, ctx, and the flags `preclear`, `swapped_out`, `swapped_out_bytes`, `no_need_swap_out`); `func_block_ends`; `swap_in_schedule`, `swap_out_schedule`, `wait_schedule` (references into `order`); `synced_array_id_to_order_idx` | written by C3 and C4, read by C5, patched by C6 and C7 |
| C2 | Identity map | 679-696 | `synced_array_id_mapper` (handle -> id), reset by `init()` | id assignment on first sight, with an id-space check |
| C3 | Recorder | `synced_array_callback_recorder` 670-699, `get_tag` 760-777 | `order_idx`, `order` | appends one record per event once `func_idx > 0` |
| C4 | Planner | `schedule` 252-281 and its helpers 284-472 | locals `head`, `used_bytes_swap_in`, `synced_array_counts`, `host_uses_this_synced_array`, `clear_flag`; members `tail`, `used_bytes_swap_out`, `swapped_out`, `swapped_out_r` | preclear pass, swap-in pass, out-of-memory check, swap-out pass and wait passes per function, then the final wait-for-all pass |
| C5 | Executor | `pre_callback` 481-491, `swap_out_step` 495-513, `swap_in_step` 517-523, `swap_in` 527-533, `swap_out` 537-547, first-iteration swap-out and waits 550-619, scheduled swap-out and waits 622-651 | `func_idx`, `order_idx`, `tail`, `used_bytes_swap_out`, `precleared` | before each function: post-step of the previous function (swap out, wait), then prefetch for the next |
| C6 | Tracer | `synced_array_callback_tracer` 703-756, `swap_out_wrong_order` 225-245 | `order_idx`, `wrong_ordered`, `precleared` | compares a live event with the recorded one: repairs the handle of every record of the id, or queues the event as wrong-ordered; raises on a get of a precleared array |
| C7 | Dali adapter | `use_dali` 73-136 | `dali_sawptrs`, `dali_saptr_idxs`, `iter_count` | rebinds the records of the two double-buffered input arrays each iteration |
| C8 | Lifecycle | constructor 26-37, `start_scheduling`/`end_scheduling` 49-59, `reset` 62-70, `init` 162-171, `finalize` 179-222, callbacks 143-153 and 659-667 | `first_iter`, `iter_count`, the callback slot | starts and ends an iteration; iteration 0 ends by planning |

External to the source, and abstracted: the tensor store (`SyncedArray` get,
cast and clear, synchronous or ASYNC|UNSAFE), `DeviceSynchronizer`, and the
process-wide callback slot (`SingletonManager<SyncedArrayCallback>`).

### How the components interact

- The tensor store calls the callback (C3 in iteration 0, C6 afterwards) on
  every get/cast/clear. C5 unsets the callback around its own accesses.
- The graph calls the hooks, which run C5 before every function and before
  the solver update. `end_scheduling` runs C5's last post-step, then C6's
  wrong-order drain and the wait-for-all, and in iteration 0 runs C4.
- C4 and C5 share `order` (C4 writes the flags that C5 reads), `tail`,
  `used_bytes_swap_out` and `swapped_out`. C4 runs once, synchronously,
  between iterations 0 and 1.
- C5's copies are asynchronous. A swap-out is an ASYNC cast to host, and it
  is waited for only by a later synchronous get(host) from the wait schedule.
  A prefetch is an ASYNC get to the device. The planner's `no_need_swap_out`
  cancellation is what keeps a prefetch from racing a swap-out of the same
  array.

### What is hard

- The planner's two cursors (`head` of the prefetch queue, the swap-out loop
  variable) advance independently over the shared `synced_array_counts`.
  The last-use decision (`accumulate_counts(...) == 1`) is right only if
  the counts equal the device uses between the cursors.
- The byte accounting is unsigned (`size_t`), and it is kept per dtype key
  while it is released over all dtype keys.
- Plan and run differ by one function. The executor issues
  `swap_in_schedule[func_idx - 1]` after incrementing `func_idx`, and
  `swap_out_schedule[func_idx - 1]` after the following function.
- Asynchronous copies race later accesses. Cancellation relies on the
  per-array flag `swapped_out`, which the wait passes clear.
- Later iterations may diverge from the trace: more events, fewer events,
  replaced handles, clears between a preclear and its use.
- Nothing is persisted, so no crash or restart is possible. Errors
  (`NBLA_ERROR`) end the iteration.

### Properties that make each component correct

- **C4, planner:**
  - the counts-in-queue invariant;
  - budget safety (spec §8.1);
  - the swap-out queue and its bytes;
  - preclear correctness (§8.3);
  - cancellation only of in-flight swap-outs, and cancellation of every
    pending swap-out on re-fetch (§4.3, S4);
  - prefetch before use, i.e. the out-of-memory check (§4.3, S3);
  - schedule coverage (§8.2) and wait coverage;
  - termination.
- **C5, executor:**
  - no prefetch races a pending swap-out;
  - a precleared array is not accessed before its clear;
  - the device bytes stay within the budget at run time;
  - every swap-out is eventually waited for.
- **C6, tracer:**
  - identity repair (§8.7): the records of a replaced handle are rebound and
    none of its events goes to `wrong_ordered`;
  - every extra event is drained at `finalize` (S6);
  - no read outside `order`.
- **C2 and C3, identity map and recorder:** ids are unique per handle, and
  `func_block_ends` is non-decreasing and ends at `order.size()`.
- **C7, Dali adapter:** after iterations 0 and 1, every record of either
  buffer names the handle of `iter_count mod 2` (§8.6).
- **C8, lifecycle:** reset then a full iteration gives the same schedules
  (§8.5);
  the callback registry is empty after every `end_scheduling`, also on the
  error paths (§5).

### An indexing assumption

`func_block_ends` is declared in the header, which is not in the repository.
The models take it to start as `{0}`:

- `swap_out_step` pushes the end of function `func_idx`;
- `swap_out_first_iter` then reads `func_block_ends[func_idx]`, which is in
  range only under this reading.

Under this reading, the planner's out-of-memory check and its swap-out pass
for `fid` work on function `fid`'s records. The executor issues
`swap_in_schedule[fid]` before function `fid + 1`. For `fid = 0`,
`schedule_swap_out` reads `func_block_ends[-1]`. The size_t loop
`i < func_block_ends[0] = 0` cannot run for any value read, so the model
takes that loop as empty.

## 2. Modules

| Module | Models | Status |
|---|---|---|
| `SwapInOutPlanner` | C4 and the part of C1 it writes | done |
| `MCSwapInOutPlanner` | constants for TLC | done |
| `AccessTrace` | the abstract recording: what C1-C3 and C8 promise the planner | done |
| `SwapInOutRecorder` | C2, C3 and C8 across iterations: ids, records, block ends, finalize and reset, with the swap-outs of the recording iteration (part of C5); refines `AccessTrace` | done |
| `MCSwapInOutRecorder` | constants for TLC | done |
| `SwapInOutIteration` | EXTENDS the planner; C6, the bookkeeping of C5 and C8 for iteration 1: `start_scheduling`, `pre_callback`, the tracer, `end_scheduling` | done |
| `MCSwapInOutIteration` | constants for TLC | done |
| `SwapInOutExecutor` | C5: the copies of a later iteration against an abstract store with asynchronous transfers, using the planner's schedules | planned |
| `SwapInOutDali` | C7: `use_dali` over four iterations, on a recorded order and per-id index | done |
| `MCSwapInOutDali` | constants for TLC | done |

### SwapInOutPlanner

**State.** Each variable is named after the code's:

- `order` (0-based through `R(i)`), `func_block_ends`, `max_bytes_swap_in`;
- `fid`, `head`, `cur` (the loop variable `i` of `schedule_swap_out`),
  `tail`;
- both byte counters;
- `synced_array_counts`, a map from an id to a function over the dtype keys
  inserted so far;
- `host_uses` (`host_uses_this_synced_array`), `swapped_out`,
  `swapped_out_r`;
- `rec`, the four flags the planner writes into each record;
- the three schedules, as sequences of positions;
- `pc`, for where `schedule()` is;
- `reached`, a history variable holding `head` when each function's
  prefetch stopped.

**Init** is the state in which `finalize()` calls `schedule()`:

- `init()` has reset `tail`, `used_bytes_swap_out` and `swapped_out`;
- `wait_for_all_swap_out` has cleared every record's flags;
- the trace is any trace of up to `MaxLen` records;
- the function ends are any non-decreasing split of it into up to
  `MaxFuncs` functions;
- the budget is drawn from `Budgets`.

**Actions.** Each is one iteration of a loop of the code, and its disjuncts
are the code's branches:

- `SchedulePreclear` is the whole reverse pass, as the recursive operator
  `PreclearPass`.
- Swap-in iterations:
  - `SwapInSkipClear`;
  - `SwapInFetch`: already queued, first and pinned by a host use, or first
    (prefetched, cancelling a pending swap-out);
  - `SwapInStop`: the `break` on no room, or the end of `order`;
  - `SwapInHost`;
  - `SwapInTypeError`.
- `OomCheck`.
- Swap-out iterations:
  - `SwapOutSkip`;
  - `SwapOutUse`: still queued, last use before a clear, or last use,
    swapped out;
  - `SwapOutEnd`.
- Wait iterations: `WaitStep` (`schedule_wait_for_swap_out`), `WaitAllStep`
  and `WaitAllEnd` (`schedule_wait_for_all_swap_out`). Both use `WaitImpl`
  (`schedule_wait_for_swap_out_impl`).
- `NextFunction` and `StartWaitAll`, which are the end of `schedule()`'s
  `for` loop and the overwrite of `wait_schedule[last_function - 1]`.

`size_t` arithmetic wraps modulo `2^ByteWidth`. `order[tail++]` has no bounds
check in the code, and `WaitImpl` has no step for `tail = order.size()`, so
such a state would show as a deadlock. Deadlock is checked, and none is found:
`InFlightSwapOut` shows that the counter is back within the limit once `tail`
has passed every swapped-out record.

**Fairness.** `schedule()` is one synchronous call with no waits or callbacks.
Once called it keeps running, which justifies `WF_vars(Next)`.

### SwapInOutIteration

The composition of the planner with the iteration that follows it. The
planner's actions run (as `Plan`) until `schedule()` returns; then the
iteration-1 actions take over, reading the schedules and the trace the
planner left in the shared variables.

**The live iteration** is chosen by `StartScheduling` from the trace:
`Repeat(s)` makes function `k` issue again the events of its block
`[func_block_ends[k-1], func_block_ends[k])`, under a choice `s` of handles
in which at most one array is replaced by a fresh one (its old handle is then
dead: `Alive`, i.e. `weak_ptr::lock` returns null). The two other variants
insert one extra get/cast, or drop one event. `variant` and `subst` are
history variables for the properties.

**State.** `func_idx`, `order_idx`, `wrong_ordered` and `precleared` are the
code's; `sawptr` is the handle the records of each id point to (the tracer
rewrites all records of an id at once, line 738); `ev` counts the events of
the current function; `ipc` is where the iteration is; `oob_read` records a
read of `order[order_idx]` with `order_idx >= order.size()`.

**Actions.**

- `StartScheduling`: `start_scheduling` / `init()` (lines 162-171).
- `PreCallback`: `pre_callback` (481-491), i.e. `swap_out_step` for the
  previous function (`PostStep`: the preclears of `swap_out_scheduled`,
  lines 622-635, and the resync of `order_idx`, 511) and `swap_in_step`.
- `TraceEvent`: `synced_array_callback_tracer` (703-756), with its three
  outcomes: rebind (identity repair), queue as wrong-ordered, or match.
- `EndScheduling`: `end_scheduling` / `finalize()` of iteration 1: the last
  `swap_out_step`, the type check of `swap_out_wrong_order`, and
  `wait_for_all_swap_out`.
- `Stopped`: planning raised, or the iteration has ended or raised.

The copies themselves (`swap_in`, asynchronous casts, waits) act on the
tensor store, which this module leaves out; the planned executor module adds
them.

**Fairness.** The graph calls the hooks and the tensor accesses one after
another on one thread, and every function finishes; `WF` on the whole next
relation is what that gives.

### AccessTrace and SwapInOutRecorder

`AccessTrace` states what the recording promises, with no ids or cursors:
while recording, each access after the first function has started is
appended to `trace`; each function boundary (`Call`) and the end of the
recording (`Close`) append the trace length to `ends`; `Close` freezes the
trace and plans from it (`planned`); `Restart` (a reset) begins a new
recording from an empty trace and `<<0>>`.

`SwapInOutRecorder` keeps the code's own variables across iterations:
`first_iter`, `iter_count`, `func_idx`, `order_idx`, `order` (records of tag,
id and handle), `synced_array_id_mapper`, `synced_array_id_to_order_idx`,
`func_block_ends`; `cb` is the callback member (recorder or tracer),
`phase` whether an iteration is running (events reach the callback only
between `start_scheduling` and `end_scheduling`, outside `pre_callback`),
and `planned` the input `schedule()` was called with. Actions:
`StartScheduling`, `PreCallback` (with `SwapOutStep`: the push of the
function end while `first_iter` and the resync of `order_idx`),
`Record(name, h)` (the recorder, its early return and its id-space error),
`EndScheduling` (finalize) and `Reset`. Ids are `IdWidth` bits wide, so the
check at line 684 and the cast at 691 are reached with three arrays.

The recording iteration also swaps out: in its `swap_out_step`,
`swap_out()` runs `swap_out_first_iter` over the block of the function
that just ended (every device get/cast of an array that still holds data
is cast to host asynchronously, flagged `swapped_out` with its bytes and
added to `used_bytes_swap_out`; a context of another class raises the type
error) and `wait_for_swap_out_first_iter`, which waits for `order[tail++]`
while the counter exceeds `bytes / 2`. `finalize` does the same for the
last function, then `wait_for_all_swap_out`, `init()` and `schedule()`.
The loops are RECURSIVE operators over a record `[o, tail, used, err]`
(`SwapOutFirstIter`, `WaitFirstIter`, `WaitAll`, one `WaitStep` per
`wait_for_swap_out_first_iter_impl`), and each callback is one step: the
code is single-threaded, and the store calls the callback outside
`pre_callback` only. Of the tensor store the module keeps only `cleared`,
the arrays a clear left without data (`get_num_arrays() == 0`), which
decides whether a record is swapped out. The arrays take 1, 2 and 1 bytes
under `bytes = 3`, so one array of 1 byte may stay in flight while the
array of 2 bytes, or two arrays, make the iteration wait.

Errors end an iteration, but the caller still runs `end_scheduling` on
that exit (spec §5: the scheduler is a scoped resource). `slot` is the
process-wide callback registry: `start_scheduling` sets it, `pre_callback`
empties it around its steps and sets it again only if they returned, and
`end_scheduling` empties it before calling `finalize`. A type error in
`pre_callback` (phase `error_type`) leaves the registry empty. An id-space
error in the recorder (`error_exhausted`) leaves it set. `EndScheduling` is
enabled in both phases and then leads to `aborted`, after which the model
stops (§7: the training loop aborts). Two things happen on this path:

- After the type error, `func_idx` still names the function whose
  swap-outs raised. `finalize` pushes its end a second time, runs the same
  block and raises again.
- After the id-space error, `finalize` returns and plans from the partial
  trace.

The history variable `raised_ends` counts the ends pushed by steps that
raised.

The refinement mapping (`Trace == INSTANCE AccessTrace WITH ...`) reads each
record as the handle its id was first given to (what the planner, which
sees ids only, can tell apart), `ends` as `func_block_ends` without the
last `raised_ends` entries, `recording` as
the recorder being the callback. `RecordedTrace == Trace!ASpec` is checked
as a PROPERTY. Only safety is checked here, so neither module states
fairness.

### SwapInOutDali

`use_dali` is called by the user before every iteration with the current
buffer of the Dali iterator, which alternates `(X0, T0)` and `(X1, T1)`.
The module's `Init` is the state after the recording iteration: a recorded
trace over `X0`, `T0` and the other arrays, with `order` (id and `sawptr` per
record) and the per-id index built by the recorder's id assignment
(`IdOf`: the number of distinct arrays seen before). `dali_saptr_idxs` has
no initializer in the source shown, so `Init` lets it hold any id.
`UseDali` is the whole call: the empty and multi-GPU errors, iteration 0
(remember buffer 0), iteration 1 (the expired check, `Lookup` of each buffer
array's id with the old value kept when no record has it, remember buffer 1,
`Switch`), and later iterations (`Switch` to buffer `CurrentBatch`).
`Iterate` is the iteration itself, reduced to finalize's `iter_count++`: the
tracer's events of those iterations are modelled in `SwapInOutIteration`.

## 3. Runs

All runs use `MCSwapInOutPlanner`:

- two arrays, `a` of 1 element and `b` of 2 elements;
- dtypes `F32` (2 bytes) and `F16` (1 byte);
- budgets 4, 7 and 12.

Between them the budgets give:

- prefetch shares of 2, 4 and 6 bytes;
- swap-out shares of 2, 3 and 6 bytes.

Under budget 4 only `a` fits. Under budget 7, `b` fits, but its swap-out
alone exceeds the swap-out share, because the odd budget makes `bytes / 2`
round down and the planner must wait. Under budget 12 both arrays fit
together. Every branch of the planner is therefore reached: stopping
prefetch, waiting, out-of-memory, the type error, preclear, host pins and
cancellation.

| Run | cfg | Expect | Checks | Shows |
|---|---|---|---|---|
| `planner_main` | `MCSwapInOutPlanner.cfg`: traces of up to 4 records, one dtype, device/host/other contexts, up to 3 functions; 2.8M states, about 2 min | pass | `TypeOK`, `WindowCounts`, `ResidentBytes`, `QueueWithinPrefetchShare`, `InFlightSwapOut`, `PreclearMatchesTrace`, `CancelOnlyInFlight`, `Termination` | With one dtype, the counts equal the device uses between the swap-out cursor and `head` at every step, and `used_bytes_swap_in` equals the bytes of the queued pairs, within `B - B/2`. `used_bytes_swap_out` equals the bytes of the unconsumed swapped-out records, none behind `tail`, so the wait loop never runs past `order`. Preclear flags match the trace. A cancellation only hits an in-flight swap-out. `schedule()` terminates. |
| `planner_dtype_underflow` | `_dtypes.cfg`: two dtypes, 2 records, 3 functions | violation | `BudgetSafety` | `a` used as F32, then as F16 in a later function: the swap-out releases the bytes of both keys and `used_bytes_swap_in` wraps. |
| `planner_refetch_cancel` | `_refetch.cfg`: 3 records, 4 functions | violation | `CancelOnRefetch` | Trace `a`,`a`,`a` in three functions. The wait of the cancelled first swap-out clears `swapped_out[a]`, so the pending second swap-out is not cancelled when `a` is prefetched again (S4). |
| `planner_lost_waits` | `_waits.cfg`: 2 records, 3 functions | violation | `WaitCoverage` | Budget 7, `b` in the last regular function: its wait is consumed into `wait_schedule[1]` and then erased by the wait-for-all pass. |

Runs of `MCSwapInOutIteration` (the same arrays, a fresh handle `x`, budget
12 so that planning mostly succeeds, traces of up to 3 records over up to 3
functions, classes device/host/other; 1.7M states, about 15 s):

| Run | cfg | Expect | Checks | Shows |
|---|---|---|---|---|
| `iteration_main` | `MCSwapInOutIteration.cfg` | pass | `IterationTypeOK`, `IdentityRepair`, `CursorAtFunctionStart` | The cursor stays within `order` plus the added events; a repeated graph with a replaced array ends with exactly that array's records rebound and nothing wrong-ordered; without an added event every function starts at its recorded block. |
| `iteration_repeat_async` | `_repeat.cfg` | violation | `NoAsyncErrorOnRepeat` | Device GET `a` in f1, CLEAR `a` in f2, host get of `a` in f3, repeated exactly. The planner puts f1's preclear in `swap_out_schedule[1]`, which runs after f2, when the clear has already happened. So f3's get raises `target_specific_async`. The same happens with the GET and the CLEAR both in f1. |
| `iteration_read_past_order` | `_oob.cfg` | violation | `NoReadPastOrder` | An extra get/cast in the last function: line 727 reads `order[order.size()]`. |

Runs of `MCSwapInOutRecorder` (handles `h1`..`h3`, 1-bit ids, up to 3
records and 2 functions per iteration (3 in `recorder_main`), 3 iterations):

| Run | cfg | Expect | Checks | Shows |
|---|---|---|---|---|
| `recorder_main` | `MCSwapInOutRecorder.cfg`, no reset, device/host/other contexts, 3 records, 3 functions, 3 iterations; 1.0M states | pass | `RecordedTrace`, `FirstIterInFlight`, `PlannerInputClean`, `CallbackReleased` | Recording, finalize and later iterations implement `AccessTrace`. In the recording iteration `used_bytes_swap_out` is the sum of the bytes of the unwaited swapped-out records, all between `tail` and `order_idx`, and within `bytes / 2`; `schedule()` receives records with no `swapped_out` flag or bytes left, also when it plans after an id-space error. After every `end_scheduling`, including those run after a raise in `pre_callback` or the recorder and those where `finalize` raises, the callback registry is empty. |
| `recorder_reset` | `_reset.cfg`, one reset, device contexts only; 6.2M states, about 1 min | pass | `RecorderTypeOK`, `IdsIdentifyArrays` | Ids identify arrays in every recording: the third array hits the id-space error instead of wrapping onto id 0. Block ends are pushed only in the first iteration. |
| `recorder_reset_replan` | `_replan.cfg` | violation | `RecordedTrace` | `reset()` keeps `func_block_ends` and `first_iter`: the next recording is not split into functions or planned from (spec §5). It also keeps `synced_array_id_to_order_idx`, which still lists positions of the discarded trace. |

Runs of `MCSwapInOutDali` (buffers `X0,T0` and `X1,T1`, one other array `O`,
recorded traces of up to 3 records, 4 iterations; 1.2K states):

| Run | cfg | Expect | Checks | Shows |
|---|---|---|---|---|
| `dali_main` | `MCSwapInOutDali.cfg`: both buffer arrays recorded | pass | `RecordsPointToLive` | After each `use_dali`, the data and label records name buffer `iter_count mod 2` and the other records their own array, whatever `dali_saptr_idxs` held before iteration 1. |
| `dali_lookup` | `MCSwapInOutDali_lookup.cfg`: traces that may miss a buffer array | violation | `RecordsPointToLive` | Trace `<<X0>>` (no label access): the lookup of `T0` finds nothing, `dali_saptr_idxs[1]` keeps its uninitialized value 0, the id of `X0`, and `X0`'s record is rebound to `T1`. |

Each property of a passing run has a mutant in `PROJECT.json`: a plausible
bug in the mapped definition (a dropped guard, a missing reset, the wrong
limit) that TLC must catch under the same cfg.

**Why these bounds suffice.** Every planner branch depends on:

- whether an (array, dtype) pair is already queued;
- whether it fits;
- whether its use is the last in the queue;
- whether a clear follows;
- whether the swap-out share is exceeded.

Two arrays of different sizes under three budgets decide each of these both
ways. Four records over three functions let an array be queued, swapped out,
cancelled and waited for in different functions. Cancellation needs a
swap-out in one function and a re-fetch in a later one.

## 4. Not modelled, and why

- The tensor store, device and synchronizer are external code. Of the
  store, `SwapInOutRecorder` keeps whether an array holds data; residency,
  the head array class and the copies in flight are not modelled.
- `swap_in` (lines 527-533) and `wait_for_swap_out_scheduled` (638-655)
  only call the store's `get`; they change no state of the scheduler, so
  the later iterations in `SwapInOutIteration` leave them out.
- After the caller's `end_scheduling` on an error path, the model stops:
  §7 says the training loop aborts. On the type-error path, that
  `end_scheduling` raises again before `wait_for_all_swap_out` and
  `DeviceSynchronizer::synchronize`. The asynchronous casts issued before the
  first raise are therefore never waited for by the scheduler. The model
  reaches this state, but no property states the drain: the store's copies
  are not modelled, and §7 allows the synchronize to be skipped on error
  paths.
- Error messages, and the `Context` beyond its array class, are left out; no
  property depends on them.
- The executor's copies are not modelled (see §5).
- The recorder module runs several iterations, but the tracer's events,
  which advance `order_idx` and rebind `order[].sawptr` (738-740), are
  modelled only in `SwapInOutIteration` (iteration 1). The records of
  `SwapInOutRecorder` keep the handle they were recorded with. So
  `RecordedTrace`'s statement about later iterations assumes no
  rebinding, and the mapping's `raised_ends` turns the second end pushed
  on the type-error path into a stutter, which `RecordedTrace` therefore
  does not judge.
- A graph with no function makes `schedule()` assign
  `wait_schedule[last_function - 1]` with `last_function == 0`. The
  schedules are indexed with no resize anywhere, so they are maps, and the
  assignment only inserts a key. The planner's traces have at least one
  function.

## 5. Plan for the next sittings

1. **Recorder and lifecycle** (C2, C3, C8): modelled in `SwapInOutRecorder`,
   refining `AccessTrace`, with the swap-outs of the recording iteration.
2. **Tracer** (C6): modelled in `SwapInOutIteration`. Still to add:
   wrong-ordered exactly for the differing events, and an iteration 2 that
   starts from iteration 1's rebound records.
3. **`SwapInOutExecutor`** (C5, C8): one later iteration running the
   planner's schedules, computed by an operator version of the planner,
   against an abstract store with asynchronous copies. Properties:
   - no prefetch while a swap-out of the same array is in flight;
   - device bytes within the budget;
   - preclear before clear (line 627);
   - every swap-out waited for by the end of `finalize`;
   (reset and re-planning are checked in `SwapInOutRecorder`).
   An abstract specification of "the array is on the device when its
   function runs", refined by the executor.
4. **`SwapInOutDali`** (C7): modelled. Still to add: composition with the
   recorder, so that a `reset()` between iterations (which keeps the per-id
   index) reaches the rebinding.
5. The project keeps at most twelve runs. The prefetch-before-use
   requirement at line 270 (the out-of-memory check looks at the block of
   the function before the one the prefetch is for) and the coverage of the
   last function's records by swap-out schedules (line 363) had violation
   runs in an earlier version and are left unchecked for now.
