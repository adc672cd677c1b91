-------------------------- MODULE SwapInOutPlanner --------------------------
(***************************************************************************)
(* The planner of SwapInOutScheduler (swap_in_out_scheduler.cpp): the call *)
(* schedule() that finalize() makes at the end of iteration 0.  It turns   *)
(* the recorded trace `order` into the per-function swap-in, swap-out and  *)
(* wait schedules.  Every iteration of the loops of schedule_swap_in,      *)
(* schedule_swap_out and schedule_wait_for_swap_out(_impl) is one step, so *)
(* the invariants hold at every point of the planner, not only at its end. *)
(* The trace, the function block ends and the budget are chosen in Init.  *)
(*                                                                         *)
(* Positions in `order` are 0-based, as in the code: R(i) is order[i].     *)
(* func_block_ends is taken to start as {0} (its declaration is in the     *)
(* header, which is not in the repository): swap_out_step pushes the end   *)
(* of function func_idx and swap_out_first_iter then reads                 *)
(* func_block_ends[func_idx], which exists only under this reading.        *)
(***************************************************************************)
EXTENDS Integers, Sequences, FiniteSets, TLC, Functions, FiniteSetsExt

CONSTANTS
  Ids,          \* synced array ids (model values)
  DTypes,       \* element types
  SizeOfDType,  \* sizeof_dtype
  ArraySize,    \* SyncedArray::size() of each array, in elements
  Classes,      \* array classes a recorded context may carry
  Device,       \* device_ctx.array_class
  Host,         \* host_ctx.array_class
  Budgets,      \* the constructor argument `bytes` (max_bytes_swap_in)
  MaxLen,       \* bound on the length of the recorded trace
  MaxFuncs,     \* bound on the number of functions of iteration 0
  ByteWidth,    \* width of size_t in the model (values wrap mod 2^ByteWidth)
  GETCAST, CLEAR, NoRec

ASSUME /\ \A d \in DTypes : SizeOfDType[d] \in Nat \ {0}
       /\ ArraySize \in [Ids -> Nat \ {0}]
       /\ Device \in Classes /\ Device # Host
       /\ Budgets \subseteq Nat /\ MaxLen \in Nat \ {0} /\ MaxFuncs \in Nat \ {0}
       /\ ByteWidth \in Nat \ {0}

\* size_t arithmetic
Wrap(x) == x % (2 ^ ByteWidth)

\* RecType as the planner reads it; the flags it writes live in `rec`.  The
\* planner never reads the dtype or the context of a CLEAR record.
GetCastRecs == [tag : {GETCAST}, id : Ids, dtype : DTypes, ctx : Classes]
ClearRecs == [tag : {CLEAR}, id : Ids,
              dtype : {CHOOSE d \in DTypes : TRUE}, ctx : {Device}]
Records == GetCastRecs \cup ClearRecs
Flags == [preclear : BOOLEAN, swapped_out : BOOLEAN,
          swapped_out_bytes : Nat, no_need_swap_out : BOOLEAN]
NoFlags == [preclear |-> FALSE, swapped_out |-> FALSE,
            swapped_out_bytes |-> 0, no_need_swap_out |-> FALSE]

Phases == {"preclear", "swap_in", "oom_check", "swap_out", "wait",
           "wait_all", "done", "error_memory", "error_type"}
Final == {"done", "error_memory", "error_type"}

VARIABLES
  order, func_block_ends, max_bytes_swap_in,   \* inputs of schedule()
  pc,                   \* where schedule() is
  fid, head,            \* the locals of schedule()
  cur,                  \* the loop variable i of schedule_swap_out
  tail,
  used_bytes_swap_in, used_bytes_swap_out,
  synced_array_counts,  \* id -> (dtype keys inserted -> count)
  host_uses,            \* host_uses_this_synced_array, local to swap-in
  swapped_out, swapped_out_r,
  rec,                  \* the flags the planner writes into order[i]
  swap_in_schedule, swap_out_schedule, wait_schedule,
  reached               \* history: head when fid's swap-in stopped

input == <<order, func_block_ends, max_bytes_swap_in>>
arrays == <<synced_array_counts, host_uses, swapped_out, swapped_out_r>>
schedules == <<swap_in_schedule, swap_out_schedule, wait_schedule>>
vars == <<input, pc, fid, head, cur, tail, used_bytes_swap_in,
          used_bytes_swap_out, arrays, rec, schedules, reached>>

L == Len(order)
Pos == 0 .. L - 1
R(i) == order[i + 1]
LastFunction == Max(DOMAIN func_block_ends)   \* func_block_ends.size() - 1
MaxBytesSwapOut == max_bytes_swap_in \div 2
\* mutant: the whole budget as the prefetch limit
PrefetchLimitWhole == max_bytes_swap_in
PrefetchLimit == max_bytes_swap_in - MaxBytesSwapOut
Bytes(id, dt) == ArraySize[id] * SizeOfDType[dt]

\* synced_array_counts[id][dt]; operator[] inserts a missing key as 0.
Count(id, dt) ==
  IF dt \in DOMAIN synced_array_counts[id] THEN synced_array_counts[id][dt] ELSE 0
AddCount(id, dt, d) ==
  [synced_array_counts EXCEPT ![id] = (dt :> Count(id, dt) + d) @@ @]
AccumulateCounts(id) == SumFunction(synced_array_counts[id])
\* The bytes of every dtype key ever inserted for id, as the loops over
\* synced_array_counts[r.synced_array_id] of schedule_swap_out add them.
KeyBytes(id) ==
  MapThenSumSet(LAMBDA dt : ArraySize[id] * SizeOfDType[dt],
                DOMAIN synced_array_counts[id])

-----------------------------------------------------------------------------
(* schedule_preclear: a reverse pass carrying clear_flag per id.           *)

\* mutant: clear_flag not reset by a GETCAST
RECURSIVE PreclearPassNoReset(_, _, _)
PreclearPassNoReset(i, flag, pre) ==
  IF i < 0 THEN pre
  ELSE IF R(i).tag = CLEAR
       THEN PreclearPassNoReset(i - 1, [flag EXCEPT ![R(i).id] = TRUE], pre)
       ELSE PreclearPassNoReset(i - 1, flag, [pre EXCEPT ![i] = flag[R(i).id]])

RECURSIVE PreclearPass(_, _, _)
PreclearPass(i, flag, pre) ==
  IF i < 0 THEN pre
  ELSE IF R(i).tag = CLEAR
       THEN PreclearPass(i - 1, [flag EXCEPT ![R(i).id] = TRUE], pre)
       ELSE PreclearPass(i - 1, [flag EXCEPT ![R(i).id] = FALSE],
                         [pre EXCEPT ![i] = flag[R(i).id]])

SchedulePreclear ==
  /\ pc = "preclear"
  /\ LET pre == PreclearPass(L - 1, [id \in Ids |-> FALSE],
                             [i \in Pos |-> rec[i].preclear])
     IN rec' = [i \in Pos |-> [rec[i] EXCEPT !.preclear = pre[i]]]
  /\ pc' = "swap_in"
  /\ UNCHANGED <<input, fid, head, cur, tail, used_bytes_swap_in,
                 used_bytes_swap_out, arrays, schedules, reached>>

-----------------------------------------------------------------------------
(* schedule_swap_in: one iteration of `while (head < order.size())`.       *)

\* mutant: `continue` without head++
SwapInSkipClearNoAdvance ==
  /\ pc = "swap_in" /\ head < L /\ R(head).tag = CLEAR
  /\ UNCHANGED vars

SwapInSkipClear ==
  /\ pc = "swap_in" /\ head < L /\ R(head).tag = CLEAR
  /\ head' = head + 1
  /\ UNCHANGED <<input, pc, fid, cur, tail, used_bytes_swap_in,
                 used_bytes_swap_out, arrays, rec, schedules, reached>>

DeviceGetCast ==
  /\ pc = "swap_in" /\ head < L
  /\ R(head).tag = GETCAST /\ R(head).ctx = Device
\* `used_bytes_swap_in + next_array_bytes` within the prefetch share
Fits == Wrap(used_bytes_swap_in + Bytes(R(head).id, R(head).dtype))
          <= PrefetchLimit

\* mutant: a host-pinned first appearance adds no bytes
AddSwapInBytesUnpinned(r) ==
  IF host_uses[r.id] THEN used_bytes_swap_in
  ELSE Wrap(used_bytes_swap_in + Bytes(r.id, r.dtype))
AddSwapInBytes(r) == Wrap(used_bytes_swap_in + Bytes(r.id, r.dtype))

\* no_need_swap_out of the pending swap-out of id, if swapped_out[id]
CancelSwapOut(id) ==
  IF swapped_out[id]
  THEN [rec EXCEPT ![swapped_out_r[id]].no_need_swap_out = TRUE]
  ELSE rec

\* A device get/cast that fits: counted, and prefetched when it is the
\* first of its (array, dtype) in the queue and the host does not use it.
SwapInFetch ==
  LET r == R(head) IN
  /\ DeviceGetCast /\ Fits
  /\ \/ /\ Count(r.id, r.dtype) > 0
        /\ UNCHANGED <<used_bytes_swap_in, swap_in_schedule, rec, swapped_out>>
     \/ /\ Count(r.id, r.dtype) = 0
        /\ used_bytes_swap_in' = AddSwapInBytes(r)
        /\ \/ host_uses[r.id] /\ UNCHANGED <<swap_in_schedule, rec, swapped_out>>
           \/ /\ ~host_uses[r.id]
              /\ swap_in_schedule' =
                   [swap_in_schedule EXCEPT ![fid] = Append(@, head)]
              /\ rec' = CancelSwapOut(r.id)
              /\ swapped_out' = [swapped_out EXCEPT ![r.id] = FALSE]
  /\ synced_array_counts' = AddCount(r.id, r.dtype, 1)
  /\ head' = head + 1
  /\ UNCHANGED <<input, pc, fid, cur, tail, used_bytes_swap_out, host_uses,
                 swapped_out_r, swap_out_schedule, wait_schedule, reached>>

\* Out of memory (`break`), or the queue is exhausted.
SwapInStop ==
  /\ pc = "swap_in"
  /\ \/ head = L
     \/ DeviceGetCast /\ ~Fits
  /\ pc' = "oom_check"
  /\ reached' = [reached EXCEPT ![fid] = head]
  /\ UNCHANGED <<input, fid, head, cur, tail, used_bytes_swap_in,
                 used_bytes_swap_out, arrays, rec, schedules>>

SwapInHost ==
  /\ pc = "swap_in" /\ head < L
  /\ R(head).tag = GETCAST /\ R(head).ctx = Host
  /\ host_uses' = [host_uses EXCEPT ![R(head).id] = TRUE]
  /\ head' = head + 1
  /\ UNCHANGED <<input, pc, fid, cur, tail, used_bytes_swap_in,
                 used_bytes_swap_out, synced_array_counts, swapped_out,
                 swapped_out_r, rec, schedules, reached>>

SwapInTypeError ==
  /\ pc = "swap_in" /\ head < L
  /\ R(head).tag = GETCAST /\ R(head).ctx \notin {Device, Host}
  /\ pc' = "error_type"
  /\ UNCHANGED <<input, fid, head, cur, tail, used_bytes_swap_in,
                 used_bytes_swap_out, arrays, rec, schedules, reached>>

-----------------------------------------------------------------------------
(* schedule(): the out-of-memory check after schedule_swap_in.  For fid=0  *)
(* schedule_swap_out reads func_block_ends[-1]; whatever it reads, the     *)
(* size_t loop `i < func_block_ends[0]` (= 0) does not run.                *)

BlockStart(f) == IF f = 0 THEN func_block_ends[0] ELSE func_block_ends[f - 1]

\* mutant: the check against the start of the block
ReachedBlockStart(f) == head >= BlockStart(f)
\* `head < func_block_ends[fid]` is false
Reached(f) == head >= func_block_ends[f]

OomCheck ==
  /\ pc = "oom_check"
  /\ \/ ~Reached(fid) /\ pc' = "error_memory" /\ UNCHANGED cur
     \/ Reached(fid) /\ pc' = "swap_out" /\ cur' = BlockStart(fid)
  /\ UNCHANGED <<input, fid, head, tail, used_bytes_swap_in,
                 used_bytes_swap_out, arrays, rec, schedules, reached>>

-----------------------------------------------------------------------------
(* schedule_swap_out: one iteration over [fbe[fid-1], fbe[fid]).  A        *)
(* context other than device or host cannot reach here: schedule_swap_in   *)
(* has already scanned the block and raised the type error.                *)

SwapOutSkip ==
  /\ pc = "swap_out" /\ cur < func_block_ends[fid]
  /\ R(cur).tag = CLEAR \/ R(cur).ctx = Host
  /\ cur' = cur + 1
  /\ UNCHANGED <<input, pc, fid, head, tail, used_bytes_swap_in,
                 used_bytes_swap_out, arrays, rec, schedules, reached>>

\* mutant: the context of the use not checked
DeviceUseAnyCtx(i) == R(i).tag = GETCAST
DeviceUse(i) == R(i).tag = GETCAST /\ R(i).ctx = Device

\* A device use leaves the queue.  At the last use of the array in the
\* queue it is scheduled: swapped out unless a clear follows (preclear), and
\* the bytes of all its dtype keys leave used_bytes_swap_in.
SwapOutUse ==
  LET r == R(cur) IN
  /\ pc = "swap_out" /\ cur < func_block_ends[fid] /\ DeviceUse(cur)
  /\ \/ /\ AccumulateCounts(r.id) # 1
        /\ UNCHANGED <<used_bytes_swap_in, used_bytes_swap_out, swapped_out,
                       swapped_out_r, rec, swap_out_schedule>>
     \/ /\ AccumulateCounts(r.id) = 1
        /\ swap_out_schedule' = [swap_out_schedule EXCEPT ![fid] = Append(@, cur)]
        /\ used_bytes_swap_in' = Wrap(used_bytes_swap_in - KeyBytes(r.id))
        /\ \/ /\ rec[cur].preclear
              /\ UNCHANGED <<used_bytes_swap_out, swapped_out, swapped_out_r, rec>>
           \/ /\ ~rec[cur].preclear
              /\ rec' = [rec EXCEPT ![cur].swapped_out = TRUE,
                                    ![cur].swapped_out_bytes = KeyBytes(r.id)]
              /\ swapped_out' = [swapped_out EXCEPT ![r.id] = TRUE]
              /\ swapped_out_r' = [swapped_out_r EXCEPT ![r.id] = cur]
              /\ used_bytes_swap_out' = Wrap(used_bytes_swap_out + KeyBytes(r.id))
  /\ synced_array_counts' = AddCount(r.id, r.dtype, -1)
  /\ cur' = cur + 1
  /\ UNCHANGED <<input, pc, fid, head, tail, host_uses, swap_in_schedule,
                 wait_schedule, reached>>

SwapOutEnd ==
  /\ pc = "swap_out" /\ cur = func_block_ends[fid]
  /\ pc' = "wait"
  /\ UNCHANGED <<input, fid, head, cur, tail, used_bytes_swap_in,
                 used_bytes_swap_out, arrays, rec, schedules, reached>>

-----------------------------------------------------------------------------
(* schedule_wait_for_swap_out_impl: consume order[tail++] into the wait    *)
(* schedule `slot`.  The code does not check tail < order.size(): the      *)
(* model has no step there, so such a state shows as a deadlock.           *)

\* mutant: used_bytes_swap_out not decreased
ReleaseBytesKept(t) == used_bytes_swap_out
ReleaseBytes(t) == Wrap(used_bytes_swap_out - rec[t].swapped_out_bytes)
\* mutant: swapped_out[id] not reset
ResetSwappedOutKept(t) == swapped_out
ResetSwappedOut(t) == [swapped_out EXCEPT ![R(t).id] = FALSE]

WaitImpl(slot) ==
  /\ tail < L
  /\ tail' = tail + 1
  /\ \/ /\ rec[tail].swapped_out
        /\ wait_schedule' = [wait_schedule EXCEPT ![slot] = Append(@, tail)]
        /\ rec' = [rec EXCEPT ![tail].swapped_out = FALSE,
                              ![tail].swapped_out_bytes = 0]
        /\ used_bytes_swap_out' = ReleaseBytes(tail)
        /\ swapped_out' = ResetSwappedOut(tail)
     \/ /\ ~rec[tail].swapped_out
        /\ UNCHANGED <<wait_schedule, rec, used_bytes_swap_out, swapped_out>>

\* `used_bytes_swap_out > max_bytes_swap_out`
SwapOutOverLimit == used_bytes_swap_out > MaxBytesSwapOut

\* schedule_wait_for_swap_out: one iteration of its while loop
WaitStep ==
  /\ pc = "wait" /\ SwapOutOverLimit
  /\ WaitImpl(fid)
  /\ UNCHANGED <<input, pc, fid, head, cur, used_bytes_swap_in,
                 synced_array_counts, host_uses, swapped_out_r,
                 swap_in_schedule, swap_out_schedule, reached>>

\* End of the body of `for (fid ...)`: on to the next function, whose
\* schedule_swap_in starts with an empty host_uses_this_synced_array.
NextFunction ==
  /\ pc = "wait" /\ ~SwapOutOverLimit
  /\ fid + 1 < LastFunction
  /\ fid' = fid + 1
  /\ pc' = "swap_in"
  /\ host_uses' = [id \in Ids |-> FALSE]
  /\ UNCHANGED <<input, head, cur, tail, used_bytes_swap_in,
                 used_bytes_swap_out, synced_array_counts, swapped_out,
                 swapped_out_r, rec, schedules, reached>>

\* After the loop: wait_schedule[last_function - 1] is replaced by the
\* schedule that schedule_wait_for_all_swap_out builds from scratch.
StartWaitAll ==
  /\ pc = "wait" /\ ~SwapOutOverLimit
  /\ fid + 1 = LastFunction
  /\ pc' = "wait_all"
  /\ wait_schedule' = [wait_schedule EXCEPT ![LastFunction - 1] = <<>>]
  /\ UNCHANGED <<input, fid, head, cur, tail, used_bytes_swap_in,
                 used_bytes_swap_out, arrays, rec, swap_in_schedule,
                 swap_out_schedule, reached>>

\* schedule_wait_for_all_swap_out: `while (tail < order.size())`
WaitAllStep ==
  /\ pc = "wait_all"
  /\ WaitImpl(LastFunction - 1)
  /\ UNCHANGED <<input, pc, fid, head, cur, used_bytes_swap_in,
                 synced_array_counts, host_uses, swapped_out_r,
                 swap_in_schedule, swap_out_schedule, reached>>

WaitAllEnd ==
  /\ pc = "wait_all" /\ tail = L
  /\ pc' = "done"
  /\ UNCHANGED <<input, fid, head, cur, tail, used_bytes_swap_in,
                 used_bytes_swap_out, arrays, rec, schedules, reached>>

-----------------------------------------------------------------------------
(* The state finalize() hands to schedule(): init() has reset tail, the    *)
(* swap-out bytes and swapped_out, and wait_for_all_swap_out has cleared   *)
(* every record's flags.  The trace is any iteration-0 trace, split into   *)
(* functions by the ends swap_out_step pushed after the initial 0.         *)

BlockEnds(n, len) ==
  {f \in [0 .. n -> 0 .. len] :
     /\ f[0] = 0 /\ f[n] = len
     /\ \A k \in 1 .. n : f[k - 1] <= f[k]}

Init ==
  /\ order \in UNION {[1 .. n -> Records] : n \in 1 .. MaxLen}
  /\ func_block_ends \in UNION {BlockEnds(n, Len(order)) : n \in 1 .. MaxFuncs}
  /\ max_bytes_swap_in \in Budgets
  /\ pc = "preclear"
  /\ fid = 0 /\ head = 0 /\ cur = 0 /\ tail = 0
  /\ used_bytes_swap_in = 0 /\ used_bytes_swap_out = 0
  /\ synced_array_counts = [id \in Ids |-> << >>]
  /\ host_uses = [id \in Ids |-> FALSE]
  /\ swapped_out = [id \in Ids |-> FALSE]
  /\ swapped_out_r = [id \in Ids |-> NoRec]
  /\ rec = [i \in 0 .. Len(order) - 1 |-> NoFlags]
  /\ LET Fs == 0 .. Max(DOMAIN func_block_ends) - 1 IN
     /\ swap_in_schedule = [f \in Fs |-> << >>]
     /\ swap_out_schedule = [f \in Fs |-> << >>]
     /\ wait_schedule = [f \in Fs |-> << >>]
     /\ reached = [f \in Fs |-> 0]

\* schedule() has returned or raised.
Terminated == pc \in Final /\ UNCHANGED vars

Next ==
  \/ SchedulePreclear
  \/ SwapInSkipClear \/ SwapInFetch \/ SwapInStop \/ SwapInHost
  \/ SwapInTypeError \/ OomCheck
  \/ SwapOutSkip \/ SwapOutUse \/ SwapOutEnd
  \/ WaitStep \/ NextFunction \/ StartWaitAll \/ WaitAllStep \/ WaitAllEnd
  \/ Terminated

\* schedule() is a plain sequential call: it runs until it returns.
Spec == Init /\ [][Next]_vars /\ WF_vars(Next)

-----------------------------------------------------------------------------
(* Properties                                                              *)

TypeOK ==
  /\ order \in Seq(Records) /\ L \in 1 .. MaxLen
  /\ pc \in Phases
  /\ fid \in 0 .. LastFunction - 1
  /\ {head, cur, tail} \subseteq 0 .. L
  /\ {used_bytes_swap_in, used_bytes_swap_out} \subseteq 0 .. 2 ^ ByteWidth - 1
  /\ \A id \in Ids :
       /\ DOMAIN synced_array_counts[id] \subseteq DTypes
       /\ \A dt \in DOMAIN synced_array_counts[id] : synced_array_counts[id][dt] \in Nat
  /\ host_uses \in [Ids -> BOOLEAN] /\ swapped_out \in [Ids -> BOOLEAN]
  /\ swapped_out_r \in [Ids -> Pos \cup {NoRec}]
  /\ rec \in [Pos -> Flags]
  /\ \A f \in 0 .. LastFunction - 1 :
       {swap_in_schedule[f], swap_out_schedule[f], wait_schedule[f]} \subseteq Seq(Pos)

\* Positions of device get/casts of (id, dt) in [from, to).
DeviceUsesIn(id, dt, from, to) ==
  {i \in from .. to - 1 : DeviceUse(i) /\ R(i).id = id /\ R(i).dtype = dt}

\* The position up to which schedule_swap_out has consumed the queue.
ConsumedUpTo ==
  CASE pc \in {"swap_in", "oom_check"}      -> BlockStart(fid)
    [] pc = "swap_out"                      -> cur
    [] pc \in {"wait", "wait_all", "done"}  -> func_block_ends[fid]

(* The counts-in-queue of §3: while schedule() runs, synced_array_counts  *)
(* holds, for each array and dtype, exactly the number of its device uses *)
(* between the position schedule_swap_out has reached and head.  This is  *)
(* what lets schedule_swap_out decide "last use in the queue" from a      *)
(* count of 1, across the interleaving of the head and the swap-out loop. *)
WindowCounts ==
  pc \in {"swap_in", "oom_check", "swap_out", "wait", "wait_all", "done"} =>
    \A id \in Ids, dt \in DTypes :
      Count(id, dt) = Cardinality(DeviceUsesIn(id, dt, ConsumedUpTo, head))

(* The arrays the planner keeps in its look-ahead queue fit the prefetch  *)
(* share B - B/2 of the budget (§4.3 rationale): the bytes of the (array, *)
(* dtype) pairs with a positive count never exceed it.                    *)
QueuedBytes ==
  MapThenSumSet(LAMBDA p : Bytes(p[1], p[2]),
                {p \in Ids \X DTypes : Count(p[1], p[2]) > 0})
QueueWithinPrefetchShare ==
  QueuedBytes <= max_bytes_swap_in - max_bytes_swap_in \div 2

(* used_bytes_swap_in is the number of bytes of the (array, dtype) pairs  *)
(* in the look-ahead queue: schedule_swap_in adds the bytes of a pair     *)
(* when its count leaves 0, and schedule_swap_out takes away the bytes of *)
(* every dtype key of the array at its last use.                          *)
ResidentBytes ==
  pc \notin {"preclear", "error_type", "error_memory"} =>
    used_bytes_swap_in = QueuedBytes

(* Budget safety (§3, §8.1): prefetch plus in-flight swap-out bytes never *)
(* exceed the budget, and every prefetch pass starts with the swap-out    *)
(* bytes back under max_bytes_swap_out.                                   *)
BudgetSafety ==
  /\ used_bytes_swap_in + used_bytes_swap_out <= max_bytes_swap_in
  /\ pc = "swap_in" => used_bytes_swap_out <= MaxBytesSwapOut

(* The swap-out queue: used_bytes_swap_out is the sum of the bytes of the *)
(* records scheduled for swap-out that the tail has not consumed, and the *)
(* tail never passes one of them.  Otherwise the wait loop would run      *)
(* order[tail++] past the end of order, or leave bytes no wait releases.  *)
InFlightSwapOut ==
  /\ \A i \in Pos : rec[i].swapped_out => i >= tail
  /\ used_bytes_swap_out = MapThenSumSet(LAMBDA i : rec[i].swapped_out_bytes,
                                         {i \in Pos : rec[i].swapped_out})

(* Preclear correctness (§8.3): schedule_preclear marks a get/cast exactly *)
(* when the next record of the same array is a CLEAR.                      *)
NextIsClear(i) ==
  \E j \in i + 1 .. L - 1 :
    /\ R(j).id = R(i).id /\ R(j).tag = CLEAR
    /\ \A k \in i + 1 .. j - 1 : R(k).id # R(i).id
PreclearMatchesTrace ==
  pc # "preclear" =>
    \A i \in Pos : R(i).tag = GETCAST => (rec[i].preclear <=> NextIsClear(i))

(* The cancellation of §4.3/§8.4 only hits a swap-out still in flight: a  *)
(* record that a later prefetch marks no_need_swap_out was scheduled as a *)
(* real swap-out and its wait has not been consumed.                      *)
CancelOnlyInFlight ==
  [][\A i \in Pos :
       rec'[i].no_need_swap_out /\ ~rec[i].no_need_swap_out =>
         rec[i].swapped_out /\ i >= tail]_vars

\* The real swap-outs of an array scheduled and neither waited for nor
\* cancelled.
PendingSwapOut(id) ==
  {i \in Pos : rec[i].swapped_out /\ ~rec[i].no_need_swap_out /\ R(i).id = id}

(* Cancellation on re-fetch (§4.3 step 1, scenario S4): when the prefetch *)
(* queue schedules an array again while a real swap-out of it is pending  *)
(* (scheduled, neither waited for nor cancelled), the same step cancels   *)
(* that swap-out, so the executor does not copy the array out and back.   *)
CancelOnRefetch ==
  [][\A f \in DOMAIN swap_in_schedule :
       Len(swap_in_schedule'[f]) > Len(swap_in_schedule[f]) =>
         \A i \in PendingSwapOut(R(head).id) : rec'[i].no_need_swap_out]_vars

\* The records in some schedule of S.
Scheduled(S) == UNION {Range(S[f]) : f \in DOMAIN S}

(* Wait coverage (§4.3 step 3, §4.4): every real swap-out the planner     *)
(* schedules is in a wait schedule, so the executor issues the get(host)  *)
(* that waits for the copy and releases the device memory.  The           *)
(* wait-for-all pass that overwrites wait_schedule[last_function - 1]     *)
(* starts at tail, after the waits that slot already held.                *)
WaitCoverage ==
  pc = "done" =>
    \A i \in Scheduled(swap_out_schedule) :
      ~rec[i].preclear => i \in Scheduled(wait_schedule)

(* schedule() always returns or raises: every loop makes progress.        *)
Termination == <>(pc \in Final)

====
