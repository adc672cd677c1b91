------------------------- MODULE SwapInOutRecorder -------------------------
(***************************************************************************)
(* The recording side of SwapInOutScheduler across iterations: the        *)
(* identity map and the recorder (C2, C3), and the lifecycle (C8) that     *)
(* switches between recording and tracing: start_scheduling, the          *)
(* bookkeeping of pre_callback, end_scheduling/finalize and reset, and    *)
(* the swap-outs of the recording iteration (swap_out_first_iter and its  *)
(* waits), whose flags and byte counter schedule() reads next.  The copies *)
(* themselves act on the tensor store: of the store the model keeps only  *)
(* which arrays hold no data (get_num_arrays() == 0, after a clear).  The *)
(* copies of later iterations (swap_in, swap_out_scheduled and its waits) *)
(* change no variable of the scheduler and are left out.                   *)
(* schedule() is modelled in SwapInOutPlanner and here only takes         *)
(* its input (`planned`).  The tracer's events, modelled in               *)
(* SwapInOutIteration, are left out here.  They advance order_idx and     *)
(* rewrite order[].sawptr of every record of an id (lines 738-740).  A    *)
(* record here keeps the handle it was recorded with, so what             *)
(* RecordedTrace says of later iterations assumes no rebinding.  The      *)
(* rebinding is checked in SwapInOutIteration (IdentityRepair).           *)
(*                                                                         *)
(* `unsigned int` ids are IdWidth bits wide, so that the id-space check   *)
(* at line 684 is reached with a handful of arrays.  One dtype: the bytes *)
(* of an array, size() * sizeof_dtype(dtype()), are ArraySize[h].  The    *)
(* byte counter is an unbounded integer: no run reaches the size_t range, *)
(* and FirstIterInFlight would catch a decrement past zero.                *)
(***************************************************************************)
EXTENDS Naturals, Sequences, FiniteSets, TLC, Functions, FiniteSetsExt, SequencesExt

CONSTANTS
  Handles,        \* SyncedArray handles the graph uses
  GETCAST, CLEAR, \* RecTag
  IdWidth,        \* bits of an id
  MaxLen,         \* bound on the records of one recording
  MaxFuncs,       \* bound on the functions of one iteration
  MaxIters,       \* bound on iter_count
  MaxResets,      \* bound on the calls of reset()
  NoPlan,
  Classes,        \* array classes of the contexts the graph uses
  Device, Host,   \* device_ctx.array_class, host_ctx.array_class
  ArraySize,      \* the bytes of each array
  Budget          \* the constructor's `bytes`

\* SyncedArrayCallbackTag values the graph reports
CallbackTags == {"get", "cast", "clear"}
UIntMax == 2 ^ IdWidth - 1
IdSpace == 0 .. UIntMax
EmptyMap == [h \in {} |-> 0]
\* `max_bytes_swap_out(bytes / 2)`
MaxBytesSwapOut == Budget \div 2

VARIABLES
  first_iter, iter_count,
  phase,            \* "idle" between iterations, "iter" inside one, an error
                    \* raised in it, or "aborted" once end_scheduling has run
                    \* after an error or raised itself
  cb,               \* synced_array_callback: "recorder" or "tracer"
  slot,             \* the SyncedArrayCallback registry: "set" or "none"
  func_idx, order_idx,
  order,            \* Seq of [tag, id, h]
  synced_array_id_mapper,
  synced_array_id_to_order_idx,
  func_block_ends,  \* Seq: func_block_ends[f] is element f + 1
  planned,          \* <<order, func_block_ends>> given to schedule()
  resets,           \* calls of reset() so far
  tail, used_bytes_swap_out,
  cleared,         \* the store: arrays whose data a clear removed
  raised_ends       \* history: ends pushed by swap_out_steps that raised

vars == <<first_iter, iter_count, phase, cb, slot, func_idx, order_idx, order,
          synced_array_id_mapper, synced_array_id_to_order_idx,
          func_block_ends, planned, resets, tail, used_bytes_swap_out, cleared,
          raised_ends>>

\* The errors raised inside an iteration, before end_scheduling.
Raised == {"error_exhausted", "error_type"}

-----------------------------------------------------------------------------

\* get_tag: GET and CAST are recorded as GETCAST.
GetTag(name) == IF name = "clear" THEN CLEAR ELSE GETCAST

\* init(): the part that resets the recording state and the swap-out
\* counter.
InitState ==
  /\ order_idx' = 0 /\ func_idx' = 0
  /\ synced_array_id_mapper' = EmptyMap
  /\ tail' = 0 /\ used_bytes_swap_out' = 0

\* The constructor: the recorder is the callback, nothing recorded.
Init ==
  /\ first_iter = TRUE /\ iter_count = 0 /\ phase = "idle" /\ cb = "recorder"
  /\ func_idx = 0 /\ order_idx = 0 /\ order = << >>
  /\ synced_array_id_mapper = EmptyMap
  /\ synced_array_id_to_order_idx = [id \in IdSpace |-> << >>]
  /\ func_block_ends = <<0>> /\ planned = NoPlan /\ resets = 0
  /\ tail = 0 /\ used_bytes_swap_out = 0 /\ cleared = {}
  /\ slot = "none" /\ raised_ends = 0

StartScheduling ==
  /\ phase = "idle" /\ iter_count < MaxIters
  /\ InitState
  /\ phase' = "iter"
  /\ slot' = "set"
  /\ UNCHANGED <<first_iter, iter_count, cb, order, synced_array_id_to_order_idx,
                 func_block_ends, planned, resets, cleared, raised_ends>>

\* func_block_ends[f] of a 0-based f
BlockEnd(ends, f) == ends[f + 1]

(* The swap-outs of the recording iteration work on a record             *)
(* [o, tail, used, err] of order, tail and used_bytes_swap_out; err is   *)
(* the type error.  Positions are 0-based: o[i + 1] is order[i].          *)
Exec(o) == [o |-> o, tail |-> tail, used |-> used_bytes_swap_out, err |-> FALSE]

\* swap_out_first_iter over the records [i, hi): each device get/cast of an
\* array that still holds data is cast to host asynchronously and counted.
RECURSIVE SwapOutFirstIter(_, _, _)
SwapOutFirstIter(s, i, hi) ==
  IF i >= hi THEN s
  ELSE LET r == s.o[i + 1] IN
       IF r.tag = CLEAR \/ (r.ctx = Device /\ r.h \in cleared) \/ r.ctx = Host
       THEN SwapOutFirstIter(s, i + 1, hi)
       ELSE IF r.ctx = Device
       THEN SwapOutFirstIter(
              [s EXCEPT !.o[i + 1] = [r EXCEPT !.swapped_out = TRUE,
                                               !.swapped_out_bytes = ArraySize[r.h]],
                        !.used = @ + ArraySize[r.h]], i + 1, hi)
       ELSE [s EXCEPT !.err = TRUE]

\* wait_for_swap_out_first_iter_impl: wait for order[tail++] and release
\* its bytes.
WaitStep(s) ==
  LET r == s.o[s.tail + 1] IN
  IF r.tag # CLEAR /\ r.swapped_out
  THEN [s EXCEPT !.o[s.tail + 1] = [r EXCEPT !.swapped_out = FALSE, !.swapped_out_bytes = 0],
                 !.used = @ - r.swapped_out_bytes, !.tail = @ + 1]
  ELSE [s EXCEPT !.tail = @ + 1]

\* mutant: `if` in place of `while`
WaitOnce(s) == IF s.used > MaxBytesSwapOut /\ s.tail < Len(s.o) THEN WaitStep(s) ELSE s
\* wait_for_swap_out_first_iter: `while (used_bytes_swap_out > max_bytes_swap_out)`.
\* The code would read past the end of order if the counter stayed above
\* the limit with every record waited for; the model stops there.
RECURSIVE WaitFirstIter(_)
WaitFirstIter(s) == IF s.used > MaxBytesSwapOut /\ s.tail < Len(s.o) THEN WaitFirstIter(WaitStep(s)) ELSE s

\* mutant: the last record is not waited for
RECURSIVE WaitAllButLast(_)
WaitAllButLast(s) == IF s.tail < Len(s.o) - 1 THEN WaitAllButLast(WaitStep(s)) ELSE s
\* wait_for_all_swap_out: `while (tail < order.size())`
RECURSIVE WaitAll(_)
WaitAll(s) == IF s.tail < Len(s.o) THEN WaitAll(WaitStep(s)) ELSE s

\* swap_out() of the recording iteration for function f (1-based), whose
\* records are [ends[f], ends[f + 1]).
SwapOutFirst(ends, f) ==
  WaitFirstIter(SwapOutFirstIter(Exec(order), BlockEnd(ends, f - 1), BlockEnd(ends, f)))

\* The executor's results, or the type error.  The casts issued before the
\* raise are not kept: the only step left is end_scheduling, whose
\* swap_out_step runs the same block again and raises at the same record.
Apply(s) ==
  \/ /\ s.err /\ phase' = "error_type" /\ raised_ends' = raised_ends + 1
     /\ UNCHANGED <<order, tail, used_bytes_swap_out>>
  \/ /\ ~s.err /\ order' = s.o /\ tail' = s.tail /\ used_bytes_swap_out' = s.used
     /\ UNCHANGED <<phase, raised_ends>>

\* mutant: the end recorded in every iteration
PushedEndsAlways(ends, idx) == Append(ends, idx)
\* `if (first_iter) func_block_ends.push_back(order_idx);`
PushedEnds(ends, idx) == IF first_iter THEN Append(ends, idx) ELSE ends

\* swap_out_step: record the end of the function (first iteration), swap
\* out its records (first iteration), then move order_idx to the recorded
\* end of the function.  Past the end of func_block_ends the read is
\* undefined: any value may be read.
Resync(ends) ==
  \/ /\ func_idx < Len(ends)
     /\ order_idx' = IF order_idx < BlockEnd(ends, func_idx)
                     THEN BlockEnd(ends, func_idx) ELSE order_idx
  \/ /\ func_idx >= Len(ends)
     /\ \E v \in 0 .. MaxLen :
          order_idx' = IF order_idx < v THEN v ELSE order_idx

SwapOutStep ==
  LET ends == PushedEnds(func_block_ends, order_idx) IN
  /\ func_block_ends' = ends
  /\ \/ first_iter /\ Apply(SwapOutFirst(ends, func_idx))
     \/ ~first_iter /\ UNCHANGED <<order, tail, used_bytes_swap_out, raised_ends>>
  /\ Resync(ends)

\* pre_callback: unset the callback, swap_out_step for the previous
\* function, swap_in_step, set the callback again.
PreCallback ==
  /\ phase = "iter" /\ func_idx < MaxFuncs
  /\ \/ func_idx = 0
        /\ UNCHANGED <<func_block_ends, order_idx, order, tail, used_bytes_swap_out,
                       phase, raised_ends>>
     \/ func_idx > 0 /\ SwapOutStep /\ (~first_iter => UNCHANGED phase)
  \* swap_in_step and set_synced_array_callback, unless swap_out_step raised
  /\ func_idx' = IF phase' = "iter" THEN func_idx + 1 ELSE func_idx
  /\ slot' = IF phase' = "iter" THEN "set" ELSE "none"
  /\ UNCHANGED <<first_iter, iter_count, cb, synced_array_id_mapper,
                 synced_array_id_to_order_idx, planned, resets, cleared>>

\* mutant: the recorder also records before the first function
BeforeForwardNever == FALSE
\* `if (func_idx == 0) return;`
BeforeForward == func_idx = 0

\* mutant: no check of the id space
IdSpaceExhaustedNever == FALSE
\* `synced_array_id_mapper.size() > std::numeric_limits<unsigned int>::max()`
IdSpaceExhausted == Cardinality(DOMAIN synced_array_id_mapper) > UIntMax

\* The mapper after the lookup of h: a new handle gets the next id, cast to
\* `unsigned int`.
MapperWith(h) ==
  IF h \in DOMAIN synced_array_id_mapper THEN synced_array_id_mapper
  ELSE synced_array_id_mapper @@
         (h :> Cardinality(DOMAIN synced_array_id_mapper) % (UIntMax + 1))

\* The store after the access: a clear removes the array's data, a get or
\* cast gives it some.
ClearedAfter(name, h) == IF name = "clear" THEN cleared \cup {h} ELSE cleared \ {h}

\* synced_array_callback_recorder, called by the store on a get/cast/clear
\* of h in a context of class c.
Record(name, h, c) ==
  /\ slot = "set" /\ cb = "recorder"
  /\ UNCHANGED <<slot, raised_ends>>
  /\ cleared' = ClearedAfter(name, h)
  /\ \/ BeforeForward /\ UNCHANGED <<first_iter, iter_count, phase, cb, func_idx, order_idx,
                                   order, synced_array_id_mapper, synced_array_id_to_order_idx,
                                   func_block_ends, planned, resets, tail, used_bytes_swap_out>>
     \/ /\ ~BeforeForward /\ Len(order) < MaxLen
        /\ \/ /\ IdSpaceExhausted
              /\ phase' = "error_exhausted"
              /\ UNCHANGED <<first_iter, iter_count, cb, func_idx, order_idx,
                             order, synced_array_id_mapper,
                             synced_array_id_to_order_idx, func_block_ends,
                             planned, resets, tail, used_bytes_swap_out>>
           \/ /\ ~IdSpaceExhausted
              /\ LET m == MapperWith(h) IN
                 /\ synced_array_id_mapper' = m
                 /\ order' = Append(order, [tag |-> GetTag(name), id |-> m[h], h |-> h, ctx |-> c,
                                            swapped_out |-> FALSE, swapped_out_bytes |-> 0])
                 /\ synced_array_id_to_order_idx' =
                      [synced_array_id_to_order_idx EXCEPT ![m[h]] = Append(@, order_idx)]
              /\ order_idx' = order_idx + 1
              /\ UNCHANGED <<first_iter, iter_count, phase, cb, func_idx,
                             func_block_ends, planned, resets, tail, used_bytes_swap_out>>

\* The phase after a finalize that returns: the iteration ends normally, or
\* it ends the iteration an error had already stopped.
Ended == IF phase = "iter" THEN "idle" ELSE "aborted"

\* mutant: finalize() before unset_synced_array_callback(), so that a raise
\* in finalize skips the unset
SlotIfFinalizeRaisesKept == slot
\* end_scheduling unsets the callback before finalize(): also when finalize
\* raises, the registry is left empty.
SlotIfFinalizeRaises == "none"

\* finalize of the recording iteration: the last swap_out_step (its resync
\* is a no-op: the end just pushed is order_idx), wait_for_all_swap_out,
\* init() and schedule(), whose input is kept in `planned`.
\* swap_out_wrong_order has nothing to do: wrong_ordered is empty.  After a
\* type error in pre_callback, func_idx still names the function whose
\* swap-outs raised: the end is pushed again and the same block raises again.
FinalizeFirst ==
  LET ends == IF func_idx > 0 THEN Append(func_block_ends, order_idx) ELSE func_block_ends
      s == IF func_idx > 0 THEN SwapOutFirst(ends, func_idx) ELSE Exec(order)
  IN /\ func_block_ends' = ends
     /\ \/ /\ s.err /\ phase' = "aborted" /\ slot' = SlotIfFinalizeRaises
           /\ raised_ends' = raised_ends + 1
           /\ UNCHANGED <<order, tail, used_bytes_swap_out, order_idx, func_idx,
                          synced_array_id_mapper, planned, cb, first_iter, iter_count>>
        \/ /\ ~s.err /\ order' = WaitAll(s).o
           /\ InitState
           /\ planned' = <<order', ends>>
           /\ cb' = "tracer" /\ first_iter' = FALSE /\ iter_count' = iter_count + 1
           /\ phase' = Ended /\ slot' = "none"
           /\ UNCHANGED raised_ends

\* end_scheduling / finalize of a later iteration: the last swap_out_step
\* (no copy of a later iteration changes the scheduler's state), and the
\* tracer stays the callback.
FinalizeLater ==
  /\ \/ /\ func_idx > 0
        /\ LET ends == PushedEnds(func_block_ends, order_idx) IN
           func_block_ends' = ends /\ Resync(ends)
     \/ func_idx = 0 /\ UNCHANGED <<func_block_ends, order_idx>>
  /\ UNCHANGED <<func_idx, synced_array_id_mapper, planned, order, tail,
                 used_bytes_swap_out, raised_ends>>
  /\ cb' = "tracer" /\ first_iter' = FALSE /\ iter_count' = iter_count + 1
  /\ phase' = Ended /\ slot' = "none"

\* end_scheduling: unset_synced_array_callback, then finalize.  The caller
\* runs it on every exit of the iteration, also when pre_callback or the
\* recorder raised (spec §5: the scheduler is a scoped resource).
EndScheduling ==
  /\ phase \in {"iter"} \cup Raised
  /\ \/ first_iter /\ FinalizeFirst
     \/ ~first_iter /\ FinalizeLater
  /\ UNCHANGED <<synced_array_id_to_order_idx, resets, cleared>>

\* reset(): init(), order.clear(), and the recorder as the callback.
Reset ==
  /\ phase = "idle" /\ resets < MaxResets
  /\ InitState
  /\ order' = << >> /\ cb' = "recorder" /\ resets' = resets + 1
  /\ UNCHANGED <<first_iter, iter_count, phase, slot, synced_array_id_to_order_idx,
                 func_block_ends, planned, cleared, raised_ends>>

\* The last iteration has ended, or an error has ended the training loop
\* (spec §7: errors are terminal, the loop is expected to abort).
Stopped ==
  /\ \/ phase = "idle" /\ iter_count = MaxIters
     \/ phase = "aborted"
  /\ UNCHANGED vars

Next ==
  \/ StartScheduling \/ PreCallback \/ EndScheduling \/ Reset \/ Stopped
  \/ \E name \in CallbackTags, h \in Handles, c \in Classes : Record(name, h, c)

Spec == Init /\ [][Next]_vars

-----------------------------------------------------------------------------
(* Properties                                                              *)

(* Ids stay within the id space, and func_block_ends holds one end per    *)
(* function of the recording iteration and no more (it is pushed only     *)
(* while first_iter).  order_idx may pass the records by the resync to a  *)
(* recorded end, by at most MaxLen.                                        *)
RecorderTypeOK ==
  /\ first_iter \in BOOLEAN /\ iter_count \in 0 .. MaxIters
  /\ phase \in {"idle", "iter", "aborted"} \cup Raised
  /\ cb \in {"recorder", "tracer"} /\ slot \in {"set", "none"}
  /\ func_idx \in 0 .. MaxFuncs /\ order_idx \in 0 .. 2 * MaxLen
  /\ order \in Seq([tag : {GETCAST, CLEAR}, id : IdSpace, h : Handles, ctx : Classes,
                    swapped_out : BOOLEAN, swapped_out_bytes : Nat])
  /\ DOMAIN synced_array_id_mapper \subseteq Handles
  /\ \A h \in DOMAIN synced_array_id_mapper : synced_array_id_mapper[h] \in IdSpace
  /\ synced_array_id_to_order_idx \in [IdSpace -> Seq(Nat)]
  /\ func_block_ends \in Seq(0 .. MaxLen) /\ Len(func_block_ends) <= MaxFuncs + 1
  /\ resets \in 0 .. MaxResets
  /\ tail \in 0 .. MaxLen /\ used_bytes_swap_out \in Nat /\ cleared \subseteq Handles
  /\ raised_ends \in 0 .. 2

(* The identity map (C2, line 690-692): two records of a recording carry  *)
(* the same id exactly when they are accesses of the same array.  The     *)
(* id-space check at line 684 is what keeps the cast of the next id from  *)
(* wrapping onto an id already given out.                                  *)
IdsIdentifyArrays ==
  \A i, j \in DOMAIN order : (order[i].id = order[j].id) <=> (order[i].h = order[j].h)

\* The first record of id in o.
FirstUse(o, id) == CHOOSE i \in DOMAIN o : o[i].id = id /\ \A j \in 1 .. i - 1 : o[j].id # id
\* The trace as schedule() reads it: each record stands for the array its
\* id was first given to.
AbsTrace(o) == [i \in DOMAIN o |-> [tag |-> o[i].tag, h |-> o[FirstUse(o, o[i].id)].h]]

Trace == INSTANCE AccessTrace WITH
  Tags <- {GETCAST, CLEAR},
  trace <- AbsTrace(order),
  ends <- SubSeq(func_block_ends, 1, Len(func_block_ends) - raised_ends),
  recording <- cb = "recorder",
  fn <- IF phase = "idle" THEN 0 ELSE func_idx,
  planned <- IF planned = NoPlan THEN NoPlan ELSE <<AbsTrace(planned[1]), planned[2]>>

(* The recorder, pre_callback, finalize and reset implement AccessTrace:   *)
(* the trace schedule() plans from is the sequence of accesses made since *)
(* the first function of the recording iteration, split at the function   *)
(* boundaries, and a reset starts a recording that is planned from again. *)
RecordedTrace == Trace!ASpec

\* The bytes of the records whose swap-out was issued and not waited for.
InFlightBytes(o) ==
  MapThenSumSet(LAMBDA i : o[i].swapped_out_bytes, {i \in DOMAIN o : o[i].swapped_out})

(* In-flight swap-outs of the recording iteration (lines 550-619): while  *)
(* the graph runs, used_bytes_swap_out is the sum of the bytes of the     *)
(* records whose asynchronous cast to host was issued and not yet waited  *)
(* for, all of them at or after tail and before order_idx, and that sum   *)
(* is within max_bytes_swap_out.  The counter is raised per record, also *)
(* for an array swapped out twice, and lowered by the bytes stored in the *)
(* record, so the device memory held by pending copies is bounded.        *)
FirstIterInFlight ==
  phase = "iter" /\ first_iter =>
    /\ used_bytes_swap_out = InFlightBytes(order)
    /\ \A i \in DOMAIN order : order[i].swapped_out => tail < i /\ i <= order_idx
    /\ used_bytes_swap_out <= MaxBytesSwapOut

(* schedule() starts from clean records (lines 190-196): when finalize    *)
(* plans from the recorded trace, wait_for_all_swap_out has waited for    *)
(* every swap-out of the recording iteration, so no record still carries *)
(* the swapped_out flag or bytes that schedule_swap_out and the wait      *)
(* passes of the planner read as their own (SwapInOutPlanner's Init).      *)
PlannerInputClean ==
  planned # NoPlan =>
    \A i \in DOMAIN planned[1] :
      ~planned[1][i].swapped_out /\ planned[1][i].swapped_out_bytes = 0

(* The callback registry is released on every exit of an iteration (spec  *)
(* §5, §9): once end_scheduling has run, the registry is empty, also when *)
(* pre_callback raised the type error, when the recorder raised on an     *)
(* exhausted id space, and when finalize raised inside the end_scheduling *)
(* that followed either; and while an iteration runs between functions,   *)
(* it holds the scheduler's callback.  pre_callback detaches it around    *)
(* its own steps and does not re-attach it after a raise; end_scheduling  *)
(* detaches it before calling finalize.                                    *)
CallbackReleased ==
  /\ phase \in {"idle", "aborted"} => slot = "none"
  /\ phase = "iter" => slot = "set"
=============================================================================
