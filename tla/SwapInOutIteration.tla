------------------------- MODULE SwapInOutIteration -------------------------
(***************************************************************************)
(* Iteration 1 of SwapInOutScheduler, composed with the planner that ends  *)
(* iteration 0: the planner runs to "done" (SwapInOutPlanner's actions on  *)
(* the shared variables), then start_scheduling, one pre_callback before  *)
(* each function, the tracer on every get/cast/clear the functions make,  *)
(* and end_scheduling.  The executor's copies go to the tensor store,     *)
(* which is left out here: of pre_callback the model keeps what changes    *)
(* the scheduler's own state (func_idx, order_idx, precleared).            *)
(*                                                                         *)
(* The live iteration is chosen at start_scheduling as the recorded trace  *)
(* with the handle of one array replaced, with one extra get/cast, or with *)
(* one event dropped.  An id's model value is also its handle in iteration *)
(* 0; Fresh holds handles of arrays created later.  The records of an id   *)
(* always share one handle (both writers, the tracer and use_dali, rewrite *)
(* all of synced_array_id_to_order_idx[id]), so sawptr is kept per id.     *)
(***************************************************************************)
EXTENDS SwapInOutPlanner, SequencesExt

CONSTANTS Fresh

Handles == Ids \cup Fresh
Events == [tag : {GETCAST, CLEAR}, h : Handles, dtype : DTypes, ctx : Classes]
\* The extra events a later iteration may make (a get/cast not in the trace).
ExtraEvents == [tag : {GETCAST}, h : Handles, dtype : DTypes, ctx : Classes]
Identity == [id \in Ids |-> id]
\* The handle of each id in the live iteration: all kept, or one replaced.
Substs == {Identity} \cup
          {[id \in Ids |-> IF id = y THEN x ELSE id] : y \in Ids, x \in Fresh}

VARIABLES
  ipc,            \* "idle" while planning, "run", then "done" or an error
  live,           \* the events each function makes: [1..N -> Seq(Events)]
  variant,        \* history: "same", "extra" or "drop"
  subst,          \* history: the handle of each id in this iteration
  ev,             \* the number of events function func_idx has made
  func_idx, order_idx,
  sawptr,         \* the handle the records of each id point to
  wrong_ordered,
  precleared,     \* the handles precleared[] maps to true
  oob_read        \* history: order[order_idx] read with order_idx >= size

ivars == <<ipc, live, variant, subst, ev, func_idx, order_idx, sawptr,
           wrong_ordered, precleared, oob_read>>
allVars == <<vars, ivars>>

\* The event record i stands for, under the handles s.
RecEvent(i, s) ==
  [tag |-> R(i).tag, h |-> s[R(i).id], dtype |-> R(i).dtype, ctx |-> R(i).ctx]
\* What the graph does again in a later iteration: function k (1-based)
\* makes the events of the records [func_block_ends[k-1], func_block_ends[k]).
Repeat(s) ==
  [k \in 1 .. LastFunction |->
     [j \in 1 .. func_block_ends[k] - func_block_ends[k - 1] |->
        RecEvent(func_block_ends[k - 1] + j - 1, s)]]

\* The arrays of replaced handles were destroyed: lock() returns null.
Alive(h) == h \in Fresh \/ (h \in Ids /\ subst[h] = h)

-----------------------------------------------------------------------------
(* start_scheduling: init() and set_synced_array_callback.                *)

StartScheduling ==
  /\ pc = "done" /\ ipc = "idle"
  /\ \E s \in Substs :
       /\ subst' = s
       /\ \/ variant' = "same" /\ live' = Repeat(s)
          \/ /\ s = Identity /\ variant' = "extra"
             /\ \E k \in 1 .. LastFunction, e \in ExtraEvents :
                  \E p \in 1 .. Len(Repeat(s)[k]) + 1 :
                    live' = [Repeat(s) EXCEPT ![k] = InsertAt(@, p, e)]
          \/ /\ s = Identity /\ variant' = "drop"
             /\ \E k \in 1 .. LastFunction :
                  \E p \in 1 .. Len(Repeat(s)[k]) :
                    live' = [Repeat(s) EXCEPT ![k] = RemoveAt(@, p)]
  /\ ipc' = "run"
  /\ func_idx' = 0 /\ order_idx' = 0 /\ ev' = 0
  /\ wrong_ordered' = << >> /\ precleared' = {}
  /\ tail' = 0 /\ used_bytes_swap_out' = 0
  /\ swapped_out' = [id \in Ids |-> FALSE]
  /\ UNCHANGED <<input, pc, fid, head, cur, used_bytes_swap_in,
                 synced_array_counts, host_uses, swapped_out_r, rec,
                 schedules, reached, sawptr, oob_read>>

-----------------------------------------------------------------------------
(* pre_callback: swap_out_step for the previous function, then            *)
(* swap_in_step.                                                           *)

\* swap_out_scheduled: the live handles of the precleared records of
\* swap_out_schedule[f] are cleared and put in `precleared`.
PreclearedBy(f) ==
  {sawptr[R(i).id] :
     i \in {j \in Range(swap_out_schedule[f]) :
              rec[j].preclear /\ Alive(sawptr[R(j).id])}}

\* mutant: order_idx not moved to the recorded end of the function
ResyncNone(idx, f) == idx
\* mutant: order_idx moved one past the recorded end of the function
ResyncPastEnd(idx, f) == IF idx < func_block_ends[f] THEN func_block_ends[f] + 1 ELSE idx
\* `if (order_idx < func_block_ends[func_idx]) order_idx = ...`
Resync(idx, f) == IF idx < func_block_ends[f] THEN func_block_ends[f] ELSE idx

\* swap_out_step for function func_idx
PostStep ==
  /\ precleared' = precleared \cup PreclearedBy(func_idx - 1)
  /\ order_idx' = Resync(order_idx, func_idx)

PreCallback ==
  /\ ipc = "run" /\ func_idx < LastFunction
  /\ \/ func_idx = 0 /\ UNCHANGED <<precleared, order_idx>>
     \/ func_idx > 0 /\ ev = Len(live[func_idx]) /\ PostStep
  /\ func_idx' = func_idx + 1
  /\ ev' = 0
  /\ UNCHANGED <<vars, ipc, live, variant, subst, sawptr, wrong_ordered,
                 oob_read>>

-----------------------------------------------------------------------------
(* synced_array_callback_tracer on the next event of function func_idx.   *)
(* No event is made before the first pre_callback, so the `func_idx == 0` *)
(* return is not taken.                                                    *)

\* `saptr != rec_saptr` is false: the record's handle is alive and is h.
RecHandleIs(i, h) == Alive(sawptr[R(i).id]) /\ sawptr[R(i).id] = h
\* Same tag, dtype and array class as order[i].
SameKind(e, i) == e.tag = R(i).tag /\ e.dtype = R(i).dtype /\ e.ctx = R(i).ctx
InBlock == order_idx < func_block_ends[func_idx]

\* mutant: the records of the id not rewritten
RebindNothing(id, h) == sawptr
\* `for (i : synced_array_id_to_order_idx[id]) order[i].sawptr = saptr`
Rebind(id, h) == [sawptr EXCEPT ![id] = h]

TraceEvent ==
  LET e == live[func_idx][ev + 1] IN
  /\ ipc = "run" /\ func_idx > 0 /\ ev < Len(live[func_idx])
  /\ ev' = ev + 1
  /\ \/ /\ e.h \in precleared /\ e.tag = GETCAST
        /\ ipc' = "error_async"
        /\ UNCHANGED <<order_idx, sawptr, wrong_ordered, precleared, oob_read>>
     \/ /\ e.h \notin precleared \/ e.tag = CLEAR
        /\ precleared' = precleared \ {e.h}
        /\ oob_read' = (oob_read \/ order_idx >= L)
        /\ \/ /\ InBlock /\ SameKind(e, order_idx) /\ ~RecHandleIs(order_idx, e.h)
              /\ sawptr' = Rebind(R(order_idx).id, e.h)
              /\ UNCHANGED wrong_ordered
           \/ /\ ~InBlock \/ (InBlock /\ ~SameKind(e, order_idx))
              /\ wrong_ordered' = Append(wrong_ordered, e)
              /\ UNCHANGED sawptr
           \/ /\ InBlock /\ SameKind(e, order_idx) /\ RecHandleIs(order_idx, e.h)
              /\ UNCHANGED <<sawptr, wrong_ordered>>
        /\ order_idx' = order_idx + 1
        /\ UNCHANGED ipc
  /\ UNCHANGED <<vars, live, variant, subst, func_idx>>

-----------------------------------------------------------------------------
(* end_scheduling: finalize() of a later iteration: swap_out_step for the  *)
(* last function, swap_out_wrong_order, which raises on a get/cast of an   *)
(* unsupported array class, and wait_for_all_swap_out, which moves tail to *)
(* the end (no record is swapped_out after planning).                      *)

WrongOrderTypeError ==
  \E w \in Range(wrong_ordered) : w.tag = GETCAST /\ w.ctx \notin {Device, Host}

EndScheduling ==
  /\ ipc = "run" /\ func_idx = LastFunction /\ ev = Len(live[func_idx])
  /\ PostStep
  /\ \/ WrongOrderTypeError /\ ipc' = "error_type" /\ UNCHANGED tail
     \/ ~WrongOrderTypeError /\ ipc' = "done" /\ tail' = L
  /\ UNCHANGED <<input, pc, fid, head, cur, used_bytes_swap_in,
                 used_bytes_swap_out, arrays, rec, schedules, reached, live,
                 variant, subst, ev, func_idx, sawptr, wrong_ordered, oob_read>>

-----------------------------------------------------------------------------

IterInit ==
  /\ Init
  /\ ipc = "idle" /\ live = << >> /\ variant = "same" /\ subst = Identity
  /\ ev = 0 /\ func_idx = 0 /\ order_idx = 0 /\ sawptr = Identity
  /\ wrong_ordered = << >> /\ precleared = {} /\ oob_read = FALSE

\* The planner's steps, until schedule() returns or raises.
Plan == pc \notin Final /\ Next /\ UNCHANGED ivars

\* Planning raised, or the iteration has ended.
Stopped ==
  /\ pc \in {"error_memory", "error_type"} \/ ipc \in {"done", "error_async", "error_type"}
  /\ UNCHANGED allVars

IterNext ==
  Plan \/ StartScheduling \/ PreCallback \/ TraceEvent \/ EndScheduling \/ Stopped

\* Every step is a call the graph makes or a synchronous scheduler call.
IterSpec == IterInit /\ [][IterNext]_allVars /\ WF_allVars(IterNext)

-----------------------------------------------------------------------------
(* Properties                                                              *)

(* The cursor of the tracer stays within one past the end of order for    *)
(* each event the iteration adds.                                          *)
IterationTypeOK ==
  /\ ipc \in {"idle", "run", "done", "error_async", "error_type"}
  /\ variant \in {"same", "extra", "drop"} /\ subst \in Substs
  /\ func_idx \in 0 .. LastFunction
  /\ order_idx \in 0 .. L + (IF variant = "extra" THEN 1 ELSE 0)
  /\ sawptr \in [Ids -> Handles]
  /\ wrong_ordered \in Seq(Events)
  /\ precleared \subseteq Handles
  /\ oob_read \in BOOLEAN

(* Identity repair (§8.7, S5): when the iteration repeats the trace with  *)
(* the handle of an array replaced, the tracer rebinds every record of    *)
(* that array to the new handle and queues no event as wrong-ordered.     *)
IdentityRepair ==
  ipc = "done" /\ variant = "same" =>
    /\ wrong_ordered = << >>
    /\ \A i \in Pos : sawptr[R(i).id] = subst[R(i).id]

(* swap_out_step (lines 503-511): when a function made fewer events than  *)
(* recorded, order_idx is moved to the function's recorded end, so unless *)
(* an event was added every function starts with the tracer's cursor at   *)
(* its first record.                                                       *)
CursorAtFunctionStart ==
  ipc = "run" /\ func_idx > 0 /\ ev = 0 /\ variant # "extra" =>
    order_idx = func_block_ends[func_idx - 1]

(* The tracer reads order[order_idx] only for order_idx < order.size().   *)
NoReadPastOrder == ~oob_read

(* A repeated graph raises no target_specific_async error (§7: the error  *)
(* "indicates a non-repeatable graph").                                    *)
NoAsyncErrorOnRepeat == variant = "same" => ipc # "error_async"

====
