--------------------------- MODULE SwapInOutDali ---------------------------
(***************************************************************************)
(* use_dali (C7): the Dali data iterator alternates two buffers, (X0, T0)  *)
(* in even iterations and (X1, T1) in odd ones, and the user calls         *)
(* use_dali with the current buffer before each iteration.  The recorded   *)
(* trace is chosen in Init (the call of iteration 0 does not read it);     *)
(* ids are given by first appearance as the recorder gives them           *)
(* (SwapInOutRecorder), and the per-id index lists each id's positions.   *)
(* The iterations themselves are single steps: their accesses go to the    *)
(* tracer, modelled in SwapInOutIteration.                                 *)
(*                                                                         *)
(* dali_saptr_idxs has no initializer in the code shown: its value before *)
(* the first assignment is any id.                                         *)
(***************************************************************************)
EXTENDS Naturals, Sequences, FiniteSets, Functions

CONSTANTS
  X0, T0, X1, T1,  \* the data and label arrays of the two buffers
  Others,          \* the other arrays of the graph
  MaxLen,          \* bound on the recorded trace
  MaxIters,        \* bound on iter_count
  DataRecorded,    \* both X0 and T0 are accessed inside a function
  None             \* an empty weak pointer

\* The buffer of each parity, as <<data, label>> indexed 0 and 1.
Pair(x, t) == [i \in 0 .. 1 |-> IF i = 0 THEN x ELSE t]
Batch == [b \in 0 .. 1 |-> IF b = 0 THEN Pair(X0, T0) ELSE Pair(X1, T1)]
Recordable == {X0, T0} \cup Others
Traces == UNION {[1 .. n -> Recordable] : n \in 1 .. MaxLen}
Ids == 0 .. MaxLen - 1

FirstPos(s, h) == CHOOSE k \in DOMAIN s : s[k] = h /\ \A m \in 1 .. k - 1 : s[m] # h
\* The id the recorder gives h: the number of arrays seen before it.
IdOf(s, h) == Cardinality({s[m] : m \in 1 .. FirstPos(s, h) - 1})

VARIABLES
  trace,            \* history: the handles of the recorded iteration
  iter_count, phase,
  order,            \* Seq of [id, sawptr]
  id_index,         \* synced_array_id_to_order_idx, as sets of positions
  dali_sawptrs, dali_saptr_idxs

vars == <<trace, iter_count, phase, order, id_index, dali_sawptrs, dali_saptr_idxs>>

Init ==
  /\ trace \in {s \in Traces : DataRecorded => {X0, T0} \subseteq Range(s)}
  /\ order = [k \in DOMAIN trace |-> [id |-> IdOf(trace, trace[k]), sawptr |-> trace[k]]]
  /\ id_index = [id \in Ids |-> {k - 1 : k \in {m \in DOMAIN trace : IdOf(trace, trace[m]) = id}}]
  /\ dali_sawptrs = [b \in 0 .. 1 |-> [i \in 0 .. 1 |-> None]]
  /\ dali_saptr_idxs \in [0 .. 1 -> Ids]
  /\ iter_count = 0 /\ phase = "use"

\* `for (j : synced_array_id_to_order_idx[saptr_id]) order[j].sawptr = p`
Rebind(o, id, p) ==
  [k \in DOMAIN o |-> IF k - 1 \in id_index[id] THEN [o[k] EXCEPT !.sawptr = p] ELSE o[k]]
\* The switch loop over i = 0, then i = 1.
Switch(o, idxs, buf) == Rebind(Rebind(o, idxs[0], buf[0]), idxs[1], buf[1])

\* The scan of order for the first record of buffer 0's array i; the
\* previous value stays when no record has it.
Lookup(i, old) ==
  IF \E k \in DOMAIN order : order[k].sawptr = dali_sawptrs[0][i]
  THEN order[CHOOSE k \in DOMAIN order :
               /\ order[k].sawptr = dali_sawptrs[0][i]
               /\ \A m \in 1 .. k - 1 : order[m].sawptr # dali_sawptrs[0][i]].id
  ELSE old

\* mutant: the buffer of the next iteration
CurrentBatchNext(k) == (k + 1) % 2
\* `auto current_data_batch = iter_count % 2;`
CurrentBatch(k) == k % 2

\* use_dali with n data batches (one per GPU) of the current buffer.
UseDali ==
  LET batch == Batch[iter_count % 2] IN
  /\ phase = "use"
  /\ \E n \in 0 .. 2 :
       \/ n = 0 /\ phase' = "error_empty"
          /\ UNCHANGED <<order, dali_sawptrs, dali_saptr_idxs>>
       \/ n > 1 /\ phase' = "error_multi_gpu"
          /\ UNCHANGED <<order, dali_sawptrs, dali_saptr_idxs>>
       \/ /\ n = 1 /\ iter_count = 0
          /\ dali_sawptrs' = [dali_sawptrs EXCEPT ![0] = batch]
          /\ phase' = "run" /\ UNCHANGED <<order, dali_saptr_idxs>>
       \/ /\ n = 1 /\ iter_count = 1
          /\ \E expired \in BOOLEAN :
               \/ expired /\ phase' = "error_expired"
                  /\ UNCHANGED <<order, dali_sawptrs, dali_saptr_idxs>>
               \/ /\ ~expired
                  /\ LET idxs == [i \in 0 .. 1 |-> Lookup(i, dali_saptr_idxs[i])] IN
                     /\ dali_saptr_idxs' = idxs
                     /\ order' = Switch(order, idxs, batch)
                  /\ dali_sawptrs' = [dali_sawptrs EXCEPT ![1] = batch]
                  /\ phase' = "run"
       \/ /\ n = 1 /\ iter_count >= 2
          /\ order' = Switch(order, dali_saptr_idxs, dali_sawptrs[CurrentBatch(iter_count)])
          /\ phase' = "run" /\ UNCHANGED <<dali_sawptrs, dali_saptr_idxs>>
  /\ UNCHANGED <<trace, iter_count, id_index>>

\* The training iteration; finalize increments iter_count.
Iterate ==
  /\ phase = "run" /\ iter_count < MaxIters
  /\ iter_count' = iter_count + 1 /\ phase' = "use"
  /\ UNCHANGED <<trace, order, id_index, dali_sawptrs, dali_saptr_idxs>>

Stopped ==
  /\ \/ phase \in {"error_empty", "error_multi_gpu", "error_expired"}
     \/ phase = "run" /\ iter_count = MaxIters
  /\ UNCHANGED vars

Next == UseDali \/ Iterate \/ Stopped

Spec == Init /\ [][Next]_vars

-----------------------------------------------------------------------------

\* The array that stands, in iteration k, for array h of the recorded one.
LiveHandle(h, k) ==
  IF h \in {X0, T0} THEN Batch[k % 2][IF h = X0 THEN 0 ELSE 1] ELSE h

(* Double-buffer rewrite (spec §8.6): once use_dali has run for iteration  *)
(* k, every record points at the array iteration k uses for it: the data  *)
(* and label records at buffer k mod 2, all other records at their own    *)
(* array.                                                                  *)
RecordsPointToLive ==
  phase = "run" => \A k \in DOMAIN order : order[k].sawptr = LiveHandle(trace[k], iter_count)
=============================================================================
