---------------------------- MODULE AccessTrace ----------------------------
(***************************************************************************)
(* What the recording of SwapInOutScheduler promises (spec §3, C1-C3).     *)
(* While recording, every get/cast/clear made after the first function has *)
(* started is appended to the trace, and every function boundary appends  *)
(* the trace length to `ends`.  The end of the recording iteration closes *)
(* the last function, freezes the trace and plans from it.  A reset       *)
(* discards the trace and starts a new recording, which is closed and     *)
(* planned from in the same way (spec §5, idempotence of re-scheduling).  *)
(***************************************************************************)
EXTENDS Naturals, Sequences

CONSTANTS Handles, Tags, NoPlan

VARIABLES
  trace,      \* the accesses recorded, as [tag, h] records
  ends,       \* <<0, end of function 1, end of function 2, ...>>
  recording,  \* the trace is still being recorded
  fn,         \* functions started in the current iteration; 0 between them
  planned     \* the <<trace, ends>> the schedules were computed from

avars == <<trace, ends, recording, fn, planned>>

Accesses == [tag : Tags, h : Handles]

AInit ==
  /\ trace = << >> /\ ends = <<0>> /\ recording = TRUE /\ fn = 0
  /\ planned = NoPlan

\* A function of the current iteration starts; the previous one, if any,
\* ends where the trace now ends.
Call ==
  /\ fn' = fn + 1
  /\ ends' = IF recording /\ fn > 0 THEN Append(ends, Len(trace)) ELSE ends
  /\ UNCHANGED <<trace, recording, planned>>

Access(e) ==
  /\ recording /\ fn > 0
  /\ trace' = Append(trace, e)
  /\ UNCHANGED <<ends, recording, fn, planned>>

\* The recording iteration ends: close the last function and plan.
Close ==
  /\ recording
  /\ ends' = IF fn > 0 THEN Append(ends, Len(trace)) ELSE ends
  /\ planned' = <<trace, ends'>>
  /\ recording' = FALSE /\ fn' = 0
  /\ UNCHANGED trace

\* A later iteration ends.
EndIteration == ~recording /\ fn' = 0 /\ UNCHANGED <<trace, ends, recording, planned>>

\* A new recording starts between iterations.
Restart ==
  /\ fn = 0
  /\ trace' = << >> /\ ends' = <<0>> /\ recording' = TRUE
  /\ UNCHANGED <<fn, planned>>

ANext == Call \/ (\E e \in Accesses : Access(e)) \/ Close \/ EndIteration \/ Restart

ASpec == AInit /\ [][ANext]_avars
=============================================================================
