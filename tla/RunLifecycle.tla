----------------------------- MODULE RunLifecycle -----------------------------
(***************************************************************************)
(* What PipelineService promises of a run, whatever threads bring it about *)
(* (start_cycle, stop_cycle, _run_cycle_worker of pipeline/service.py).    *)
(* There is at most one.  It is started, goes, has its outcome written and *)
(* is cleaned up, in this order.  A stop can be asked for exactly while it *)
(* goes.  The signal of a stop may come late, when its run is over or the  *)
(* next one is on; but it is taken back only before a run goes or after.   *)
(***************************************************************************)
VARIABLES
    phase,   \* of the run: none, starting, going, closing
    asked,   \* it has been asked to stop
    signal   \* the stop has been signalled

vars == <<phase, asked, signal>>

Init == phase = "none" /\ asked = FALSE /\ signal = FALSE

Request == phase = "none" /\ phase' = "starting" /\ UNCHANGED <<asked, signal>>

\* A start that is refused or fails.
Withdraw == phase = "starting" /\ phase' = "none" /\ UNCHANGED <<asked, signal>>

Go == phase = "starting" /\ phase' = "going" /\ UNCHANGED <<asked, signal>>

AskToStop == phase = "going" /\ asked' = TRUE /\ UNCHANGED <<phase, signal>>

Signal == signal' = TRUE /\ UNCHANGED <<phase, asked>>

\* Done, failed or stopped: its outcome is known and no stop is for it any more.
Finish == phase = "going" /\ phase' = "closing" /\ asked' = FALSE /\ UNCHANGED signal

TakeBackSignal == phase \in {"starting", "closing"} /\ signal' = FALSE /\ UNCHANGED <<phase, asked>>

Close == phase = "closing" /\ phase' = "none" /\ UNCHANGED <<asked, signal>>

Next ==
    \/ Request \/ Withdraw \/ Go \/ AskToStop \/ Signal \/ Finish
    \/ TakeBackSignal \/ Close

Spec == Init /\ [][Next]_vars
=============================================================================
