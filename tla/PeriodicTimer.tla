--------------------------- MODULE PeriodicTimer ---------------------------
(***************************************************************************)
(* timer/periodic_timer.c: a timer whose function sets it again, until the *)
(* module is unloaded.                                                     *)
(*                                                                         *)
(* External, as the code uses it: del_timer_sync() waits for a running     *)
(* function and then takes the timer, which that function may have set     *)
(* again, off its list.                                                    *)
(***************************************************************************)
EXTENDS KernelTimer

VARIABLES
  loaded,      \* "out", "init" (expires is set), "in"
  pc           \* ktfun() is "idle" or "running"

vars == <<clock, loaded, pc>>

TypeOK ==
  /\ ClockTypeOK
  /\ loaded \in {"out", "init", "in"} /\ pc \in {"idle", "running"}

Init ==
  /\ ClockInit
  /\ loaded = "out" /\ pc = "idle"

Ticks == Tick /\ UNCHANGED <<loaded, pc>>

\* init_module(): timer.expires is computed, ...
init_module ==
  /\ loaded = "out"
  /\ loaded' = "init"
  /\ expires' = (jiffies + Delay) % Wrap /\ passed' = 0
  /\ UNCHANGED <<jiffies, pending, pc>>

\* ... and add_timer() comes later.
add_timer ==
  /\ loaded = "init"
  /\ loaded' = "in"
  /\ pending' = TRUE
  /\ UNCHANGED <<jiffies, expires, passed, pc>>

\* ktfun(): the timer is off its list; it prints the time, ...
ktfun ==
  /\ Due /\ pc = "idle"
  /\ pending' = FALSE /\ pc' = "running"
  /\ UNCHANGED <<jiffies, expires, passed, loaded>>

\* Mutant: the timer is not set ahead of jiffies.
mod_timer_Absolute ==
  /\ pc = "running"
  /\ pc' = "idle"
  /\ pending' = TRUE /\ expires' = Delay /\ passed' = 0
  /\ UNCHANGED <<jiffies, loaded>>

\* Mutant: the timer is not set again.
mod_timer_Not ==
  /\ pc = "running"
  /\ pc' = "idle"
  /\ UNCHANGED <<clock, loaded>>

\* ... and mod_timer() sets it again.
mod_timer ==
  /\ pc = "running"
  /\ pc' = "idle"
  /\ pending' = TRUE /\ expires' = (Delay + jiffies) % Wrap /\ passed' = 0
  /\ UNCHANGED <<jiffies, loaded>>

\* Mutant: del_timer() instead of del_timer_sync().
cleanup_module_NoSync ==
  /\ loaded = "in"
  /\ loaded' = "out" /\ pending' = FALSE
  /\ UNCHANGED <<jiffies, expires, passed, pc>>

\* cleanup_module(): del_timer_sync()
cleanup_module ==
  /\ loaded = "in" /\ pc = "idle"
  /\ loaded' = "out" /\ pending' = FALSE
  /\ UNCHANGED <<jiffies, expires, passed, pc>>

---------------------------------------------------------------------------
Next ==
  \/ Ticks \/ init_module \/ add_timer \/ ktfun \/ mod_timer
  \/ cleanup_module

Spec == Init /\ [][Next]_vars

\* While the module is loaded time goes on, the softirq of a timer that is
\* due runs, and so does code that has begun.
Fairness ==
  /\ WF_vars(loaded = "in" /\ Ticks)
  /\ WF_vars(ktfun) /\ WF_vars(mod_timer) /\ WF_vars(add_timer)

---------------------------------------------------------------------------
(***************************************************************************)
(* ktfun() races with the unloading, and sets the timer again when it is   *)
(* already being deleted: once cleanup_module() is through, the timer is   *)
(* neither running nor set.                                                *)
(***************************************************************************)
UnloadStopsTimer == loaded = "out" => pc = "idle" /\ ~pending

(***************************************************************************)
(* ktfun() never comes early: between the setting of the timer and the     *)
(* call at least the period has passed, also when jiffies wraps meanwhile. *)
(***************************************************************************)
NeverEarly == pc = "running" => passed >= Delay

(***************************************************************************)
(* As long as the module is loaded ktfun() is called again and again.      *)
(***************************************************************************)
FiresAgain == loaded = "in" ~> (pc = "running" \/ loaded = "out")
=============================================================================
