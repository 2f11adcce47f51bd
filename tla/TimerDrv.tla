------------------------------ MODULE TimerDrv ------------------------------
(***************************************************************************)
(* timer/timer_drv.c: every write to the device sets my_timer to ring one  *)
(* second later and gives it a number, 10 more than the write before.      *)
(*                                                                         *)
(* There is one my_timer, and nothing keeps writers apart.  What happens   *)
(* when a timer that is set is initialised (its list is destroyed), added  *)
(* again (BUG_ON) or left behind by the module is undefined: such a        *)
(* behaviour ends there ("broken").                                        *)
(***************************************************************************)
EXTENDS KernelTimer, Sequences

CONSTANTS
  Writers,
  MaxWrites    \* bound: calls of my_write()

DrvAssumption == TimerAssumption /\ MaxWrites \in Nat

VARIABLES
  loaded,      \* "out", "in", "broken"
  pc,          \* where each writer is
  len,
  sum,         \* what each writer has loaded of len for len += 10
  data,        \* my_timer.data
  writes,      \* history: calls of my_write() since the module was loaded
  rung,        \* history: the numbers my_timer_function() has printed
  hasty,       \* history: a write began before the timer of the one before
               \* had rung, or the module was unloaded before that
  crowded      \* history: a write began before the one before had returned

vars == <<clock, loaded, pc, len, sum, data, writes, rung, hasty, crowded>>

Places  == {"idle", "fill", "add", "load", "store"}
Numbers == 0 .. 100 + 10 * MaxWrites

TypeOK ==
  /\ ClockTypeOK
  /\ loaded \in {"out", "in", "broken"}
  /\ pc \in [Writers -> Places]
  /\ len \in Numbers
  /\ sum \in [Writers -> Numbers]
  /\ data \in Numbers
  /\ writes \in 0 .. MaxWrites
  /\ rung \in Seq(Numbers)
  /\ hasty \in BOOLEAN /\ crowded \in BOOLEAN

Init ==
  /\ ClockInit
  /\ loaded = "out" /\ pc = [w \in Writers |-> "idle"]
  /\ len = 100 /\ sum = [w \in Writers |-> 0] /\ data = 0
  /\ writes = 0 /\ rung = <<>> /\ hasty = FALSE /\ crowded = FALSE

Ticks ==
  /\ loaded # "broken"
  /\ Tick
  /\ UNCHANGED <<loaded, pc, len, sum, data, writes, rung, hasty, crowded>>

Writing == {w \in Writers : pc[w] # "idle"}

\* The writers that have not set the timer yet.
Setting == {w \in Writers : pc[w] \in {"fill", "add"}}

my_init ==
  /\ loaded = "out"
  /\ loaded' = "in" /\ len' = 100 /\ data' = 0
  /\ writes' = 0 /\ rung' = <<>> /\ hasty' = FALSE /\ crowded' = FALSE
  /\ UNCHANGED <<clock, pc, sum>>

\* my_exit() does not delete the timer.
my_exit ==
  /\ loaded = "in" /\ Writing = {}
  /\ loaded' = IF pending THEN "broken" ELSE "out"
  /\ hasty' = (hasty \/ pending)
  /\ UNCHANGED <<clock, pc, len, sum, data, writes, rung, crowded>>

---------------------------------------------------------------------------
Goto(w, from, to) ==
  loaded = "in" /\ pc[w] = from /\ pc' = [pc EXCEPT ![w] = to]

\* my_write(): init_timer(), ...
init_timer(w) ==
  /\ Goto(w, "idle", "fill")
  /\ writes < MaxWrites /\ writes' = writes + 1
  /\ loaded' = IF pending THEN "broken" ELSE "in"
  /\ hasty' = (hasty \/ pending \/ Setting # {})
  /\ crowded' = (crowded \/ Writing # {})
  /\ UNCHANGED <<clock, len, sum, data, rung>>

\* Mutant: the number is counted up before it is used.
fill_CountsFirst(w) ==
  /\ Goto(w, "fill", "add")
  /\ expires' = (jiffies + Delay) % Wrap /\ passed' = 0
  /\ data' = len + 10
  /\ UNCHANGED <<jiffies, pending, loaded, len, sum, writes, rung, hasty, crowded>>

\* ... the fields of my_timer, ...
fill(w) ==
  /\ Goto(w, "fill", "add")
  /\ expires' = (jiffies + Delay) % Wrap /\ passed' = 0
  /\ data' = len
  /\ UNCHANGED <<jiffies, pending, loaded, len, sum, writes, rung, hasty, crowded>>

\* ... add_timer(), ...
add_timer(w) ==
  /\ Goto(w, "add", "load")
  /\ loaded' = IF pending THEN "broken" ELSE "in"
  /\ pending' = TRUE
  /\ UNCHANGED <<jiffies, expires, passed, len, sum, data, writes, rung, hasty,
                 crowded>>

\* ... and len += 10, without a lock.
loads_len(w) ==
  /\ Goto(w, "load", "store")
  /\ sum' = [sum EXCEPT ![w] = len]
  /\ UNCHANGED <<clock, loaded, len, data, writes, rung, hasty, crowded>>

stores_len(w) ==
  /\ Goto(w, "store", "idle")
  /\ len' = sum[w] + 10
  /\ sum' = [sum EXCEPT ![w] = 0]
  /\ UNCHANGED <<clock, loaded, data, writes, rung, hasty, crowded>>

\* The timer is due.
my_timer_function ==
  /\ loaded # "broken" /\ Due
  /\ pending' = FALSE
  /\ rung' = Append(rung, data)
  /\ UNCHANGED <<jiffies, expires, passed, loaded, pc, len, sum, data, writes,
                 hasty, crowded>>

---------------------------------------------------------------------------
Next ==
  \/ Ticks \/ my_init \/ my_exit \/ my_timer_function
  \/ \E w \in Writers :
       init_timer(w) \/ fill(w) \/ add_timer(w) \/ loads_len(w) \/ stores_len(w)

Spec == Init /\ [][Next]_vars

---------------------------------------------------------------------------
(***************************************************************************)
(* If every write waits until the timer of the one before has rung, and    *)
(* the unloading too, my_timer is never disturbed while it is set, and the *)
(* timer rings once for every write.  It may ring before that write has    *)
(* counted len up: a write that is begun then may get the same number      *)
(* again, and a late len += 10 may undo that of others, but no number is   *)
(* ahead of its write.  If every write has also waited for the one before  *)
(* to return, each gets its own number, 10 more than the one before.       *)
(***************************************************************************)
RingsForEveryWrite ==
  ~hasty =>
    /\ loaded # "broken"
    /\ Len(rung) = writes - (IF pending \/ Setting # {} THEN 1 ELSE 0)
    /\ \A i \in DOMAIN rung :
         /\ 100 <= rung[i] /\ rung[i] <= 90 + 10 * i
         /\ ~crowded => rung[i] = 90 + 10 * i
=============================================================================
