------------------------------ MODULE SpinDead ------------------------------
(***************************************************************************)
(* synchronization/spindead.c: one kernel thread per processor, all after  *)
(* one spinlock; the first to get it goes to sleep with the lock held.     *)
(*                                                                         *)
(* External, as the code uses it: creating a thread may fail.  Nothing in  *)
(* the module wakes the sleeper, but somebody else may.  The module can be *)
(* unloaded under its threads, which then run in text that is gone: such a *)
(* behaviour ends there.                                                   *)
(***************************************************************************)
EXTENDS Naturals

CONSTANT NCpus     \* number of online processors

Cpus  == 0 .. NCpus - 1
NoCpu == NCpus

SpinAssumption == NCpus \in Nat \ {0}

VARIABLES
  loader,      \* "out", "creating", "in", "gone" (out, with threads left)
  cpu,         \* the processor create_kernel_threads() has come to
  pc,          \* where the thread of each processor is
  wrong_lock,  \* the processor whose thread holds the lock, or NoCpu
  count        \* threads that have got the lock

vars == <<loader, cpu, pc, wrong_lock, count>>

TypeOK ==
  /\ loader \in {"out", "creating", "in", "gone"}
  /\ cpu \in 0 .. NCpus
  /\ pc \in [Cpus -> {"none", "spin", "locked", "asleep", "woken", "done"}]
  /\ wrong_lock \in 0 .. NCpus
  /\ count \in 0 .. NCpus

Init ==
  /\ loader = "out" /\ cpu = 0
  /\ pc = [c \in Cpus |-> "none"]
  /\ wrong_lock = NoCpu /\ count = 0

---------------------------------------------------------------------------
\* my_init(): the data of the module is fresh, ...
my_init ==
  /\ loader = "out"
  /\ loader' = "creating" /\ cpu' = 0
  /\ pc' = [c \in Cpus |-> "none"]
  /\ wrong_lock' = NoCpu /\ count' = 0

\* ... and create_kernel_threads() creates and wakes a thread for each
\* processor in turn, up to the first failure, which my_init() ignores.
kthread_create_on_cpu ==
  /\ loader = "creating" /\ cpu < NCpus
  /\ pc' = [pc EXCEPT ![cpu] = "spin"]
  /\ cpu' = cpu + 1
  /\ UNCHANGED <<loader, wrong_lock, count>>

create_kernel_threads_returns ==
  /\ loader = "creating"
  /\ loader' = "in"
  /\ UNCHANGED <<cpu, pc, wrong_lock, count>>

\* destroy_kernel_threads() does nothing.
my_exit ==
  /\ loader = "in"
  /\ loader' = IF \A c \in Cpus : pc[c] \in {"none", "done"}
               THEN "out" ELSE "gone"
  /\ UNCHANGED <<cpu, pc, wrong_lock, count>>

---------------------------------------------------------------------------
Goto(c, from, to) ==
  /\ loader # "gone"
  /\ pc[c] = from
  /\ pc' = [pc EXCEPT ![c] = to]
  /\ UNCHANGED <<loader, cpu>>

\* spintest_fn(): spin_lock(), ...
spin_lock(c) ==
  /\ Goto(c, "spin", "locked")
  /\ wrong_lock = NoCpu
  /\ wrong_lock' = c /\ count' = count + 1

\* Mutant: the lock is released before the thread goes to sleep.
schedule_Unlocks(c) ==
  /\ count = 1
  /\ Goto(c, "locked", "asleep")
  /\ wrong_lock' = NoCpu
  /\ UNCHANGED count

\* ... the first one sleeps, still with the lock, ...
schedule(c) ==
  /\ count = 1
  /\ Goto(c, "locked", "asleep")
  /\ UNCHANGED <<wrong_lock, count>>

wake_up(c) ==
  /\ Goto(c, "asleep", "woken")
  /\ UNCHANGED <<wrong_lock, count>>

Unlocks(c) == (pc[c] = "locked" /\ count # 1) \/ pc[c] = "woken"

\* Mutant: a thread that has slept returns without spin_unlock().
spin_unlock_NotSleeper(c) ==
  /\ Unlocks(c)
  /\ Goto(c, pc[c], "done")
  /\ wrong_lock' = IF pc[c] = "woken" THEN wrong_lock ELSE NoCpu
  /\ UNCHANGED count

\* ... and spin_unlock().
spin_unlock(c) ==
  /\ Unlocks(c)
  /\ Goto(c, pc[c], "done")
  /\ wrong_lock' = NoCpu
  /\ UNCHANGED count

---------------------------------------------------------------------------
\* What a thread does by itself.
spintest_fn(c) == spin_lock(c) \/ schedule(c) \/ spin_unlock(c)

Next ==
  \/ my_init \/ kthread_create_on_cpu \/ create_kernel_threads_returns
  \/ my_exit
  \/ \E c \in Cpus : spintest_fn(c) \/ wake_up(c)

Spec == Init /\ [][Next]_vars

\* Runnable threads run, each on a processor of its own.  Nobody need ever
\* wake the sleeper.
Fairness == \A c \in Cpus : WF_vars(spintest_fn(c))

---------------------------------------------------------------------------
(***************************************************************************)
(* The deadlock the example is about: from the moment the first thread is  *)
(* asleep in schedule() nobody gets past spin_lock(), in whatever order    *)
(* the threads were created and started.                                   *)
(***************************************************************************)
SleeperBlocksAll ==
  \A c \in Cpus : pc[c] = "asleep" =>
    /\ wrong_lock = c
    /\ \A d \in Cpus \ {c} : pc[d] \in {"none", "spin"}

(***************************************************************************)
(* It is a deadlock of one thread's making: once somebody has woken it,    *)
(* every thread there is comes to its end (unless the module goes first),  *)
(* as no other one sleeps with the lock.                                   *)
(***************************************************************************)
WakingFreesAll ==
  \A c, d \in Cpus :
    pc[c] = "woken" /\ pc[d] # "none" ~> pc[d] = "done" \/ loader = "gone"
=============================================================================
