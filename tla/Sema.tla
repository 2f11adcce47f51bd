-------------------------------- MODULE Sema --------------------------------
(***************************************************************************)
(* A semaphore shared by two modules, synchronization/sema_mod1.c and      *)
(* synchronization/sema_mod2.c.  Module 1 owns my_sem, takes it when it is *)
(* loaded and gives it back when it is unloaded; whoever opens its device  *)
(* tries it and does an up() whether or not he got it.  Module 2 waits for *)
(* my_sem when it is loaded and gives it back when it is unloaded.         *)
(*                                                                         *)
(* External, as the code uses it: up() hands the semaphore to a waiter if  *)
(* there is one and counts it up otherwise; a signal ends the wait of      *)
(* down_interruptible().  An open file of the device, and module 2 from    *)
(* the begin of its loading (it uses the symbol my_sem), keep module 1     *)
(* loaded.                                                                 *)
(***************************************************************************)
EXTENDS Naturals, FiniteSets

CONSTANTS
  Openers,     \* processes that open the device
  MaxOpens     \* bound: calls of open() that fail to get my_sem

SemaAssumption == IsFiniteSet(Openers) /\ MaxOpens \in Nat

VARIABLES
  count,       \* my_sem.count
  waiting,     \* module 2 is on my_sem.wait_list
  mod1,        \* "out", "init", "holds", "exit" (unregister_chrdev is done)
  device,      \* the device is registered
  mod2,        \* "out", "init", "in"
  pc,          \* where each opener is: "closed", "got", "failed", "open"
  gifts        \* history: up()s by openers that had not got my_sem

vars == <<count, waiting, mod1, device, mod2, pc, gifts>>

TypeOK ==
  /\ count \in Nat
  /\ waiting \in BOOLEAN
  /\ mod1 \in {"out", "init", "holds", "exit"}
  /\ device \in BOOLEAN
  /\ mod2 \in {"out", "init", "in"}
  /\ pc \in [Openers -> {"closed", "got", "failed", "open"}]
  /\ gifts \in 0 .. MaxOpens

Init ==
  /\ count = 0 /\ waiting = FALSE
  /\ mod1 = "out" /\ device = FALSE
  /\ mod2 = "out"
  /\ pc = [o \in Openers |-> "closed"]
  /\ gifts = 0

---------------------------------------------------------------------------
\* down_trylock() when it succeeds, and down_interruptible() without a wait.
Down == count > 0 /\ count' = count - 1 /\ waiting' = waiting

Up ==
  IF waiting THEN waiting' = FALSE /\ mod2' = "in" /\ UNCHANGED count
             ELSE count' = count + 1 /\ UNCHANGED <<waiting, mod2>>

\* my_init() of module 1: sema_init(&my_sem, 1), ...
mod1_sema_init ==
  /\ mod1 = "out"
  /\ mod1' = "init"
  /\ count' = 1 /\ gifts' = 0
  /\ UNCHANGED <<waiting, device, mod2, pc>>

\* ... down_interruptible(), which finds it free, and
\* register_chrdev(), which may fail unnoticed.
mod1_init ==
  /\ mod1 = "init"
  /\ Down
  /\ mod1' = "holds"
  /\ device' \in BOOLEAN
  /\ UNCHANGED <<mod2, pc, gifts>>

\* my_exit() of module 1: unregister_chrdev(), ...
mod1_unregister ==
  /\ mod1 = "holds"
  /\ mod2 = "out"
  /\ \A o \in Openers : pc[o] = "closed"
  /\ mod1' = "exit" /\ device' = FALSE
  /\ UNCHANGED <<count, waiting, mod2, pc, gifts>>

\* ... and up().
mod1_exit ==
  /\ mod1 = "exit"
  /\ Up
  /\ mod1' = "out"
  /\ UNCHANGED <<device, pc, gifts>>

\* my_init() of module 2: it gets my_sem at once, waits, or stops waiting
\* when a signal comes (-EBUSY, "Not loading module; failed").
mod2_insmod ==
  /\ mod1 = "holds" /\ mod2 = "out"
  /\ mod2' = "init"
  /\ UNCHANGED <<count, waiting, mod1, device, pc, gifts>>

mod2_gets ==
  /\ mod2 = "init" /\ ~waiting
  /\ Down
  /\ mod2' = "in"
  /\ UNCHANGED <<mod1, device, pc, gifts>>

mod2_waits ==
  /\ mod2 = "init" /\ ~waiting
  /\ count = 0
  /\ waiting' = TRUE
  /\ UNCHANGED <<count, mod1, device, mod2, pc, gifts>>

mod2_signal ==
  /\ waiting
  /\ waiting' = FALSE /\ mod2' = "out"
  /\ UNCHANGED <<count, mod1, device, pc, gifts>>

\* Mutant: my_exit() of module 2 keeps the semaphore.
mod2_exit_Keeps ==
  /\ mod2 = "in"
  /\ mod2' = "out"
  /\ UNCHANGED <<count, waiting, mod1, device, pc, gifts>>

mod2_exit ==
  /\ mod2 = "in"
  /\ count' = count + 1 /\ mod2' = "out"       \* up(): nobody waits
  /\ UNCHANGED <<waiting, mod1, device, pc, gifts>>

---------------------------------------------------------------------------
At(place) == {o \in Openers : pc[o] = place}

\* my_open(): down_trylock() ...
my_open_gets(o) ==
  /\ device /\ pc[o] = "closed"
  /\ Down
  /\ pc' = [pc EXCEPT ![o] = "got"]
  /\ UNCHANGED <<mod1, device, mod2, gifts>>

my_open_fails(o) ==
  /\ device /\ pc[o] = "closed"
  /\ count = 0
  /\ gifts + Cardinality(At("failed")) < MaxOpens
  /\ pc' = [pc EXCEPT ![o] = "failed"]
  /\ UNCHANGED <<count, waiting, mod1, device, mod2, gifts>>

\* Mutant: the up() after a failure is left out.
my_open_ups_Not(o) ==
  /\ pc[o] \in {"got", "failed"}
  /\ pc' = [pc EXCEPT ![o] = "open"]
  /\ IF pc[o] = "got" THEN Up ELSE UNCHANGED <<count, waiting, mod2>>
  /\ UNCHANGED <<mod1, device, gifts>>

\* ... and up(), on both paths.
my_open_ups(o) ==
  /\ pc[o] \in {"got", "failed"}
  /\ Up
  /\ pc' = [pc EXCEPT ![o] = "open"]
  /\ gifts' = IF pc[o] = "failed" THEN gifts + 1 ELSE gifts
  /\ UNCHANGED <<mod1, device>>

close(o) ==
  /\ pc[o] = "open"
  /\ pc' = [pc EXCEPT ![o] = "closed"]
  /\ UNCHANGED <<count, waiting, mod1, device, mod2, gifts>>

---------------------------------------------------------------------------
Module1 == mod1_sema_init \/ mod1_init \/ mod1_unregister \/ mod1_exit

Module2 == mod2_insmod \/ mod2_gets \/ mod2_waits \/ mod2_signal \/ mod2_exit

Opener(o) ==
  my_open_gets(o) \/ my_open_fails(o) \/ my_open_ups(o) \/ close(o)

Next == Module1 \/ Module2 \/ \E o \in Openers : Opener(o)

Spec == Init /\ [][Next]_vars

\* A module that has begun to load goes on, and so does an open().
Fairness ==
  /\ WF_vars(mod1_init) /\ WF_vars(mod1_exit)
  /\ WF_vars(mod2_gets \/ mod2_waits)
  /\ \A o \in Openers : WF_vars(my_open_ups(o))

---------------------------------------------------------------------------
Holders ==
  Cardinality(At("got"))
    + (IF mod1 \in {"holds", "exit"} THEN 1 ELSE 0)
    + (IF mod2 = "in" THEN 1 ELSE 0)

(***************************************************************************)
(* my_sem is neither lost nor multiplied by anything but the up()s of      *)
(* openers that had not got it: as many can hold it at once as module 1    *)
(* has set it up for plus the number of those up()s.                       *)
(***************************************************************************)
UnitsAccounted == mod1 # "out" => count + Holders = 1 + gifts

(***************************************************************************)
(* An open() of the device lets a waiting module 2 in, whether or not the  *)
(* opener got the semaphore itself (or a signal ends the wait first).      *)
(***************************************************************************)
OpenAdmitsModule2 ==
  (waiting /\ \E o \in Openers : pc[o] \in {"got", "failed"}) ~> ~waiting
=============================================================================
