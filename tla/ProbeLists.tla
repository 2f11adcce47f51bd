----------------------------- MODULE ProbeLists -----------------------------
(***************************************************************************)
(* The two lists of probes of kprobes/efi_reboot_monitor.c: my_init()      *)
(* registers the jprobes of jps[], then the kprobes of kps[], and takes    *)
(* everything back when one of them fails; my_exit() unregisters both.     *)
(*                                                                         *)
(* External, as the code uses it: register_kprobe() sets addr once it has  *)
(* found the symbol and may fail before or after that; unregister_kprobe() *)
(* disarms the probe and waits for its running handlers, and when the      *)
(* probe is not registered only clears addr.  A module whose init function *)
(* returns a positive number, as my_init() does when it fails, is loaded   *)
(* nevertheless.  What the handlers do is in EfiMonitor.                   *)
(***************************************************************************)
EXTENDS Integers

CONSTANTS
  NUMJP, NUMKP,   \* lengths of jps[] and kps[]
  LastJp          \* jps[] has initialisers for the slots below LastJp, the
                  \* others are NULL

ASSUME ListAssumption ==
  /\ NUMJP \in Nat /\ NUMKP \in Nat
  /\ LastJp \in 0 .. NUMJP

VARIABLES
  pc,         \* what the module is doing
  list,       \* the list it is working on
  at,         \* the index it has reached: i, or j while rolling back
  waiting,    \* inside unregister_*(), the probe at hand is disarmed
  exiting,    \* the call comes from my_exit()
  ret,        \* what my_init() returned
  reg,        \* probes that are registered
  addr,       \* probes whose addr is not 0
  running     \* probes whose handler is running somewhere

vars == <<pc, list, at, waiting, exiting, ret, reg, addr, running>>

Size(l)  == IF l = "j" THEN NUMJP ELSE NUMKP
Jprobes  == {<<"j", n>> : n \in 0 .. LastJp - 1}
Kprobes  == {<<"k", n>> : n \in 0 .. NUMKP - 1}
Probes   == Jprobes \cup Kprobes
Slot     == <<list, at>>
IsNull   == Slot \notin Probes

TypeOK ==
  /\ pc \in {"out", "register", "rollback", "unregister", "live", "oops"}
  /\ list \in {"j", "k"}
  /\ at \in -1 .. Size(list)
  /\ waiting \in BOOLEAN
  /\ exiting \in BOOLEAN
  /\ ret \in {0, 1}
  /\ reg \subseteq Probes
  /\ addr \subseteq Probes
  /\ running \subseteq Probes

Init ==
  /\ pc = "out" /\ list = "j" /\ at = 0
  /\ waiting = FALSE /\ exiting = FALSE /\ ret = 0
  /\ reg = {} /\ addr = {} /\ running = {}

---------------------------------------------------------------------------
insmod ==
  /\ pc = "out"
  /\ pc' = "register" /\ list' = "j" /\ at' = 0
  /\ addr' = {}
  /\ UNCHANGED <<waiting, exiting, ret, reg, running>>

\* The condition of the for loops.
InList(l, n) == n < Size(l)

\* Where the rollback loops start when slot n has failed.
RollbackFrom(n) == n - 1

\* An iteration of register_jprobe_list() or register_kprobe_list(): skip a
\* NULL slot, register a probe, or fail.
RegisterNext ==
  /\ pc = "register" /\ InList(list, at)
  /\ \/ /\ IsNull
        /\ at' = at + 1
        /\ UNCHANGED <<pc, reg, addr>>
     \/ /\ ~IsNull
        /\ reg' = reg \cup {Slot} /\ addr' = addr \cup {Slot}
        /\ at' = at + 1
        /\ UNCHANGED pc
     \/ /\ ~IsNull
        /\ addr' \in {addr, addr \cup {Slot}}
        /\ pc' = "rollback" /\ at' = RollbackFrom(at)
        /\ UNCHANGED reg
  /\ UNCHANGED <<list, waiting, exiting, ret, running>>

RegisterEnds ==
  /\ pc = "register" /\ ~InList(list, at)
  /\ \/ list = "j" /\ list' = "k" /\ at' = 0 /\ UNCHANGED <<pc, ret>>
     \/ list = "k" /\ pc' = "live" /\ ret' = 0 /\ UNCHANGED <<list, at>>
  /\ UNCHANGED <<waiting, exiting, reg, addr, running>>

\* The condition of the rollback loops.
RollsBack(n) == n >= 0

\* An iteration of a rollback loop, which does not look for NULL.
RollbackNext ==
  /\ pc = "rollback" /\ ~waiting /\ RollsBack(at)
  /\ pc' = IF IsNull THEN "oops" ELSE pc
  /\ reg' = reg \ {Slot}
  /\ waiting' = ~IsNull
  /\ UNCHANGED <<list, at, exiting, ret, addr, running>>

\* Mutant: when the kprobes fail the jprobes are forgotten.
RollbackEnds_KeepsJprobes ==
  /\ pc = "rollback" /\ ~waiting /\ ~RollsBack(at)
  /\ pc' = "live" /\ ret' = 1
  /\ UNCHANGED <<list, at, exiting, waiting, reg, addr, running>>

\* The rollback is done: my_init() returns 1, after unregister_jprobe_list()
\* if it was a kprobe that failed.
RollbackEnds ==
  /\ pc = "rollback" /\ ~waiting /\ ~RollsBack(at)
  /\ \/ /\ list = "j"
        /\ pc' = "live" /\ ret' = 1
        /\ UNCHANGED <<list, at, exiting>>
     \/ /\ list = "k"
        /\ pc' = "unregister" /\ list' = "j" /\ at' = 0 /\ exiting' = FALSE
        /\ UNCHANGED ret
  /\ UNCHANGED <<waiting, reg, addr, running>>

\* What the unregister loops pass over.
Skips == IsNull \/ Slot \notin addr

\* An iteration of unregister_jprobe_list() or unregister_kprobe_list().
UnregisterNext ==
  /\ pc = "unregister" /\ ~waiting /\ InList(list, at)
  /\ \/ /\ Skips
        /\ at' = at + 1
        /\ UNCHANGED <<reg, addr, waiting>>
     \/ /\ ~Skips /\ Slot \in reg
        /\ reg' = reg \ {Slot}
        /\ waiting' = TRUE
        /\ UNCHANGED <<at, addr>>
     \/ /\ ~Skips /\ Slot \notin reg
        /\ addr' = addr \ {Slot}
        /\ at' = at + 1
        /\ UNCHANGED <<reg, waiting>>
  /\ UNCHANGED <<pc, list, exiting, ret, running>>

\* Mutant: the index stays where it is.
WaitEnds_SameIndex ==
  /\ waiting
  /\ Slot \notin running
  /\ waiting' = FALSE
  /\ UNCHANGED <<at, pc, list, exiting, ret, reg, addr, running>>

\* unregister_*() returns when no handler of the disarmed probe runs.
WaitEnds ==
  /\ waiting
  /\ Slot \notin running
  /\ waiting' = FALSE
  /\ at' = IF pc = "rollback" THEN at - 1 ELSE at + 1
  /\ UNCHANGED <<pc, list, exiting, ret, reg, addr, running>>

UnregisterEnds ==
  /\ pc = "unregister" /\ ~waiting /\ ~InList(list, at)
  /\ \/ /\ list = "k"
        /\ list' = "j" /\ at' = 0
        /\ UNCHANGED <<pc, ret>>
     \/ /\ list = "j" /\ exiting
        /\ pc' = "out"
        /\ UNCHANGED <<list, at, ret>>
     \/ /\ list = "j" /\ ~exiting
        /\ pc' = "live" /\ ret' = 1
        /\ UNCHANGED <<list, at>>
  /\ UNCHANGED <<waiting, exiting, reg, addr, running>>

\* Mutant: my_exit() forgets the kprobes.
my_exit_JprobesOnly ==
  /\ pc = "live"
  /\ pc' = "unregister" /\ list' = "j" /\ at' = 0 /\ exiting' = TRUE
  /\ UNCHANGED <<waiting, ret, reg, addr, running>>

my_exit ==
  /\ pc = "live"
  /\ pc' = "unregister" /\ list' = "k" /\ at' = 0 /\ exiting' = TRUE
  /\ UNCHANGED <<waiting, ret, reg, addr, running>>

\* A probed function is called: the handler runs, and returns.
Fire(p) ==
  /\ p \in reg /\ p \notin running
  /\ running' = running \cup {p}
  /\ UNCHANGED <<pc, list, at, waiting, exiting, ret, reg, addr>>

HandlerReturns(p) ==
  /\ p \in running
  /\ running' = running \ {p}
  /\ UNCHANGED <<pc, list, at, waiting, exiting, ret, reg, addr>>

---------------------------------------------------------------------------
ModuleStep ==
  \/ RegisterNext \/ RegisterEnds
  \/ RollbackNext \/ RollbackEnds
  \/ UnregisterNext \/ WaitEnds \/ UnregisterEnds

Next ==
  \/ insmod \/ ModuleStep \/ my_exit
  \/ \E p \in Probes : Fire(p) \/ HandlerReturns(p)

Spec == Init /\ [][Next]_vars

---------------------------------------------------------------------------
(***************************************************************************)
(* my_init() registers all probes and returns 0, or returns 1 and has      *)
(* taken back every probe it had registered, whichever one failed.         *)
(***************************************************************************)
AllOrNothing == pc = "live" => reg = IF ret = 0 THEN Probes ELSE {}

(***************************************************************************)
(* Once the module is out no probe calls into it and no handler of it is   *)
(* still running, also when it was loaded although my_init() had failed.   *)
(***************************************************************************)
GoneMeansSilent == pc = "out" => reg = {} /\ running = {}

(***************************************************************************)
(* A rollback never meets the NULL slots that the registration skips: they *)
(* are behind the last initialiser (NUMJP is 12, there are 11).            *)
(***************************************************************************)
RollbackMeetsNoNull == pc # "oops"
=============================================================================
