---------------------------- MODULE SyscallHook ----------------------------
(***************************************************************************)
(* syscalls/mysyscalls.c: the entry of open() in the system call table is  *)
(* replaced by myopen(), which prints the name and goes on to the original *)
(* function.  Processes call open() all the time, on other processors.     *)
(*                                                                         *)
(* Nothing keeps the module loaded while a process is in myopen(), or has  *)
(* read its address in the table: what happens to one that is there when   *)
(* the text is freed, or comes there later, is undefined; such a process   *)
(* is "lost".                                                              *)
(***************************************************************************)
CONSTANT Callers

VARIABLES
  loader,      \* "out", "init" (orig_open is stored), "in", "exit"
  entry,       \* sys_call_table[__NR_open]
  orig_open,   \* "NULL" or "sys_open"
  pc,          \* where each caller of open() is
  failed,      \* history: callers whose open() myopen() answered with -1
  caught       \* history: callers that were in myopen() when the entry was put
               \* back, and have not returned

vars == <<loader, entry, orig_open, pc, failed, caught>>

TypeOK ==
  /\ loader \in {"out", "init", "in", "exit"}
  /\ entry \in {"sys_open", "myopen"}
  /\ orig_open \in {"NULL", "sys_open"}
  /\ pc \in [Callers -> {"user", "myopen", "through", "sys_open", "lost"}]
  /\ failed \subseteq Callers /\ caught \subseteq Callers

Init ==
  /\ loader = "out" /\ entry = "sys_open" /\ orig_open = "NULL"
  /\ pc = [c \in Callers |-> "user"] /\ failed = {} /\ caught = {}

\* "through" is in the original function, called by myopen().
InModule == {c \in Callers : pc[c] \in {"myopen", "through"}}

---------------------------------------------------------------------------
\* Mutant: the entry is saved when it is already replaced.
my_init_saves_Swapped ==
  /\ loader = "out"
  /\ loader' = "init" /\ orig_open' = "myopen" /\ entry' = "myopen"
  /\ UNCHANGED <<pc, failed, caught>>

\* my_init(): the entry is saved, ...
my_init_saves ==
  /\ loader = "out"
  /\ loader' = "init" /\ orig_open' = entry
  /\ UNCHANGED <<entry, pc, failed, caught>>

\* ... and replaced.
my_init_hooks ==
  /\ loader = "init"
  /\ loader' = "in" /\ entry' = "myopen"
  /\ UNCHANGED <<orig_open, pc, failed, caught>>

\* Mutant: the entry is left alone.
my_exit_Not ==
  /\ loader = "in"
  /\ loader' = "exit"
  /\ caught' = caught \cup InModule
  /\ UNCHANGED <<entry, orig_open, pc, failed>>

\* my_exit() puts the saved entry back.
my_exit ==
  /\ loader = "in"
  /\ loader' = "exit"
  /\ entry' = IF orig_open # "NULL" THEN orig_open ELSE entry
  /\ caught' = caught \cup InModule
  /\ UNCHANGED <<orig_open, pc, failed>>

\* The kernel frees the text and the variables of the module.
free_module ==
  /\ loader = "exit"
  /\ loader' = "out" /\ orig_open' = "NULL"
  /\ pc' = [c \in Callers |-> IF c \in InModule THEN "lost" ELSE pc[c]]
  /\ UNCHANGED <<entry, failed, caught>>

---------------------------------------------------------------------------
\* open() through the table; the address of myopen() is good for nothing when
\* the module is gone.
open(c) ==
  /\ pc[c] = "user"
  /\ pc' = [pc EXCEPT ![c] =
              IF entry = "myopen" /\ loader \notin {"in", "exit"} THEN "lost"
                                                                  ELSE entry]
  /\ failed' = failed \ {c}
  /\ UNCHANGED <<loader, entry, orig_open, caught>>

\* myopen()
myopen(c) ==
  /\ pc[c] = "myopen"
  /\ IF orig_open = "NULL"
     THEN pc' = [pc EXCEPT ![c] = "user"] /\ failed' = failed \cup {c}
     ELSE pc' = [pc EXCEPT ![c] = "through"] /\ UNCHANGED failed
  /\ UNCHANGED <<loader, entry, orig_open, caught>>

sys_open(c) ==
  /\ pc[c] \in {"sys_open", "through"}
  /\ pc' = [pc EXCEPT ![c] = "user"]
  /\ caught' = caught \ {c}
  /\ UNCHANGED <<loader, entry, orig_open, failed>>

Next ==
  \/ my_init_saves \/ my_init_hooks \/ my_exit \/ free_module
  \/ \E c \in Callers : open(c) \/ myopen(c) \/ sys_open(c)

Spec == Init /\ [][Next]_vars

---------------------------------------------------------------------------
(***************************************************************************)
(* While the module is loaded and unloaded, a process that calls open()    *)
(* comes to the original function and back: myopen() never finds orig_open *)
(* empty, and nobody goes through the table to text that is freed.  The    *)
(* exception, which the code does not prevent, are processes that were     *)
(* already in myopen(), or in the original function called by it, when     *)
(* my_exit() put the entry back and did not leave it before the text was   *)
(* freed.                                                                  *)
(***************************************************************************)
HookIsTransparent ==
  /\ failed = {}
  /\ \A c \in Callers : pc[c] = "lost" => c \in caught
=============================================================================
