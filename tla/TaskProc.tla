------------------------------ MODULE TaskProc ------------------------------
(***************************************************************************)
(* debug/task_proc.c: the node "pid" names a process, the node "nr_hashed" *)
(* shows the number of pids in its namespace, and a number written to it   *)
(* is added there.  Every access, also one to "pid", begins with looking   *)
(* the named process up, and nothing keeps accesses apart.                 *)
(*                                                                         *)
(* A task stands for its pid as well, and pids are not reused.  The build  *)
(* may take p_task from a register or load it again.  File offsets are as  *)
(* in ProcParam.                                                           *)
(* External, as the code uses it: a process that has exited has no pid     *)
(* namespace any more (NULL); its exit counts pid_allocated down.  A       *)
(* thread that oopses is gone, but its access never ends, which            *)
(* remove_proc_entry() waits for.                                          *)
(***************************************************************************)
EXTENDS Naturals, FiniteSets

CONSTANTS
  Users,       \* threads that access the nodes
  Tasks,       \* processes that can be named; they may exit
  NoTask,      \* NULL, and the pid of no process, as -1 is
  Namespaces, NoNs,
  NsOf,        \* the active namespace of each task
  Amounts,     \* numbers that are written to "nr_hashed"
  Span,        \* number of values of an unsigned int
  MaxAdds      \* bound: writes to "nr_hashed"

TaskProcAssumption ==
  /\ IsFiniteSet(Tasks) /\ NoTask \notin Tasks
  /\ NoNs \notin Namespaces
  /\ NsOf \in [Tasks -> Namespaces]
  /\ Span \in Nat \ {0} /\ Amounts \subseteq 0 .. Span - 1
  /\ MaxAdds \in Nat

VARIABLES
  loaded, alive,
  pid_allocated,   \* of each namespace
  pid_no, p_task,
  pc,              \* where each user is; "oops" for ever
  op,              \* what it does: "read", "pid", "nr_hashed"
  found,           \* the pid it looks up, then what that has returned
  pid_ns, nr_hashed,
  named,           \* history: pids that were written to "pid"
  added,           \* history: what was to be added to each pid_allocated,
                   \* until an addition is torn
  adds,            \* history: number of writes to "nr_hashed"
  torn             \* history: an addition was not alone

local   == <<op, found, pid_ns, nr_hashed>>
history == <<named, added, adds, torn>>
vars == <<loaded, alive, pid_allocated, pid_no, p_task, pc, local, history>>

Places == {"idle", "find", "look", "hold", "use", "copy", "add", "store", "oops"}

TypeOK ==
  /\ loaded \in BOOLEAN /\ alive \subseteq Tasks
  /\ pid_allocated \in [Namespaces -> 0 .. Span - 1]
  /\ pid_no \in Tasks \cup {NoTask} /\ p_task \in Tasks \cup {NoTask}
  /\ pc \in [Users -> Places]
  /\ op \in [Users -> {"read", "pid", "nr_hashed"}]
  /\ found \in [Users -> Tasks \cup {NoTask}]
  /\ pid_ns \in [Users -> Namespaces \cup {NoNs}]
  /\ nr_hashed \in [Users -> 0 .. Span - 1]
  /\ named \subseteq Tasks \cup {NoTask}
  /\ added \in [Namespaces -> 0 .. Span - 1]
  /\ adds \in 0 .. MaxAdds /\ torn \in BOOLEAN

Living(n) == Cardinality({t \in alive : NsOf[t] = n}) % Span

Init ==
  /\ loaded = FALSE /\ alive = Tasks
  /\ pid_allocated = [n \in Namespaces |-> Living(n)]
  /\ pid_no = NoTask /\ p_task = NoTask
  /\ pc = [u \in Users |-> "idle"]
  /\ op = [u \in Users |-> "read"]
  /\ found = [u \in Users |-> NoTask]
  /\ pid_ns = [u \in Users |-> NoNs]
  /\ nr_hashed = [u \in Users |-> 0]
  /\ named = {} /\ added = [n \in Namespaces |-> 0]
  /\ adds = 0 /\ torn = FALSE

Busy == {u \in Users : pc[u] # "idle"}

---------------------------------------------------------------------------
\* my_init(), with the variables as the module has them; my_exit() waits
\* for the accesses that are going on.
my_init ==
  /\ ~loaded
  /\ loaded' = TRUE
  /\ pid_no' = NoTask /\ p_task' = NoTask /\ named' = {}
  /\ UNCHANGED <<alive, pid_allocated, pc, local, added, adds, torn>>

my_exit ==
  /\ loaded /\ Busy = {}
  /\ loaded' = FALSE
  /\ UNCHANGED <<alive, pid_allocated, pid_no, p_task, pc, local, history>>

exit(t) ==
  /\ t \in alive
  /\ alive' = alive \ {t}
  /\ pid_allocated' = [pid_allocated EXCEPT ![NsOf[t]] = (@ + Span - 1) % Span]
  /\ torn' = (torn \/ \E u \in Users : pc[u] = "store")
  /\ UNCHANGED <<loaded, pid_no, p_task, pc, local, named, added, adds>>

---------------------------------------------------------------------------
Goto(u, from, to) == pc[u] = from /\ pc' = [pc EXCEPT ![u] = to]

\* The locals go when the access returns.
Returns(u) ==
  /\ op' = [op EXCEPT ![u] = "read"]
  /\ pid_ns' = [pid_ns EXCEPT ![u] = NoNs]
  /\ nr_hashed' = [nr_hashed EXCEPT ![u] = 0]

\* Mutant: -1 is looked up like a pid.
Looks_Always(pid) == TRUE

\* if (pid_no != -1)
Looks(pid) == pid # NoTask

\* my_proc_read() and my_proc_write(): the first look at pid_no, ...
begins(u, o) ==
  /\ loaded
  /\ Goto(u, "idle", IF Looks(pid_no) THEN "find" ELSE "copy")
  /\ op' = [op EXCEPT ![u] = o]
  /\ adds' = IF o = "nr_hashed" THEN adds + 1 ELSE adds
  /\ adds' <= MaxAdds
  /\ torn' = (torn \/ Busy # {})
  /\ added' = [n \in Namespaces |-> IF torn' THEN 0 ELSE added[n]]
  /\ UNCHANGED <<loaded, alive, pid_allocated, pid_no, p_task, found, pid_ns,
                 nr_hashed, named>>

\* ... the second one, for pid_task(find_pid_ns(pid_no)), ...
loads_pid(u) ==
  /\ Goto(u, "find", "look")
  /\ found' = [found EXCEPT ![u] = pid_no]
  /\ UNCHANGED <<loaded, alive, pid_allocated, pid_no, p_task, op, pid_ns,
                 nr_hashed, history>>

\* ... which finds the process or not ...
finds(u) ==
  /\ Goto(u, "look", "hold")
  /\ found' = [found EXCEPT ![u] = IF @ \in alive THEN @ ELSE NoTask]
  /\ UNCHANGED <<loaded, alive, pid_allocated, pid_no, p_task, op, pid_ns,
                 nr_hashed, history>>

\* ... and is stored in the shared p_task, ...
stores_task(u) ==
  /\ Goto(u, "hold", "use")
  /\ p_task' = found[u]
  /\ UNCHANGED <<loaded, alive, pid_allocated, pid_no, local, history>>

\* ... and task_active_pid_ns(p_task)->pid_allocated; only a write to
\* "nr_hashed" needs them later.
uses(u) ==
  /\ found' = [found EXCEPT ![u] = NoTask]
  /\ \E t \in {p_task, found[u]} :
       IF t \in alive
       THEN /\ Goto(u, "use", "copy")
            /\ IF op[u] = "nr_hashed"
               THEN /\ pid_ns' = [pid_ns EXCEPT ![u] = NsOf[t]]
                    /\ nr_hashed' = [nr_hashed EXCEPT
                         ![u] = pid_allocated[NsOf[t]]]
               ELSE UNCHANGED <<pid_ns, nr_hashed>>
       ELSE /\ Goto(u, "use", "oops")
            /\ UNCHANGED <<pid_ns, nr_hashed>>
  /\ UNCHANGED <<loaded, alive, pid_allocated, pid_no, p_task, op, history>>

\* The end of a read, and of a write that fails with -EFAULT.
returns(u) ==
  /\ Goto(u, "copy", "idle")
  /\ Returns(u)
  /\ UNCHANGED <<loaded, alive, pid_allocated, pid_no, p_task, found, history>>

\* A write to "pid"; sscanf() may find no number.
sets_pid(u) ==
  /\ op[u] = "pid"
  /\ Goto(u, "copy", "idle")
  /\ pid_no' \in Tasks \cup {NoTask, pid_no}
  /\ named' = named \cup {pid_no'}
  /\ Returns(u)
  /\ UNCHANGED <<loaded, alive, pid_allocated, p_task, found, added, adds, torn>>

\* A write to "nr_hashed": without a number it stays pid_allocated.
sets_nr_hashed(u) ==
  /\ op[u] = "nr_hashed"
  /\ IF pid_ns[u] = NoNs
     THEN Goto(u, "copy", "idle") /\ Returns(u)
     ELSE /\ Goto(u, "copy", "add")
          /\ \E a \in Amounts \cup {nr_hashed[u]} :
               nr_hashed' = [nr_hashed EXCEPT ![u] = a]
          /\ UNCHANGED <<op, pid_ns>>
  /\ UNCHANGED <<loaded, alive, pid_allocated, pid_no, p_task, found, history>>

\* pid_allocated + nr_hashed, which is kept in nr_hashed here, ...
loads(u) ==
  /\ Goto(u, "add", "store")
  /\ nr_hashed' = [nr_hashed EXCEPT
       ![u] = (@ + pid_allocated[pid_ns[u]]) % Span]
  /\ added' = [n \in Namespaces |->
       IF ~torn /\ NsOf[pid_no] = n
       THEN (added[n] + nr_hashed[u]) % Span ELSE added[n]]
  /\ UNCHANGED <<loaded, alive, pid_allocated, pid_no, p_task, op, found,
                 pid_ns, named, adds, torn>>

\* Mutant: pid_allocated is set to what was written.
stores_Sets(u) ==
  /\ Goto(u, "store", "idle")
  /\ pid_allocated' = [pid_allocated EXCEPT
       ![pid_ns[u]] = (nr_hashed[u] + Span - @) % Span]
  /\ Returns(u)
  /\ UNCHANGED <<loaded, alive, pid_no, p_task, found, history>>

\* ... and is stored.
stores(u) ==
  /\ Goto(u, "store", "idle")
  /\ pid_allocated' = [pid_allocated EXCEPT ![pid_ns[u]] = nr_hashed[u]]
  /\ Returns(u)
  /\ UNCHANGED <<loaded, alive, pid_no, p_task, found, history>>

---------------------------------------------------------------------------
Access(u) ==
  \/ \E o \in {"read", "pid", "nr_hashed"} : begins(u, o)
  \/ loads_pid(u) \/ finds(u) \/ stores_task(u) \/ uses(u) \/ returns(u)
  \/ sets_pid(u) \/ sets_nr_hashed(u) \/ loads(u) \/ stores(u)

Next ==
  \/ my_init \/ my_exit
  \/ \E t \in Tasks : exit(t)
  \/ \E u \in Users : Access(u)

Spec == Init /\ [][Next]_vars

---------------------------------------------------------------------------
(***************************************************************************)
(* pid_no is looked at twice and p_task is shared, but as long as every    *)
(* pid that was written since the module was loaded is that of a process   *)
(* that still lives, no access meets a NULL.                               *)
(***************************************************************************)
NoOopsWhileNamedLive ==
  named \subseteq alive => \A u \in Users : pc[u] # "oops"

(***************************************************************************)
(* If no addition overlapped with another access or with an exit,          *)
(* pid_allocated is the number of living processes of the namespace plus   *)
(* what was written for processes of that namespace, modulo the width of   *)
(* an unsigned int.                                                        *)
(***************************************************************************)
AddsAddUp ==
  ~torn /\ (\A u \in Users : pc[u] # "store") =>
    \A n \in Namespaces : pid_allocated[n] = (Living(n) + added[n]) % Span
=============================================================================
