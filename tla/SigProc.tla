------------------------------ MODULE SigProc ------------------------------
(***************************************************************************)
(* filesystem/sig_proc.c: writing a number to the node "pid" chooses a     *)
(* process, writing one to the node "signal" sends it a signal.  The two   *)
(* nodes share sig_pid and sig_tsk, and nothing keeps writers apart.       *)
(*                                                                         *)
(* A task stands for its pid as well; a task that has exited is not found  *)
(* by find_pid_ns() any more, and pids are not reused.  A write that fails *)
(* with -EFAULT changes nothing.  Reading the nodes is as in ProcParam.    *)
(* External, as the code uses it: remove_proc_entry() waits for the writes *)
(* that are going on.                                                      *)
(***************************************************************************)
EXTENDS Naturals

CONSTANTS
  Writers,     \* processes that write to the nodes; their own tasks
  Targets,     \* other tasks, which may exit
  NoTask       \* NULL, and the initial sig_pid of -1

TaskAssumption ==
  /\ NoTask \notin Writers \cup Targets
  /\ Writers \cap Targets = {}

VARIABLES
  nodes,       \* the nodes that exist
  alive,       \* the tasks that exist
  sig_pid, sig_tsk,
  pc,          \* where each writer is
  tsk,         \* what it has loaded or looked up for sig_tsk
  named,       \* the process its message has named
  overlapped,  \* history: writers whose write has overlapped with another one
  disturbed,   \* history: writers that are choosing a process, and were not
               \* the only ones
  settled      \* history: every choice since the latest one that was made
               \* alone was made alone

history == <<overlapped, disturbed, settled>>
vars == <<nodes, alive, sig_pid, sig_tsk, pc, tsk, named, history>>

Processes == Writers \cup Targets
Places    == {"idle", "lookup", "find", "store",
              "test", "tsk", "pid", "print", "send"}

TypeOK ==
  /\ nodes \subseteq {"dir", "pid", "signal"}
  /\ alive \subseteq Processes
  /\ sig_pid \in Processes \cup {NoTask}
  /\ sig_tsk \in Processes \cup {NoTask}
  /\ pc \in [Writers -> Places]
  /\ tsk \in [Writers -> Processes \cup {NoTask}]
  /\ named \in [Writers -> Processes \cup {NoTask}]
  /\ overlapped \subseteq Writers /\ disturbed \subseteq Writers
  /\ settled \in BOOLEAN

Init ==
  /\ nodes = {}
  /\ alive = Processes
  /\ sig_pid = NoTask /\ sig_tsk = NoTask
  /\ pc = [w \in Writers |-> "idle"]
  /\ tsk = [w \in Writers |-> NoTask]
  /\ named = [w \in Writers |-> NoTask]
  /\ overlapped = {} /\ disturbed = {} /\ settled = TRUE

Busy     == {w \in Writers : pc[w] # "idle"}

\* The writers between their first and their last store to sig_pid and sig_tsk.
Choosing == {w \in Writers : pc[w] \in {"lookup", "find", "store", "tsk", "pid"}}

---------------------------------------------------------------------------
\* my_init() begins with the variables as the module has them.  It checks
\* none of its results: each node may be missing, and with a missing directory
\* the nodes are in /proc itself.
my_init ==
  /\ nodes = {}
  /\ \E made \in SUBSET {"pid", "signal"} : nodes' = {"dir"} \cup made
  /\ sig_pid' = NoTask /\ sig_tsk' = NoTask
  /\ settled' = TRUE
  /\ UNCHANGED <<alive, pc, tsk, named, overlapped, disturbed>>

\* remove_proc_entry() of the two nodes and of their directory.
my_exit ==
  /\ nodes # {} /\ Busy = {}
  /\ nodes' = {}
  /\ UNCHANGED <<alive, sig_pid, sig_tsk, pc, tsk, named, history>>

Goto(w, from, to) == pc[w] = from /\ pc' = [pc EXCEPT ![w] = to]

Begins(w, node) ==
  /\ node \in nodes
  /\ overlapped' = IF Busy = {} THEN overlapped
                                ELSE overlapped \cup Busy \cup {w}

Returns(w) ==
  /\ overlapped' = overlapped \ {w}
  /\ named' = [named EXCEPT ![w] = NoTask]

\* History: w begins to choose a process, and has chosen one.
StartsChoice(w) ==
  /\ disturbed' = IF Choosing = {} THEN disturbed
                                   ELSE disturbed \cup Choosing \cup {w}
  /\ settled' = (settled /\ Choosing = {})

EndsChoice(w) ==
  /\ disturbed' = disturbed \ {w}
  /\ settled' = (settled \/ w \notin disturbed)

\* A write to "pid": sscanf() stores sig_pid, if it finds a number, ...
pid_scanned(w) ==
  /\ Goto(w, "idle", "lookup")
  /\ Begins(w, "pid") /\ StartsChoice(w)
  /\ sig_pid' \in Processes \cup {NoTask}
  /\ UNCHANGED <<nodes, alive, sig_tsk, tsk, named>>

\* ... which is loaded again, whoever has stored it last, ...
pid_loads(w) ==
  /\ Goto(w, "lookup", "find")
  /\ tsk' = [tsk EXCEPT ![w] = sig_pid]
  /\ UNCHANGED <<nodes, alive, sig_pid, sig_tsk, named, history>>

\* Mutant: an error value instead of NULL.
Found_Error(pid) == IF pid \in alive THEN pid ELSE "ESRCH"

\* pid_task(find_pid_ns(pid)): NULL when there is no such process.
Found(pid) == IF pid \in alive THEN pid ELSE NoTask

\* ... its task is looked up ...
pid_finds(w) ==
  /\ Goto(w, "find", "store")
  /\ tsk' = [tsk EXCEPT ![w] = Found(@)]
  /\ UNCHANGED <<nodes, alive, sig_pid, sig_tsk, named, history>>

\* Mutant: sig_tsk is kept when there is no such process.
pid_stores_Keeps(w) ==
  /\ Goto(w, "store", "idle")
  /\ sig_tsk' = IF tsk[w] = NoTask THEN sig_tsk ELSE tsk[w]
  /\ tsk' = [tsk EXCEPT ![w] = NoTask]
  /\ Returns(w) /\ EndsChoice(w)
  /\ UNCHANGED <<nodes, alive, sig_pid>>

\* ... and stored.
pid_stores(w) ==
  /\ Goto(w, "store", "idle")
  /\ sig_tsk' = tsk[w]
  /\ tsk' = [tsk EXCEPT ![w] = NoTask]
  /\ Returns(w) /\ EndsChoice(w)
  /\ UNCHANGED <<nodes, alive, sig_pid>>

\* A write to "signal": sig_tosend is scanned, ...
signal_scanned(w) ==
  /\ Goto(w, "idle", "test")
  /\ Begins(w, "signal")
  /\ UNCHANGED <<nodes, alive, sig_pid, sig_tsk, tsk, named, disturbed, settled>>

\* ... without a task ...
signal_tests(w) ==
  /\ \/ sig_tsk = NoTask /\ Goto(w, "test", "tsk") /\ StartsChoice(w)
     \/ sig_tsk # NoTask /\ Goto(w, "test", "print")
        /\ UNCHANGED <<disturbed, settled>>
  /\ UNCHANGED <<nodes, alive, sig_pid, sig_tsk, tsk, named, overlapped>>

\* ... the writer itself is chosen, in two stores, ...
signal_stores_tsk(w) ==
  /\ Goto(w, "tsk", "pid")
  /\ sig_tsk' = w
  /\ UNCHANGED <<nodes, alive, sig_pid, tsk, named, history>>

signal_stores_pid(w) ==
  /\ Goto(w, "pid", "print")
  /\ sig_pid' = w
  /\ EndsChoice(w)
  /\ UNCHANGED <<nodes, alive, sig_tsk, tsk, named, overlapped>>

\* ... "Send signal %d to process %d\n" is printed, ...
signal_prints(w) ==
  /\ Goto(w, "print", "send")
  /\ named' = [named EXCEPT ![w] = sig_pid]
  /\ UNCHANGED <<nodes, alive, sig_pid, sig_tsk, tsk, history>>

\* ... and the signal is sent to sig_tsk.
send_sig(w) ==
  /\ Goto(w, "send", "idle")
  /\ Returns(w)
  /\ UNCHANGED <<nodes, alive, sig_pid, sig_tsk, tsk, disturbed, settled>>

\* A task exits; sig_tsk may still point to it.
exit(t) ==
  /\ t \in alive
  /\ alive' = alive \ {t}
  /\ UNCHANGED <<nodes, sig_pid, sig_tsk, pc, tsk, named, history>>

---------------------------------------------------------------------------
Write(w) ==
  \/ pid_scanned(w) \/ pid_loads(w) \/ pid_finds(w) \/ pid_stores(w)
  \/ signal_scanned(w) \/ signal_tests(w)
  \/ signal_stores_tsk(w) \/ signal_stores_pid(w)
  \/ signal_prints(w) \/ send_sig(w)

Next ==
  \/ my_init \/ my_exit
  \/ \E w \in Writers : Write(w)
  \/ \E t \in Targets : exit(t)

Spec == Init /\ [][Next]_vars

---------------------------------------------------------------------------
(***************************************************************************)
(* A write to "signal" that has the module to itself sends its signal to   *)
(* the process that it has printed, although sig_pid and sig_tsk are       *)
(* stored one after the other: they agree as long as processes are chosen  *)
(* by one writer at a time.  Two writers of "pid", or one and a writer of  *)
(* "signal" that chooses itself, can leave the pid of one process and the  *)
(* task of another; nothing repairs that but the next choice made alone,   *)
(* and that one does, whatever it finds.                                   *)
(***************************************************************************)
SignalsTheNamed ==
  \A w \in Writers \ overlapped :
    pc[w] = "send" /\ settled => sig_tsk = named[w]
=============================================================================
