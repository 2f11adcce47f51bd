------------------------------ MODULE ProcNodes ------------------------------
(***************************************************************************)
(* The modules that add nodes to /proc: ProcParam, SigProc and TaskProc.   *)
(* They share no state; example says which of them runs, so that the       *)
(* states of one are not multiplied by those of the others.                *)
(***************************************************************************)
EXTENDS Naturals, FiniteSets, Sequences

CONSTANTS
  Nodes, Readers, Values, Initial, strlen,          \* of ProcParam
  SigWriters, Targets,                              \* of SigProc
  NoTask,
  Users, Tasks, Namespaces, NoNs, NsOf, Amounts, Span, MaxAdds

VARIABLES
  example,
  created, parLoaded, param, parPc, node, offset, got, fault, first, stable,
  nodes, alive, sig_pid, sig_tsk, sigPc, tsk, named, overlapped, disturbed,
  settled,
  taskLoaded, taskAlive, pid_allocated, pid_no, p_task, taskPc, op, found,
  pid_ns, nr_hashed, pidsNamed, added, adds, torn

Par  == INSTANCE ProcParam WITH loaded <- parLoaded, pc <- parPc
Sig  == INSTANCE SigProc WITH Writers <- SigWriters, pc <- sigPc
Task == INSTANCE TaskProc WITH
          loaded <- taskLoaded, alive <- taskAlive, pc <- taskPc,
          named <- pidsNamed

ASSUME ProcAssumption ==
  Par!ParamAssumption /\ Sig!TaskAssumption /\ Task!TaskProcAssumption

parVars  == <<created, parLoaded, param, parPc, node, offset, got, fault,
              first, stable>>
sigVars  == <<nodes, alive, sig_pid, sig_tsk, sigPc, tsk, named, overlapped,
              disturbed, settled>>
taskVars == <<taskLoaded, taskAlive, pid_allocated, pid_no, p_task, taskPc, op,
              found, pid_ns, nr_hashed, pidsNamed, added, adds, torn>>
procVars == <<example, parVars, sigVars, taskVars>>

ProcInit ==
  /\ example \in {"my_new_proc", "sig_proc", "task_proc"}
  /\ Par!Init /\ Sig!Init /\ Task!Init

ProcNext ==
  \/ /\ example = "my_new_proc" /\ Par!Next
     /\ UNCHANGED <<example, sigVars, taskVars>>
  \/ /\ example = "sig_proc" /\ Sig!Next
     /\ UNCHANGED <<example, parVars, taskVars>>
  \/ /\ example = "task_proc" /\ Task!Next
     /\ UNCHANGED <<example, parVars, sigVars>>

ProcSpec == ProcInit /\ [][ProcNext]_procVars /\ Par!Fairness

\* The type invariants of the three modules.
ProcTypeOK == Par!TypeOK /\ Sig!TypeOK /\ Task!TypeOK

\* The properties, stated in full in the modules.
\* my_proc_read() gives an undisturbed reader the parameter exactly once.
ReadOnce == Par!ReadOnce

\* Reading my_proc_read() until it returns 0 comes to an end.
ReadingEnds == Par!ReadingEnds

\* A write to "signal" that is alone signals the process it has printed, if
\* processes were chosen by one writer at a time.
SignalsTheNamed == Sig!SignalsTheNamed

\* No access to task_proc's nodes dereferences NULL while all processes that
\* were named live.
NoOopsWhileNamedLive == Task!NoOopsWhileNamedLive

\* Additions to pid_allocated that did not overlap add up.
AddsAddUp == Task!AddsAddUp
=============================================================================
