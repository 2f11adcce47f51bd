----------------------------- MODULE IrqDelayed -----------------------------
(***************************************************************************)
(* An interrupt handler with two bottom halves, irq/irq_delayed.c: the top *)
(* half my_interrupt() counts and stamps the interrupt and defers work to  *)
(* a tasklet (t_func) and to a workqueue (w_func).  irq/irq_tasklet.c is   *)
(* the same code without the workqueue.                                    *)
(*                                                                         *)
(* External, modelled from how the code uses it: the interrupt line runs   *)
(* the handler once at a time; a tasklet has a SCHED bit that is cleared   *)
(* before its function runs, and it never runs on two processors at once;  *)
(* a work item has a PENDING bit that is cleared before its function runs, *)
(* it runs on the processor that queued it, and may so run on two          *)
(* processors at once.                                                     *)
(*                                                                         *)
(* jiffies is abstracted to the number of the interrupt that reads it.     *)
(***************************************************************************)
EXTENDS Naturals, Sequences, FiniteSets

CONSTANTS
  Cpus,      \* processors
  NoCpu,     \* not a processor
  MaxIrq     \* bound: interrupts in one life of the module

ASSUME IrqAssumption ==
  /\ IsFiniteSet(Cpus)
  /\ NoCpu \notin Cpus
  /\ MaxIrq \in Nat

VARIABLES
  phase,        \* of the module: "init", "live", "exit", "gone"
  step,         \* next step of my_init() or my_exit()
  registered,   \* my_interrupt is on the interrupt line
  my_workqueue, \* the workqueue exists
  raised,       \* history: interrupts delivered to my_interrupt
  counter_th, counter_bh, counter_wq,
  my_data,      \* my_data.jiffies
  ipc, icpu,    \* next step of the running top half (0: none), its processor
  sched,        \* TASKLET_STATE_SCHED
  tpc,          \* where t_func is
  pending,      \* the processor on which w_name is pending, or NoCpu
  wpc,          \* where w_func is on each processor
  t_seen,       \* history: my_data.jiffies as t_func printed it last
  w_seen,       \* history: my_data.jiffies as w_func printed it last
  report        \* the counters printed by my_exit()

loaderVars  == <<phase, step, registered, my_workqueue, report>>
counterVars == <<counter_th, counter_bh, counter_wq>>
irqVars     == <<raised, ipc, icpu, my_data>>
taskletVars == <<sched, tpc, t_seen>>
workVars    == <<pending, wpc, w_seen>>
vars == <<loaderVars, counterVars, irqVars, taskletVars, workVars>>

BhPc == {"idle", "count", "print"}

(***************************************************************************)
(* The order of the steps of the three functions.                          *)
(***************************************************************************)
InitOrder == <<"create_workqueue", "counters", "request_irq">>

\* Mutant: my_exit() prints before it has stopped the interrupt.
ExitOrder_ReportFirst ==
  <<"report", "free_irq", "synchronize_irq", "destroy_workqueue">>

\* Mutant: the workqueue goes before the interrupt that feeds it.
ExitOrder_QueueFirst ==
  <<"destroy_workqueue", "free_irq", "synchronize_irq", "report">>

\* free_irq() takes the handler off the line, then waits for a running one.
ExitOrder == <<"free_irq", "synchronize_irq", "report", "destroy_workqueue">>

\* Mutant: the data is stamped after the bottom halves were scheduled.
TopHalf_StampLate == <<"count", "tasklet", "work", "stamp", "delay">>

TopHalf == <<"count", "stamp", "tasklet", "work", "delay">>

TypeOK ==
  /\ phase \in {"init", "live", "exit", "gone"}
  /\ step \in 1 .. 4
  /\ registered \in BOOLEAN
  /\ my_workqueue \in BOOLEAN
  /\ raised \in 0 .. MaxIrq
  /\ counter_th \in 0 .. MaxIrq
  /\ counter_bh \in 0 .. MaxIrq
  /\ counter_wq \in 0 .. MaxIrq
  /\ my_data \in 0 .. MaxIrq
  /\ ipc \in 0 .. 5
  /\ icpu \in Cpus \cup {NoCpu}
  /\ sched \in BOOLEAN
  /\ tpc \in BhPc
  /\ pending \in Cpus \cup {NoCpu}
  /\ wpc \in [Cpus -> BhPc]
  /\ t_seen \in 0 .. MaxIrq
  /\ w_seen \in 0 .. MaxIrq
  /\ report \in [th : 0 .. MaxIrq, wq : 0 .. MaxIrq, bh : 0 .. MaxIrq]

Init ==
  /\ phase = "init" /\ step = 1
  /\ registered = FALSE /\ my_workqueue = FALSE
  /\ raised = 0
  /\ counter_th = 0 /\ counter_bh = 0 /\ counter_wq = 0
  /\ my_data = 0
  /\ ipc = 0 /\ icpu = NoCpu
  /\ sched = FALSE /\ tpc = "idle"
  /\ pending = NoCpu /\ wpc = [c \in Cpus |-> "idle"]
  /\ t_seen = 0 /\ w_seen = 0
  /\ report = [th |-> 0, wq |-> 0, bh |-> 0]

---------------------------------------------------------------------------
\* my_init(): a request_irq() that fails is not noticed.
my_init ==
  /\ phase = "init"
  /\ \/ /\ InitOrder[step] = "create_workqueue"
        /\ my_workqueue' = TRUE
        /\ UNCHANGED <<registered, counterVars>>
     \/ /\ InitOrder[step] = "counters"
        /\ counter_th' = 0 /\ counter_bh' = 0 /\ counter_wq' = 0
        /\ UNCHANGED <<registered, my_workqueue>>
     \/ /\ InitOrder[step] = "request_irq"
        /\ registered' \in BOOLEAN
        /\ UNCHANGED <<my_workqueue, counterVars>>
  /\ IF step < Len(InitOrder) THEN step' = step + 1 /\ phase' = phase
                              ELSE step' = 1 /\ phase' = "live"
  /\ UNCHANGED <<report, irqVars, taskletVars, workVars>>

rmmod ==
  /\ phase = "live"
  /\ phase' = "exit" /\ step' = 1
  /\ UNCHANGED <<registered, my_workqueue, report, counterVars, irqVars,
                 taskletVars, workVars>>

\* my_exit(); the text of the module is freed after its last step.
my_exit ==
  /\ phase = "exit"
  /\ \/ /\ ExitOrder[step] = "free_irq"
        /\ registered' = FALSE
        /\ UNCHANGED <<my_workqueue, report>>
     \/ /\ ExitOrder[step] = "synchronize_irq"
        /\ ipc = 0
        /\ UNCHANGED <<registered, my_workqueue, report>>
     \/ /\ ExitOrder[step] = "report"
        /\ report' = [th |-> counter_th, wq |-> counter_wq, bh |-> counter_bh]
        /\ UNCHANGED <<registered, my_workqueue>>
     \/ /\ ExitOrder[step] = "destroy_workqueue"    \* waits until it is empty
        /\ pending = NoCpu /\ \A c \in Cpus : wpc[c] = "idle"
        /\ my_workqueue' = FALSE
        /\ UNCHANGED <<registered, report>>
  /\ IF step < Len(ExitOrder) THEN step' = step + 1 /\ phase' = phase
                              ELSE step' = step /\ phase' = "gone"
  /\ UNCHANGED <<counterVars, irqVars, taskletVars, workVars>>

---------------------------------------------------------------------------
\* The line is raised and the kernel calls my_interrupt() on processor c.
Interrupt(c) ==
  /\ registered
  /\ ipc = 0
  /\ raised < MaxIrq
  /\ raised' = raised + 1
  /\ ipc' = 1 /\ icpu' = c
  /\ UNCHANGED <<my_data, loaderVars, counterVars, taskletVars, workVars>>

my_interrupt ==
  /\ ipc # 0
  /\ \/ /\ TopHalf[ipc] = "count"
        /\ counter_th' = counter_th + 1
        /\ UNCHANGED <<my_data, sched, pending>>
     \/ /\ TopHalf[ipc] = "stamp"
        /\ my_data' = raised
        /\ UNCHANGED <<counter_th, sched, pending>>
     \/ /\ TopHalf[ipc] = "tasklet"                 \* tasklet_schedule()
        /\ sched' = TRUE
        /\ UNCHANGED <<counter_th, my_data, pending>>
     \/ /\ TopHalf[ipc] = "work"                    \* queue_work()
        /\ pending' = IF pending = NoCpu THEN icpu ELSE pending
        /\ UNCHANGED <<counter_th, my_data, sched>>
     \/ /\ TopHalf[ipc] = "delay"                   \* mdelay(delay)
        /\ UNCHANGED <<counter_th, my_data, sched, pending>>
  /\ ipc' = IF ipc < Len(TopHalf) THEN ipc + 1 ELSE 0
  /\ icpu' = IF ipc < Len(TopHalf) THEN icpu ELSE NoCpu
  /\ UNCHANGED <<loaderVars, raised, counter_bh, counter_wq, tpc, t_seen,
                 wpc, w_seen>>

---------------------------------------------------------------------------
\* The tasklet is taken off its list and t_func() called, while there is a
\* t_func() to call.
tasklet_action ==
  /\ phase # "gone"
  /\ sched /\ tpc = "idle"
  /\ sched' = FALSE
  /\ tpc' = "count"
  /\ UNCHANGED <<t_seen, loaderVars, counterVars, irqVars, workVars>>

\* t_func(): count, and print what was stamped last.
t_func ==
  /\ phase # "gone"
  /\ \/ /\ tpc = "count"
        /\ counter_bh' = counter_bh + 1
        /\ tpc' = "print"
        /\ UNCHANGED t_seen
     \/ /\ tpc = "print"
        /\ t_seen' = my_data
        /\ tpc' = "idle"
        /\ UNCHANGED counter_bh
  /\ UNCHANGED <<sched, counter_th, counter_wq, loaderVars, irqVars, workVars>>

\* The worker of processor c takes the work item.
worker(c) ==
  /\ my_workqueue
  /\ pending = c /\ wpc[c] = "idle"
  /\ pending' = NoCpu
  /\ wpc' = [wpc EXCEPT ![c] = "count"]
  /\ UNCHANGED <<w_seen, loaderVars, counterVars, irqVars, taskletVars>>

\* Mutant: the work queues itself again until an interrupt comes.
w_func_Again(c) ==
  /\ \/ /\ wpc[c] = "count"
        /\ counter_wq' = counter_wq
        /\ wpc' = [wpc EXCEPT ![c] = "print"]
        /\ UNCHANGED <<w_seen, pending>>
     \/ /\ wpc[c] = "print"
        /\ w_seen' = my_data
        /\ wpc' = [wpc EXCEPT ![c] = "idle"]
        /\ pending' = c
        /\ UNCHANGED counter_wq
  /\ UNCHANGED <<counter_th, counter_bh, loaderVars, irqVars, taskletVars>>

\* w_func() on processor c.
w_func(c) ==
  /\ \/ /\ wpc[c] = "count"
        /\ counter_wq' = counter_wq + 1
        /\ wpc' = [wpc EXCEPT ![c] = "print"]
        /\ UNCHANGED w_seen
     \/ /\ wpc[c] = "print"
        /\ w_seen' = my_data
        /\ wpc' = [wpc EXCEPT ![c] = "idle"]
        /\ UNCHANGED counter_wq
  /\ UNCHANGED <<pending, counter_th, counter_bh, loaderVars, irqVars,
                 taskletVars>>

---------------------------------------------------------------------------
Next ==
  \/ my_init \/ rmmod \/ my_exit
  \/ my_interrupt \/ tasklet_action \/ t_func
  \/ \E c \in Cpus : Interrupt(c) \/ worker(c) \/ w_func(c)

Spec == Init /\ [][Next]_vars

\* Processors run: code that was started goes on, softirqs and workers are
\* scheduled.  Nothing makes interrupts come or an administrator unload.
Fairness ==
  /\ WF_vars(my_init) /\ WF_vars(my_exit)
  /\ WF_vars(my_interrupt)
  /\ WF_vars(tasklet_action) /\ WF_vars(t_func)
  /\ \A c \in Cpus : WF_vars(worker(c)) /\ WF_vars(w_func(c))

FairSpec == Spec /\ Fairness

---------------------------------------------------------------------------
(***************************************************************************)
(* Coalescing loses invocations, never the last interrupt: once the top    *)
(* half has returned and a bottom half is neither pending nor running, the *)
(* stamp it printed last is that of the latest interrupt.                  *)
(***************************************************************************)
NoLostInterrupt ==
  /\ ipc = 0 /\ ~sched /\ tpc = "idle" => t_seen = my_data
  /\ ipc = 0 /\ pending = NoCpu /\ (\A c \in Cpus : wpc[c] = "idle")
       => w_seen = my_data

(***************************************************************************)
(* A bottom half never runs more often than the top half: the counters     *)
(* that t_func() and w_func() print beside counter_th are at most that.    *)
(***************************************************************************)
BottomHalvesCoalesce == counter_bh <= counter_th /\ counter_wq <= counter_th

(***************************************************************************)
(* my_exit() prints a counter_th that is final and is the number of        *)
(* interrupts that were delivered.  The other two counters may still grow  *)
(* after they were printed, but only by what was due at that time: a       *)
(* tasklet that runs and one that is scheduled, a work item that is        *)
(* pending and one that runs on each processor.                            *)
(***************************************************************************)
Reported ==
  phase = "gone" \/ \E i \in 1 .. step - 1 : phase = "exit" /\ ExitOrder[i] = "report"

ReportIsFinal ==
  Reported =>
    /\ report.th = raised /\ counter_th = raised
    /\ counter_bh <= report.bh + 2
    /\ counter_wq <= report.wq + 1 + Cardinality(Cpus)

(***************************************************************************)
(* When the module's text is freed neither my_interrupt() nor w_func()     *)
(* runs or can be started.  (t_func() may: there is no tasklet_kill().)    *)
(***************************************************************************)
ExitIsClean ==
  phase = "gone" =>
    /\ ~registered /\ ipc = 0
    /\ pending = NoCpu /\ \A c \in Cpus : wpc[c] = "idle"

(***************************************************************************)
(* Every interrupt, or a later one, is eventually printed by w_func(),     *)
(* also when the module is being unloaded, because destroy_workqueue()     *)
(* drains; and by t_func(), unless the module is unloaded first.           *)
(***************************************************************************)
BottomHalvesFollow ==
  \A k \in 1 .. MaxIrq :
    /\ raised >= k ~> w_seen >= k
    /\ raised >= k ~> (t_seen >= k \/ phase = "gone")

(***************************************************************************)
(* rmmod ends: free_irq() and destroy_workqueue() do not wait for ever.    *)
(***************************************************************************)
ExitEnds == phase = "exit" ~> phase = "gone"
=============================================================================
