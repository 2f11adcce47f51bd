------------------------------ MODULE IrqProofs ------------------------------
(***************************************************************************)
(* Proofs about the interrupt handler with two bottom halves, for every    *)
(* number of processors and of interrupts.                                 *)
(***************************************************************************)
EXTENDS IrqDelayed, FiniteSetTheorems, TLAPS

USE IrqAssumption

\* 1 when the condition holds: an increment of a counter that is still due.
Due(b) == IF b THEN 1 ELSE 0

Counting == {c \in Cpus : wpc[c] = "count"}

(***************************************************************************)
(* The inductive invariant.  Before the interrupt is requested nothing has *)
(* happened; then every interrupt is counted once, every deferred call     *)
(* that is still due is one the top half has already been counted for, and *)
(* a bottom half that is behind is pending, running or about to be         *)
(* scheduled.  my_exit() undoes this in order.                             *)
(***************************************************************************)
LoaderInv ==
  /\ phase = "init" => /\ ~registered /\ raised = 0 /\ ipc = 0 /\ step \in 1 .. 3
                       /\ ~sched /\ tpc = "idle"
                       /\ pending = NoCpu /\ \A c \in Cpus : wpc[c] = "idle"
                       /\ counter_th = 0 /\ counter_bh = 0 /\ counter_wq = 0
  /\ phase = "exit" /\ step > 1 => ~registered
  /\ phase = "exit" /\ step > 2 => ipc = 0
  /\ phase = "exit" /\ step > 3 => report.th = raised
  /\ phase = "gone" => /\ ~registered /\ ipc = 0 /\ report.th = raised
                       /\ pending = NoCpu /\ \A c \in Cpus : wpc[c] = "idle"
  /\ ipc # 0 => icpu \in Cpus

CountInv ==
  /\ counter_th + Due(ipc = 1) = raised
  /\ counter_bh + Due(sched) + Due(tpc = "count") + Due(ipc \in 2 .. 3)
       <= counter_th
  /\ counter_wq + Due(pending # NoCpu) + Cardinality(Counting)
       + Due(ipc \in 2 .. 4) <= counter_th

SeenInv ==
  /\ ipc \in 1 .. 3 \/ sched \/ tpc # "idle" \/ t_seen = my_data
  /\ ipc \in 1 .. 4 \/ pending # NoCpu \/ (\E c \in Cpus : wpc[c] # "idle")
       \/ w_seen = my_data

IInv == TypeOK /\ LoaderInv /\ CountInv /\ SeenInv

LEMMA Orders ==
  /\ InitOrder[1] = "create_workqueue" /\ InitOrder[2] = "counters"
  /\ InitOrder[3] = "request_irq" /\ Len(InitOrder) = 3
  /\ ExitOrder[1] = "free_irq" /\ ExitOrder[2] = "synchronize_irq"
  /\ ExitOrder[3] = "report" /\ ExitOrder[4] = "destroy_workqueue"
  /\ Len(ExitOrder) = 4
  /\ TopHalf[1] = "count" /\ TopHalf[2] = "stamp" /\ TopHalf[3] = "tasklet"
  /\ TopHalf[4] = "work" /\ TopHalf[5] = "delay" /\ Len(TopHalf) = 5
  BY DEF InitOrder, ExitOrder, TopHalf

LEMMA DueNat == ASSUME NEW b PROVE Due(b) \in {0, 1}
  BY DEF Due

LEMMA CountingFinite ==
  IsFiniteSet(Counting) /\ Cardinality(Counting) \in Nat
  <1>1. Counting \subseteq Cpus
    BY DEF Counting
  <1>2. IsFiniteSet(Counting)
    BY <1>1, FS_Subset
  <1> QED
    BY <1>2, FS_CardinalityType

LEMMA InitIInv == Init => IInv
  <1> SUFFICES ASSUME Init PROVE IInv
    OBVIOUS
  <1>1. Counting = {}
    BY DEF Init, Counting
  <1>2. Cardinality(Counting) = 0
    BY <1>1, FS_EmptySet
  <1>3. TypeOK
    <2>1. registered \in BOOLEAN /\ my_workqueue \in BOOLEAN /\ sched \in BOOLEAN
      BY Zenon DEF Init
    <2>2. report \in [th : 0 .. MaxIrq, wq : 0 .. MaxIrq, bh : 0 .. MaxIrq]
      BY DEF Init
    <2>3. wpc \in [Cpus -> BhPc] /\ tpc \in BhPc
      BY DEF Init, BhPc
    <2> QED
      BY <2>1, <2>2, <2>3 DEF Init, TypeOK
  <1>4. LoaderInv
    BY DEF Init, LoaderInv
  <1>5. CountInv
    BY <1>2 DEF Init, CountInv, Due
  <1>6. SeenInv
    BY DEF Init, SeenInv
  <1> QED
    BY <1>3, <1>4, <1>5, <1>6 DEF IInv

LEMMA InitStep == ASSUME IInv, my_init PROVE IInv'
  <1> USE DEF irqVars, taskletVars, workVars, counterVars
  <1>1. phase = "init" /\ step \in 1 .. 3
    BY DEF my_init, IInv, LoaderInv
  <1>2. /\ UNCHANGED <<report, raised, ipc, icpu, my_data, sched, tpc, t_seen,
                       pending, wpc, w_seen>>
        /\ UNCHANGED <<counter_th, counter_bh, counter_wq>>
        /\ registered' \in BOOLEAN /\ my_workqueue' \in BOOLEAN
        /\ step < 3 => registered' = registered
        /\ \/ step < 3 /\ phase' = "init" /\ step' = step + 1
           \/ step = 3 /\ phase' = "live" /\ step' = 1
    <2>1. /\ registered \in BOOLEAN /\ my_workqueue \in BOOLEAN
          /\ counter_th = 0 /\ counter_bh = 0 /\ counter_wq = 0
      BY <1>1 DEF IInv, LoaderInv, TypeOK
    <2>2. CASE step = 1
      BY <1>1, <2>1, <2>2, Orders DEF my_init
    <2>3. CASE step = 2
      BY <1>1, <2>1, <2>3, Orders DEF my_init
    <2>4. CASE step = 3
      BY <1>1, <2>1, <2>4, Orders DEF my_init
    <2> QED
      BY <1>1, <2>2, <2>3, <2>4
  <1>3. Counting' = Counting
    BY <1>2 DEF Counting
  <1>4. TypeOK'
    BY <1>1, <1>2 DEF IInv, TypeOK
  <1>5. LoaderInv'
    BY <1>1, <1>2 DEF IInv, LoaderInv
  <1>6. CountInv' /\ SeenInv'
    BY <1>2, <1>3 DEF IInv, CountInv, SeenInv, Due
  <1> QED
    BY <1>4, <1>5, <1>6 DEF IInv

LEMMA ExitStep == ASSUME IInv, my_exit PROVE IInv'
  <1> USE DEF irqVars, taskletVars, workVars, counterVars
  <1>1. phase = "exit" /\ step \in 1 .. 4
    BY DEF my_exit, IInv, TypeOK
  <1>2. /\ UNCHANGED <<raised, ipc, icpu, my_data, sched, tpc, t_seen,
                       pending, wpc, w_seen, counter_th, counter_bh, counter_wq>>
        /\ my_workqueue' \in BOOLEAN
        /\ step = 1 => ~registered'
        /\ step # 1 => registered' = registered
        /\ registered' \in BOOLEAN
        /\ step = 2 => ipc = 0
        /\ report' = IF step = 3 THEN [th |-> counter_th, wq |-> counter_wq,
                                       bh |-> counter_bh]
                                 ELSE report
        /\ step = 4 => pending = NoCpu /\ \A c \in Cpus : wpc[c] = "idle"
        /\ \/ step < 4 /\ phase' = "exit" /\ step' = step + 1
           \/ step = 4 /\ phase' = "gone" /\ step' = 4
    <2>1. my_workqueue \in BOOLEAN /\ registered \in BOOLEAN
      BY DEF IInv, TypeOK
    <2>2. CASE step = 1
      <3>1. registered' = FALSE
        BY <2>2, Orders DEF my_exit
      <3>2. registered' \in BOOLEAN /\ ~registered'
        BY <3>1, Zenon
      <3> QED
        BY <1>1, <2>1, <2>2, <3>2, Orders DEF my_exit
    <2>3. CASE step = 2
      BY <1>1, <2>1, <2>3, Orders DEF my_exit
    <2>4. CASE step = 3
      BY <1>1, <2>1, <2>4, Orders DEF my_exit
    <2>5. CASE step = 4
      BY <1>1, <2>1, <2>5, Orders DEF my_exit
    <2> QED
      BY <1>1, <2>2, <2>3, <2>4, <2>5
  <1>3. Counting' = Counting
    BY <1>2 DEF Counting
  <1>4. report' \in [th : 0 .. MaxIrq, wq : 0 .. MaxIrq, bh : 0 .. MaxIrq]
    BY <1>2 DEF IInv, TypeOK
  <1>5. TypeOK'
    BY <1>1, <1>2, <1>4 DEF IInv, TypeOK
  <1>6. step > 2 => counter_th = raised
    BY <1>1 DEF IInv, LoaderInv, CountInv, Due, TypeOK
  <1>7. LoaderInv'
    BY <1>1, <1>2, <1>6 DEF IInv, LoaderInv
  <1>8. CountInv' /\ SeenInv'
    BY <1>2, <1>3 DEF IInv, CountInv, SeenInv, Due
  <1> QED
    BY <1>5, <1>7, <1>8 DEF IInv

LEMMA InterruptStep ==
  ASSUME IInv, NEW c \in Cpus, Interrupt(c) PROVE IInv'
  <1> USE DEF loaderVars, taskletVars, workVars, counterVars
  <1>1. /\ registered /\ ipc = 0 /\ raised < MaxIrq
        /\ raised' = raised + 1 /\ ipc' = 1 /\ icpu' = c
        /\ UNCHANGED <<my_data, phase, step, registered, my_workqueue, report,
                       counter_th, counter_bh, counter_wq, sched, tpc, t_seen,
                       pending, wpc, w_seen>>
    BY DEF Interrupt
  <1>2. Counting' = Counting
    BY <1>1 DEF Counting
  <1>3. TypeOK'
    BY <1>1 DEF IInv, TypeOK
  <1>4. LoaderInv'
    BY <1>1 DEF IInv, LoaderInv, TypeOK
  <1>5. CountInv' /\ SeenInv'
    BY <1>1, <1>2 DEF IInv, CountInv, SeenInv, Due, TypeOK
  <1> QED
    BY <1>3, <1>4, <1>5 DEF IInv

LEMMA TopHalfStep == ASSUME IInv, my_interrupt PROVE IInv'
  <1> USE DEF loaderVars
  <1>1. /\ ipc \in 1 .. 5
        /\ UNCHANGED <<phase, step, registered, my_workqueue, report, raised,
                       counter_bh, counter_wq, tpc, t_seen, wpc, w_seen>>
        /\ counter_th' = IF ipc = 1 THEN counter_th + 1 ELSE counter_th
        /\ my_data' = IF ipc = 2 THEN raised ELSE my_data
        /\ ipc = 3 => sched'
        /\ ipc # 3 => sched' = sched
        /\ sched' \in BOOLEAN
        /\ pending' = IF ipc = 4 /\ pending = NoCpu THEN icpu ELSE pending
        /\ ipc' = IF ipc < 5 THEN ipc + 1 ELSE 0
        /\ icpu' = IF ipc < 5 THEN icpu ELSE NoCpu
    <2>1. ipc \in 1 .. 5 /\ sched \in BOOLEAN
      BY DEF my_interrupt, IInv, TypeOK
    <2>2. CASE ipc = 1
      BY <2>1, <2>2, Orders DEF my_interrupt
    <2>3. CASE ipc = 2
      BY <2>1, <2>3, Orders DEF my_interrupt
    <2>4. CASE ipc = 3
      BY <2>1, <2>4, Orders DEF my_interrupt
    <2>5. CASE ipc = 4
      BY <2>1, <2>5, Orders DEF my_interrupt
    <2>6. CASE ipc = 5
      BY <2>1, <2>6, Orders DEF my_interrupt
    <2> QED
      BY <2>1, <2>2, <2>3, <2>4, <2>5, <2>6
  <1>2. Counting' = Counting
    BY <1>1 DEF Counting
  <1>3. icpu \in Cpus /\ phase # "init" /\ phase # "gone"
    BY <1>1 DEF IInv, LoaderInv
  <1>4. counter_th' \in 0 .. MaxIrq
    BY <1>1 DEF IInv, TypeOK, CountInv, Due
  <1>5. TypeOK'
    BY <1>1, <1>3, <1>4 DEF IInv, TypeOK
  <1>6. LoaderInv'
    BY <1>1, <1>3 DEF IInv, LoaderInv, TypeOK
  <1>7. CountInv'
    <2>1. Cardinality(Counting) \in Nat
      BY CountingFinite
    <2> QED
      BY <1>1, <1>2, <1>3, <2>1 DEF IInv, CountInv, Due, TypeOK
  <1>8. SeenInv'
    BY <1>1, <1>3 DEF IInv, SeenInv, TypeOK
  <1> QED
    BY <1>5, <1>6, <1>7, <1>8 DEF IInv

LEMMA TaskletStep == ASSUME IInv, tasklet_action \/ t_func PROVE IInv'
  <1> USE DEF loaderVars, irqVars, workVars, counterVars
  <1>1. /\ phase # "gone"
        /\ UNCHANGED <<phase, step, registered, my_workqueue, report, raised,
                       ipc, icpu, my_data, pending, wpc, w_seen, counter_th,
                       counter_wq>>
        /\ \/ /\ sched /\ tpc = "idle" /\ sched' = FALSE /\ tpc' = "count"
              /\ UNCHANGED <<t_seen, counter_bh>>
           \/ /\ tpc = "count" /\ counter_bh' = counter_bh + 1
              /\ tpc' = "print" /\ UNCHANGED <<t_seen, sched>>
           \/ /\ tpc = "print" /\ t_seen' = my_data /\ tpc' = "idle"
              /\ UNCHANGED <<counter_bh, sched>>
    BY DEF tasklet_action, t_func
  <1>2. Counting' = Counting
    BY <1>1 DEF Counting
  <1>3. counter_bh' \in 0 .. MaxIrq
    BY <1>1 DEF IInv, TypeOK, CountInv, Due
  <1>4. TypeOK'
    BY <1>1, <1>3 DEF IInv, TypeOK, BhPc
  <1>5. LoaderInv'
    BY <1>1 DEF IInv, LoaderInv
  <1>6. CountInv'
    BY <1>1, <1>2 DEF IInv, CountInv, Due, TypeOK
  <1>7. SeenInv'
    BY <1>1 DEF IInv, SeenInv
  <1> QED
    BY <1>4, <1>5, <1>6, <1>7 DEF IInv

LEMMA WorkStep ==
  ASSUME IInv, NEW c \in Cpus, worker(c) \/ w_func(c) PROVE IInv'
  <1> USE DEF loaderVars, irqVars, taskletVars, counterVars
  <1>1. /\ UNCHANGED <<phase, step, registered, my_workqueue, report, raised,
                       ipc, icpu, my_data, sched, tpc, t_seen, counter_th,
                       counter_bh>>
        /\ \/ /\ pending = c /\ wpc[c] = "idle" /\ pending' = NoCpu
              /\ wpc' = [wpc EXCEPT ![c] = "count"]
              /\ UNCHANGED <<w_seen, counter_wq>>
           \/ /\ wpc[c] = "count" /\ counter_wq' = counter_wq + 1
              /\ wpc' = [wpc EXCEPT ![c] = "print"]
              /\ UNCHANGED <<w_seen, pending>>
           \/ /\ wpc[c] = "print" /\ w_seen' = my_data
              /\ wpc' = [wpc EXCEPT ![c] = "idle"]
              /\ UNCHANGED <<counter_wq, pending>>
    BY DEF worker, w_func
  <1>2. wpc \in [Cpus -> BhPc] /\ c # NoCpu
    BY DEF IInv, TypeOK
  <1>3. phase # "init" /\ phase # "gone"
    BY <1>1, <1>2 DEF IInv, LoaderInv
  <1>4. IsFiniteSet(Counting) /\ Cardinality(Counting) \in Nat
    BY CountingFinite
  <1>5. /\ wpc[c] = "idle" /\ wpc'[c] = "count" =>
             Cardinality(Counting') = Cardinality(Counting) + 1
        /\ wpc[c] = "count" /\ wpc'[c] = "print" =>
             /\ Cardinality(Counting') = Cardinality(Counting) - 1
             /\ Cardinality(Counting) > 0
        /\ wpc[c] = "print" /\ wpc'[c] = "idle" => Counting' = Counting
    <2>1. \A d \in Cpus \ {c} : wpc'[d] = wpc[d]
      BY <1>1, <1>2
    <2>2. CASE wpc[c] = "idle" /\ wpc'[c] = "count"
      <3>1. Counting' = Counting \cup {c} /\ c \notin Counting
        BY <2>1, <2>2 DEF Counting
      <3> QED
        BY <1>4, <2>2, <3>1, FS_AddElement
    <2>3. CASE wpc[c] = "count" /\ wpc'[c] = "print"
      <3>1. Counting' = Counting \ {c} /\ c \in Counting
        BY <2>1, <2>3 DEF Counting
      <3>2. Cardinality(Counting') = Cardinality(Counting) - 1
        BY <1>4, <3>1, FS_RemoveElement
      <3>3. Cardinality(Counting) # 0
        BY <1>4, <3>1, FS_EmptySet
      <3> QED
        BY <1>4, <2>3, <3>2, <3>3
    <2>4. CASE wpc[c] = "print" /\ wpc'[c] = "idle"
      BY <2>1, <2>4 DEF Counting
    <2> QED
      BY <2>2, <2>3, <2>4
  <1>6. wpc' \in [Cpus -> BhPc] /\ pending' \in Cpus \cup {NoCpu}
    BY <1>1, <1>2 DEF BhPc, IInv, TypeOK
  <1>7. CountInv'
    BY <1>1, <1>2, <1>4, <1>5 DEF IInv, CountInv, Due, TypeOK
  <1>8. counter_wq' \in 0 .. MaxIrq
    BY <1>1, <1>4, <1>5 DEF IInv, TypeOK, CountInv, Due
  <1>9. TypeOK'
    BY <1>1, <1>6, <1>8 DEF IInv, TypeOK
  <1>10. LoaderInv'
    BY <1>1, <1>3 DEF IInv, LoaderInv
  <1>11. SeenInv'
    BY <1>1, <1>2 DEF IInv, SeenInv
  <1> QED
    BY <1>7, <1>9, <1>10, <1>11 DEF IInv

LEMMA NextIInv == IInv /\ [Next]_vars => IInv'
  <1> SUFFICES ASSUME IInv, [Next]_vars PROVE IInv'
    OBVIOUS
  <1>1. CASE rmmod
    <2>1. /\ phase = "live" /\ phase' = "exit" /\ step' = 1
          /\ UNCHANGED <<registered, my_workqueue, report, counterVars, irqVars,
                         taskletVars, workVars>>
      BY <1>1 DEF rmmod
    <2> USE DEF counterVars, irqVars, taskletVars, workVars
    <2>2. Counting' = Counting
      BY <2>1 DEF Counting
    <2>3. TypeOK' /\ LoaderInv'
      BY <2>1 DEF IInv, TypeOK, LoaderInv
    <2> QED
      BY <2>1, <2>2, <2>3 DEF IInv, CountInv, SeenInv, Due
  <1>2. CASE UNCHANGED vars
    <2> USE DEF vars, loaderVars, counterVars, irqVars, taskletVars, workVars
    <2>1. Counting' = Counting
      BY <1>2 DEF Counting
    <2> QED
      BY <1>2, <2>1 DEF IInv, TypeOK, LoaderInv, CountInv, SeenInv, Due
  <1> QED
    BY <1>1, <1>2, InitStep, ExitStep, InterruptStep, TopHalfStep, TaskletStep,
       WorkStep DEF Next

(***************************************************************************)
(* What was due when my_exit() printed the counters is all that is still   *)
(* counted: no interrupt can add to it.                                    *)
(***************************************************************************)
AfterReport == phase = "gone" \/ (phase = "exit" /\ step > 3)

LagInv ==
  AfterReport =>
    /\ counter_bh + Due(sched) + Due(tpc = "count") <= report.bh + 2
    /\ counter_wq + Due(pending # NoCpu) + Cardinality(Counting)
         <= report.wq + 1 + Cardinality(Cpus)

LEMMA CountingBounded ==
  /\ Cardinality(Counting) \in Nat /\ Cardinality(Cpus) \in Nat
  /\ Cardinality(Counting) <= Cardinality(Cpus)
  <1>1. Counting \subseteq Cpus
    BY DEF Counting
  <1> QED
    BY <1>1, CountingFinite, FS_Subset, FS_CardinalityType

LEMMA ReportLag == ASSUME IInv, LagInv, my_exit PROVE LagInv'
  <1> USE DEF irqVars, taskletVars, workVars, counterVars
  <1>1. /\ phase = "exit" /\ step \in 1 .. 4
        /\ UNCHANGED <<sched, tpc, pending, wpc, counter_bh, counter_wq>>
    BY DEF my_exit, IInv, TypeOK
  <1>2. Counting' = Counting
    BY <1>1 DEF Counting
  <1>3. CASE step < 3
    <2>1. ~AfterReport'
      BY <1>1, <1>3, Orders DEF my_exit, AfterReport
    <2> QED
      BY <2>1 DEF LagInv
  <1>4. CASE step = 3
    <2>1. report'.wq = counter_wq /\ report'.bh = counter_bh
      BY <1>4, Orders DEF my_exit
    <2>2. counter_wq \in Nat /\ counter_bh \in Nat
      BY DEF IInv, TypeOK
    <2> QED
      BY <1>1, <1>2, <2>1, <2>2, CountingBounded DEF LagInv, Due
  <1>5. CASE step = 4
    <2>1. report' = report /\ AfterReport
      BY <1>1, <1>5, Orders DEF my_exit, AfterReport
    <2> QED
      BY <1>1, <1>2, <2>1 DEF LagInv, Due
  <1> QED
    BY <1>1, <1>3, <1>4, <1>5

LEMMA WorkLag ==
  ASSUME IInv, LagInv, NEW c \in Cpus, worker(c) \/ w_func(c) PROVE LagInv'
  <1> USE DEF loaderVars, irqVars, taskletVars, counterVars
  <1>1. /\ UNCHANGED <<phase, step, report, sched, tpc, counter_bh>>
        /\ AfterReport' = AfterReport
    BY DEF worker, w_func, AfterReport
  <1>2. /\ wpc \in [Cpus -> BhPc] /\ c # NoCpu /\ IsFiniteSet(Counting)
        /\ Cardinality(Counting) \in Nat /\ Cardinality(Cpus) \in Nat
        /\ counter_wq \in Nat /\ report.wq \in Nat
    BY CountingFinite, CountingBounded DEF IInv, TypeOK
  <1>3. CASE worker(c)
    <2>1. /\ pending = c /\ pending' = NoCpu /\ counter_wq' = counter_wq
          /\ Counting' = Counting \cup {c} /\ c \notin Counting
      BY <1>2, <1>3 DEF worker, Counting
    <2>2. Cardinality(Counting') = Cardinality(Counting) + 1
      BY <1>2, <2>1, FS_AddElement
    <2> QED
      BY <1>1, <1>2, <2>1, <2>2 DEF LagInv, Due
  <1>4. CASE w_func(c) /\ wpc[c] = "count"
    <2>1. /\ pending' = pending /\ counter_wq' = counter_wq + 1
          /\ Counting' = Counting \ {c} /\ c \in Counting
      BY <1>2, <1>4 DEF w_func, Counting
    <2>2. Cardinality(Counting') = Cardinality(Counting) - 1
      BY <1>2, <2>1, FS_RemoveElement
    <2> QED
      BY <1>1, <1>2, <2>1, <2>2 DEF LagInv, Due
  <1>5. CASE w_func(c) /\ wpc[c] # "count"
    <2>1. UNCHANGED <<pending, counter_wq, Counting>>
      BY <1>2, <1>5 DEF w_func, Counting
    <2> QED
      BY <1>1, <2>1 DEF LagInv, Due
  <1> QED
    BY <1>3, <1>4, <1>5

LEMMA NextLag == IInv /\ LagInv /\ [Next]_vars => LagInv'
  <1> SUFFICES ASSUME IInv, LagInv, [Next]_vars PROVE LagInv'
    OBVIOUS
  <1> USE DEF loaderVars, counterVars, irqVars, taskletVars, workVars
  <1>1. CASE my_init \/ rmmod
    <2>1. ~AfterReport'
      BY <1>1, Orders DEF my_init, rmmod, AfterReport, IInv, LoaderInv
    <2> QED
      BY <2>1 DEF LagInv
  <1>2. ASSUME NEW c \in Cpus, Interrupt(c) PROVE LagInv'
    <2>1. ~AfterReport'
      BY <1>2 DEF Interrupt, AfterReport, IInv, LoaderInv, TypeOK
    <2> QED
      BY <2>1 DEF LagInv
  <1>3. CASE my_interrupt
    <2>1. ~AfterReport'
      BY <1>3 DEF my_interrupt, AfterReport, IInv, LoaderInv, TypeOK
    <2> QED
      BY <2>1 DEF LagInv
  <1>4. CASE tasklet_action \/ t_func
    <2>1. /\ UNCHANGED <<phase, step, report, pending, counter_wq, wpc>>
          /\ \/ sched /\ tpc = "idle" /\ ~sched' /\ tpc' = "count"
                /\ UNCHANGED counter_bh
             \/ tpc = "count" /\ counter_bh' = counter_bh + 1
                /\ tpc' = "print" /\ UNCHANGED sched
             \/ tpc = "print" /\ tpc' = "idle" /\ UNCHANGED <<counter_bh, sched>>
      BY <1>4 DEF tasklet_action, t_func
    <2>2. Counting' = Counting
      BY <2>1 DEF Counting
    <2>3. counter_bh \in Nat /\ report.bh \in Nat
      BY DEF IInv, TypeOK
    <2> QED
      BY <2>1, <2>2, <2>3 DEF LagInv, AfterReport, Due
  <1>5. CASE UNCHANGED vars
    <2>1. Counting' = Counting
      BY <1>5 DEF vars, Counting
    <2> QED
      BY <1>5, <2>1 DEF vars, LagInv, AfterReport, Due
  <1> QED
    BY <1>1, <1>2, <1>3, <1>4, <1>5, ReportLag, WorkLag DEF Next

THEOREM Inductive == Spec => []IInv
  BY InitIInv, NextIInv, PTL DEF Spec

\* The variables of the handler and its bottom halves keep their types; no
\* counter exceeds the number of interrupts.
THEOREM TypeCorrect == Spec => []TypeOK
  BY Inductive, PTL DEF IInv

\* Coalescing never loses the last interrupt, on any number of processors.
THEOREM NothingLost == Spec => []NoLostInterrupt
  <1>1. IInv => NoLostInterrupt
    BY DEF IInv, SeenInv, NoLostInterrupt
  <1> QED
    BY <1>1, Inductive, PTL

\* Bottom halves run at most as often as the top half.
THEOREM Coalesced == Spec => []BottomHalvesCoalesce
  <1>1. IInv => BottomHalvesCoalesce
    BY CountingFinite DEF IInv, TypeOK, CountInv, Due, BottomHalvesCoalesce
  <1> QED
    BY <1>1, Inductive, PTL

\* my_exit() reports the final number of interrupts, and counts of the
\* bottom halves that lag behind by what was due.
THEOREM ReportExact == Spec => []ReportIsFinal
  <1>1. IInv /\ LagInv => ReportIsFinal
    <2> SUFFICES ASSUME IInv, LagInv, Reported
                 PROVE  /\ report.th = raised /\ counter_th = raised
                        /\ counter_bh <= report.bh + 2
                        /\ counter_wq <= report.wq + 1 + Cardinality(Cpus)
      BY DEF ReportIsFinal
    <2>1. AfterReport
      BY Orders DEF Reported, AfterReport, IInv, TypeOK
    <2>2. report.th = raised /\ ipc = 0
      BY <2>1 DEF AfterReport, IInv, LoaderInv, TypeOK
    <2>3. counter_th = raised
      BY <2>2 DEF IInv, CountInv, Due, TypeOK
    <2>4. /\ counter_bh \in Nat /\ counter_wq \in Nat
          /\ report.bh \in Nat /\ report.wq \in Nat
      BY DEF IInv, TypeOK
    <2> QED
      BY <2>1, <2>2, <2>3, <2>4, CountingBounded DEF LagInv, Due
  <1>2. Init => LagInv
    BY DEF Init, LagInv, AfterReport
  <1> QED
    BY <1>1, <1>2, InitIInv, NextIInv, NextLag, PTL DEF Spec

\* When the module is gone its handler and its work are.
THEOREM CleanExit == Spec => []ExitIsClean
  <1>1. IInv => ExitIsClean
    BY DEF IInv, LoaderInv, ExitIsClean
  <1> QED
    BY <1>1, Inductive, PTL
==============================================================================
