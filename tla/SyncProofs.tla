----------------------------- MODULE SyncProofs -----------------------------
(***************************************************************************)
(* Proofs about the synchronization examples, for every finite set of      *)
(* openers and every number of processors: the units of the semaphore of   *)
(* Sema are accounted for, and the sleeper of SpinDead keeps everybody     *)
(* from the lock.                                                          *)
(***************************************************************************)
EXTENDS MCSync, FiniteSetTheorems, TLAPS

---------------------------------------------------------------------------
(***************************************************************************)
(* Sema.  Nobody can hold the semaphore or wait for it while module 1 is   *)
(* not there to own it, and only a module 2 that finds it used up waits.   *)
(* The openers that will give without having taken are bounded with the    *)
(* gifts.                                                                  *)
(***************************************************************************)
SemInv ==
  /\ TypeOK
  /\ UnitsAccounted
  /\ gifts + Cardinality(At("failed")) <= MaxOpens
  /\ waiting => mod2 = "init" /\ count = 0
  /\ mod1 # "holds" =>
       /\ ~device /\ mod2 = "out"
       /\ \A o \in Openers : pc[o] = "closed"

LEMMA AtFinite ==
  ASSUME SemaAssumption, NEW s
  PROVE  /\ IsFiniteSet(At(s)) /\ Cardinality(At(s)) \in Nat
         /\ (\A o \in Openers : pc[o] # s) => Cardinality(At(s)) = 0
  <1>1. IsFiniteSet(At(s))
    <2>1. At(s) \in SUBSET Openers /\ IsFiniteSet(Openers)
      BY SemaAssumption DEF SemaAssumption, At
    <2> QED
      BY <2>1, FS_Subset
  <1>2. (\A o \in Openers : pc[o] # s) => At(s) = {}
    BY DEF At
  <1> QED
    BY <1>1, <1>2, FS_EmptySet, FS_CardinalityType

LEMMA HoldersAt ==
  Holders = Cardinality(At("got"))
                  + (IF mod1 \in {"holds", "exit"} THEN 1 ELSE 0)
                  + (IF mod2 = "in" THEN 1 ELSE 0)
  BY DEF Holders

LEMMA Module1Step == ASSUME SemaAssumption, SemInv, Module1 PROVE SemInv'
  <1> USE DEF SemInv, TypeOK
  <1>1. /\ Cardinality(At("got")) \in Nat /\ Cardinality(At("failed")) \in Nat
        /\ (\A o \in Openers : pc[o] = "closed") =>
             Cardinality(At("got")) = 0 /\ Cardinality(At("failed")) = 0
    BY AtFinite
  <1>2. At("got")' = At("got") /\ At("failed")' = At("failed")
    BY DEF Module1, mod1_sema_init, mod1_init, mod1_unregister,
           mod1_exit, At
  <1>3. Holders' = Cardinality(At("got"))
          + (IF mod1' \in {"holds", "exit"} THEN 1 ELSE 0)
          + (IF mod2' = "in" THEN 1 ELSE 0)
    BY <1>2 DEF Holders
  <1>a. MaxOpens \in Nat
    BY SemaAssumption DEF SemaAssumption
  <1>4. CASE mod1_sema_init
    BY <1>a, <1>1, <1>2, <1>3, <1>4
       DEF mod1_sema_init, UnitsAccounted
  <1>5. CASE mod1_init
    BY <1>1, <1>2, <1>3, <1>5, HoldersAt
       DEF mod1_init, Down, UnitsAccounted
  <1>6. CASE mod1_unregister
    BY <1>1, <1>2, <1>3, <1>6, HoldersAt
       DEF mod1_unregister, UnitsAccounted
  <1>7. CASE mod1_exit
    BY <1>1, <1>2, <1>3, <1>7, HoldersAt
       DEF mod1_exit, Up, UnitsAccounted
  <1> QED
    BY <1>4, <1>5, <1>6, <1>7 DEF Module1

LEMMA Module2Step == ASSUME SemaAssumption, SemInv, Module2 PROVE SemInv'
  <1> USE DEF SemInv, TypeOK
  <1>1. Cardinality(At("got")) \in Nat /\ Cardinality(At("failed")) \in Nat
    BY AtFinite
  <1>2. At("got")' = At("got") /\ At("failed")' = At("failed")
    BY DEF Module2, mod2_insmod, mod2_gets, mod2_waits,
           mod2_signal, mod2_exit, At
  <1>3. Holders' = Cardinality(At("got"))
          + (IF mod1' \in {"holds", "exit"} THEN 1 ELSE 0)
          + (IF mod2' = "in" THEN 1 ELSE 0)
    BY <1>2 DEF Holders
  <1>4. CASE mod2_insmod
    BY <1>1, <1>2, <1>3, <1>4, HoldersAt DEF mod2_insmod, UnitsAccounted
  <1>8. CASE mod2_waits
    BY <1>1, <1>2, <1>3, <1>8, HoldersAt DEF mod2_waits, UnitsAccounted
  <1>5. CASE mod2_gets
    BY <1>1, <1>2, <1>3, <1>5, HoldersAt
       DEF mod2_gets, Down, UnitsAccounted
  <1>6. CASE mod2_signal
    BY <1>1, <1>2, <1>3, <1>6, HoldersAt DEF mod2_signal, UnitsAccounted
  <1>7. CASE mod2_exit
    BY <1>1, <1>2, <1>3, <1>7, HoldersAt DEF mod2_exit, UnitsAccounted
  <1> QED
    BY <1>4, <1>5, <1>6, <1>7, <1>8 DEF Module2

LEMMA OpenerStep ==
  ASSUME SemaAssumption, SemInv, NEW o \in Openers, Opener(o)
  PROVE  SemInv'
  <1> USE DEF SemInv
  <1> DEFINE got == Cardinality(At("got"))
  <1> DEFINE failed == Cardinality(At("failed"))
  <1>1. /\ got \in Nat /\ failed \in Nat
        /\ IsFiniteSet(At("got")) /\ IsFiniteSet(At("failed"))
    BY AtFinite
  <1>2. Holders' = got'
          + (IF mod1' \in {"holds", "exit"} THEN 1 ELSE 0)
          + (IF mod2' = "in" THEN 1 ELSE 0)
    BY DEF Holders
  <1>3. Holders = got
          + (IF mod1 \in {"holds", "exit"} THEN 1 ELSE 0)
          + (IF mod2 = "in" THEN 1 ELSE 0)
    BY HoldersAt
  <1>4. CASE my_open_gets(o)
    <2>1. /\ At("got")' = At("got") \cup {o} /\ o \notin At("got")
          /\ At("failed")' = At("failed")
      BY <1>4 DEF my_open_gets, At, TypeOK
    <2>2. got' = got + 1 /\ failed' = failed
      BY <1>1, <2>1, FS_AddElement
    <2> HIDE DEF got, failed
    <2> QED
      BY <1>1, <1>2, <1>3, <1>4, <2>2
         DEF my_open_gets, Down, UnitsAccounted, TypeOK, failed
  <1>5. CASE my_open_fails(o)
    <2>1. /\ At("failed")' = At("failed") \cup {o} /\ o \notin At("failed")
          /\ At("got")' = At("got")
      BY <1>5 DEF my_open_fails, At, TypeOK
    <2>2. got' = got /\ failed' = failed + 1
      BY <1>1, <2>1, FS_AddElement
    <2>3. gifts + failed < MaxOpens
      BY <1>5 DEF my_open_fails
    <2> HIDE DEF got, failed
    <2> QED
      BY <1>1, <1>2, <1>3, <1>5, <2>2, <2>3
         DEF my_open_fails, UnitsAccounted, TypeOK, SemaAssumption, failed
  <1>6. CASE my_open_ups(o) /\ pc[o] = "got"
    <2>1. /\ At("got")' = At("got") \ {o} /\ o \in At("got")
          /\ At("failed")' = At("failed")
      BY <1>6 DEF my_open_ups, At, TypeOK
    <2>2. got' = got - 1 /\ failed' = failed
      BY <1>1, <2>1, FS_RemoveElement
    <2>3. mod1 = "holds" /\ mod1' = mod1 /\ device' = device
      BY <1>6 DEF my_open_ups
    <2>4. \/ waiting' = FALSE /\ mod2 = "init" /\ mod2' = "in" /\ count' = count
          \/ ~waiting /\ ~waiting' /\ mod2' = mod2 /\ count' = count + 1
      BY <1>6 DEF my_open_ups, Up, TypeOK
    <2>5. pc' \in [Openers -> {"closed", "got", "failed", "open"}]
      BY <1>6 DEF my_open_ups, TypeOK
    <2>6. gifts' = gifts
      BY <1>6 DEF my_open_ups
    <2> HIDE DEF got, failed
    <2>7. UnitsAccounted'
      BY <1>1, <1>2, <1>3, <2>2, <2>3, <2>4, <2>5, <2>6
         DEF UnitsAccounted, TypeOK
    <2>8. TypeOK' /\ gifts' + failed' <= MaxOpens
      <3>1. waiting' \in BOOLEAN /\ device' \in BOOLEAN
        BY <1>6 DEF my_open_ups, Up, TypeOK
      <3>2. gifts' \in 0 .. MaxOpens /\ gifts' + failed' <= MaxOpens
        BY <1>1, <2>2, <2>6 DEF TypeOK, SemaAssumption, failed
      <3>3. /\ count' \in Nat /\ mod1' \in {"out", "init", "holds", "exit"}
            /\ mod2' \in {"out", "init", "in"}
        BY <2>3, <2>4 DEF TypeOK
      <3> QED
        BY <2>5, <3>1, <3>2, <3>3 DEF TypeOK
    <2> QED
      BY <2>3, <2>4, <2>7, <2>8 DEF failed
  <1>7. CASE my_open_ups(o) /\ pc[o] = "failed"
    <2>1. /\ At("failed")' = At("failed") \ {o} /\ o \in At("failed")
          /\ At("got")' = At("got")
      BY <1>7 DEF my_open_ups, At, TypeOK
    <2>2. got' = got /\ failed' = failed - 1
      BY <1>1, <2>1, FS_RemoveElement
    <2>3. failed # 0
      BY <1>1, <2>1, FS_EmptySet
    <2>4. mod1 = "holds" /\ mod1' = mod1 /\ device' = device
      BY <1>7 DEF my_open_ups
    <2>5. \/ waiting' = FALSE /\ mod2 = "init" /\ mod2' = "in" /\ count' = count
          \/ ~waiting /\ ~waiting' /\ mod2' = mod2 /\ count' = count + 1
      BY <1>7 DEF my_open_ups, Up, TypeOK
    <2>6. pc' \in [Openers -> {"closed", "got", "failed", "open"}]
      BY <1>7 DEF my_open_ups, TypeOK
    <2>7. gifts' = gifts + 1
      BY <1>7 DEF my_open_ups
    <2> HIDE DEF got, failed
    <2>8. UnitsAccounted'
      BY <1>1, <1>2, <1>3, <2>2, <2>4, <2>5, <2>6, <2>7
         DEF UnitsAccounted, TypeOK
    <2>9. TypeOK' /\ gifts' + failed' <= MaxOpens
      <3>1. waiting' \in BOOLEAN /\ device' \in BOOLEAN
        BY <1>7 DEF my_open_ups, Up, TypeOK
      <3>2. gifts' \in 0 .. MaxOpens /\ gifts' + failed' <= MaxOpens
        BY <1>1, <2>2, <2>3, <2>7 DEF TypeOK, SemaAssumption, failed
      <3>3. /\ count' \in Nat /\ mod1' \in {"out", "init", "holds", "exit"}
            /\ mod2' \in {"out", "init", "in"}
        BY <2>4, <2>5 DEF TypeOK
      <3> QED
        BY <2>6, <3>1, <3>2, <3>3 DEF TypeOK
    <2> QED
      BY <2>4, <2>5, <2>8, <2>9 DEF failed
  <1>8. CASE close(o)
    <2>1. At("got")' = At("got") /\ At("failed")' = At("failed")
      BY <1>8 DEF close, At, TypeOK
    <2> QED
      BY <1>1, <1>2, <1>3, <1>8, <2>1 DEF close, UnitsAccounted, TypeOK
  <1> QED
    BY <1>4, <1>5, <1>6, <1>7, <1>8 DEF Opener, my_open_ups

LEMMA SemInitInv == ASSUME SemaAssumption PROVE Init => SemInv
  <1> SUFFICES ASSUME Init PROVE SemInv
    OBVIOUS
  <1>1. Cardinality(At("failed")) = 0
    BY AtFinite DEF Init
  <1>2. waiting \in BOOLEAN /\ device \in BOOLEAN
    BY Zenon DEF Init
  <1>3. TypeOK
    BY <1>2, SemaAssumption DEF Init, TypeOK, SemaAssumption
  <1> QED
    BY <1>1, <1>3, SemaAssumption
       DEF Init, SemInv, UnitsAccounted, SemaAssumption

LEMMA SemNextInv ==
  ASSUME SemaAssumption PROVE SemInv /\ [Next]_vars => SemInv'
  <1> SUFFICES ASSUME SemInv, [Next]_vars PROVE SemInv'
    OBVIOUS
  <1>1. CASE UNCHANGED vars
    BY <1>1 DEF vars, SemInv, TypeOK, UnitsAccounted, Holders, At
  <1> QED
    BY <1>1, Module1Step, Module2Step, OpenerStep DEF Next
(***************************************************************************)
(* For any openers, and however they race with the two modules: my_sem is  *)
(* multiplied by the up()s of openers that had not got it and by nothing   *)
(* else, and it is never lost.                                             *)
(***************************************************************************)
THEOREM SemaUnits == ASSUME SemaAssumption PROVE Spec => []UnitsAccounted
  <1>1. SemInv => UnitsAccounted
    BY DEF SemInv
  <1> QED
    BY <1>1, SemInitInv, SemNextInv, PTL DEF Spec

(***************************************************************************)
(* Every variable keeps its type: the count of the semaphore never becomes *)
(* negative.                                                               *)
(***************************************************************************)
THEOREM SemaTypes == ASSUME SemaAssumption PROVE Spec => []TypeOK
  <1>1. SemInv => TypeOK
    BY DEF SemInv
  <1> QED
    BY <1>1, SemInitInv, SemNextInv, PTL DEF Spec

---------------------------------------------------------------------------
(***************************************************************************)
(* SpinDead.  The lock is held exactly by the thread between spin_lock()   *)
(* and spin_unlock(), count is the number of threads that have come that   *)
(* far, and only the first of them sleeps.                                 *)
(***************************************************************************)
Cpus == 0 .. NCpus - 1

Passed == {c \in Cpus : spinPc[c] \notin {"none", "spin"}}

SpinInv ==
  /\ Spin!TypeOK
  /\ \A c \in Cpus :
       /\ wrong_lock = c <=> spinPc[c] \in {"locked", "asleep", "woken"}
       /\ spinPc[c] \in {"asleep", "woken"} => spinCount = 1
  /\ spinCount = Cardinality(Passed)
  /\ loader = "creating" => \A c \in Cpus : c >= cpu => spinPc[c] = "none"

LEMMA SomeCpus ==
  ASSUME Spin!SpinAssumption, NEW S \in SUBSET Cpus
  PROVE  IsFiniteSet(S) /\ Cardinality(S) \in 0 .. NCpus
  <1>1. IsFiniteSet(Cpus) /\ Cardinality(Cpus) = NCpus
    BY FS_Interval DEF Cpus, Spin!SpinAssumption
  <1> QED
    BY <1>1, FS_Subset, FS_CardinalityType

LEMMA PassedFinite ==
  ASSUME Spin!SpinAssumption
  PROVE  IsFiniteSet(Passed) /\ Cardinality(Passed) \in 0 .. NCpus
  BY SomeCpus DEF Passed

\* A thread that moves on between places behind spin_lock(), or before it,
\* does not change who has passed.
LEMMA SamePassed ==
  ASSUME Spin!TypeOK, NEW c \in Cpus, NEW to,
         spinPc' = [spinPc EXCEPT ![c] = to],
         spinPc[c] \in {"none", "spin"} <=> to \in {"none", "spin"}
  PROVE  Passed' = Passed
  BY DEF Passed, Spin!TypeOK, Spin!Cpus, Cpus

LEMMA SpinInitInv == ASSUME Spin!SpinAssumption PROVE Spin!Init => SpinInv
  <1> SUFFICES ASSUME Spin!Init PROVE SpinInv
    OBVIOUS
  <1>1. Passed = {}
    BY DEF Spin!Init, Passed, Spin!Cpus, Cpus
  <1> QED
    BY <1>1, FS_EmptySet
       DEF Spin!Init, SpinInv, Spin!TypeOK, Spin!Cpus, Cpus, Spin!NoCpu,
           Spin!SpinAssumption

LEMMA LoaderStep ==
  ASSUME Spin!SpinAssumption, SpinInv,
         \/ Spin!my_init \/ Spin!kthread_create_on_cpu
         \/ Spin!create_kernel_threads_returns \/ Spin!my_exit
  PROVE  SpinInv'
  <1> USE DEF SpinInv, Spin!TypeOK, Spin!Cpus, Cpus, Spin!SpinAssumption
  <1>1. CASE Spin!my_init
    <2>1. Passed' = {}
      BY <1>1 DEF Spin!my_init, Passed
    <2> QED
      BY <1>1, <2>1, FS_EmptySet DEF Spin!my_init, Spin!NoCpu
  <1>2. CASE Spin!kthread_create_on_cpu
    <2>1. cpu \in Cpus /\ spinPc[cpu] = "none"
      BY <1>2 DEF Spin!kthread_create_on_cpu
    <2>2. Passed' = Passed
      BY <1>2, <2>1, SamePassed DEF Spin!kthread_create_on_cpu
    <2> QED
      BY <1>2, <2>1, <2>2 DEF Spin!kthread_create_on_cpu
  <1>3. CASE Spin!create_kernel_threads_returns \/ Spin!my_exit
    <2>1. Passed' = Passed
      BY <1>3 DEF Spin!create_kernel_threads_returns, Spin!my_exit, Passed
    <2> QED
      BY <1>3, <2>1 DEF Spin!create_kernel_threads_returns, Spin!my_exit
  <1> QED
    BY <1>1, <1>2, <1>3

LEMMA ThreadStep ==
  ASSUME Spin!SpinAssumption, SpinInv, NEW c \in Cpus,
         Spin!spintest_fn(c) \/ Spin!wake_up(c)
  PROVE  SpinInv'
  <1> USE DEF SpinInv, Spin!TypeOK, Spin!Cpus, Cpus, Spin!SpinAssumption, Spin!Goto
  <1>1. CASE Spin!spin_lock(c)
    <2>1. Passed' = Passed \cup {c} /\ c \notin Passed
      BY <1>1 DEF Spin!spin_lock, Passed
    <2>2. Cardinality(Passed') = spinCount + 1
      BY <2>1, PassedFinite, FS_AddElement
    <2>3. Cardinality(Passed') \in 0 .. NCpus
      <3>1. Passed' \in SUBSET Cpus
        BY DEF Passed
      <3> HIDE DEF Cpus
      <3> QED
        BY <3>1, SomeCpus
    <2>4. \A d \in Cpus : spinPc[d] \notin {"locked", "asleep", "woken"}
      BY <1>1 DEF Spin!spin_lock, Spin!NoCpu
    <2> QED
      BY <1>1, <2>2, <2>3, <2>4 DEF Spin!spin_lock
  <1>2. CASE Spin!schedule(c)
    <2>1. Passed' = Passed
      BY <1>2, SamePassed DEF Spin!schedule
    <2> QED
      BY <1>2, <2>1 DEF Spin!schedule
  <1>3. CASE Spin!spin_unlock(c)
    <2>1. Passed' = Passed
      BY <1>3, SamePassed DEF Spin!spin_unlock, Spin!Unlocks
    <2> QED
      BY <1>3, <2>1 DEF Spin!spin_unlock, Spin!Unlocks, Spin!NoCpu
  <1>4. CASE Spin!wake_up(c)
    <2>1. Passed' = Passed
      BY <1>4, SamePassed DEF Spin!wake_up
    <2> QED
      BY <1>4, <2>1 DEF Spin!wake_up
  <1> QED
    BY <1>1, <1>2, <1>3, <1>4 DEF Spin!spintest_fn

LEMMA SpinNextInv ==
  ASSUME Spin!SpinAssumption PROVE SpinInv /\ [Spin!Next]_(Spin!vars) => SpinInv'
  <1> SUFFICES ASSUME SpinInv, [Spin!Next]_(Spin!vars) PROVE SpinInv'
    OBVIOUS
  <1>1. CASE UNCHANGED Spin!vars
    BY <1>1 DEF Spin!vars, SpinInv, Spin!TypeOK, Passed
  <1> QED
    BY <1>1, LoaderStep, ThreadStep DEF Spin!Next, Spin!Cpus, Cpus

(***************************************************************************)
(* On any number of processors, from the moment the first thread sleeps    *)
(* with the lock held, no other one gets it.                               *)
(***************************************************************************)
THEOREM SleeperBlocks ==
  ASSUME Spin!SpinAssumption PROVE Spin!Spec => []SleeperBlocksAll
  <1>1. SpinInv => SleeperBlocksAll
    <2> SUFFICES ASSUME SpinInv, NEW c \in Cpus, spinPc[c] = "asleep"
                 PROVE  /\ wrong_lock = c
                        /\ \A d \in Cpus \ {c} : spinPc[d] \in {"none", "spin"}
      BY DEF SleeperBlocksAll, Spin!SleeperBlocksAll, Spin!Cpus, Cpus
    <2>1. Cardinality(Passed) = 1 /\ c \in Passed
      BY DEF SpinInv, Passed
    <2>2. Passed = {c}
      BY <2>1, PassedFinite, FS_Singleton
    <2> QED
      BY <2>2 DEF SpinInv, Passed
  <1> QED
    BY <1>1, SpinInitInv, SpinNextInv, PTL DEF Spin!Spec

(***************************************************************************)
(* Every variable keeps its type: no more threads get the lock than there  *)
(* are processors, and the loop over them does not leave their range.      *)
(***************************************************************************)
THEOREM SpinTypes ==
  ASSUME Spin!SpinAssumption PROVE Spin!Spec => []Spin!TypeOK
  <1>1. SpinInv => Spin!TypeOK
    BY DEF SpinInv
  <1> QED
    BY <1>1, SpinInitInv, SpinNextInv, PTL DEF Spin!Spec
=============================================================================
