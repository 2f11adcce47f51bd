-------------------------- MODULE MyDynamicProofs --------------------------
(***************************************************************************)
(* Proofs about the character device, for every number of threads and      *)
(* files and every size of the buffer.                                     *)
(***************************************************************************)
EXTENDS MyDynamic, TLAPS

USE DeviceAssumption

(***************************************************************************)
(* The inductive invariant.  A position that will be stored back, now or   *)
(* after the copy, is within the device; a thread inside a call uses an    *)
(* open file; a file is open only while the device is live, and a live     *)
(* device has its buffer (or has failed to get one).                       *)
(***************************************************************************)
PosInv ==
  /\ \A f \in Files : f_pos[f] <= KBUF_SIZE
  /\ \A t \in Threads :
       /\ pc[t] = "copy" /\ keep[t] => pos[t] + todo[t] <= KBUF_SIZE
       /\ pc[t] = "back" /\ keep[t] => pos[t] <= KBUF_SIZE
       /\ pc[t] = "seek" => pos[t] <= KBUF_SIZE

LifeInv ==
  /\ \A t \in Threads : pc[t] # "idle" => fd[t] \in open
  /\ open # {} => phase = "live"
  /\ phase = "live" => kbuf # "none"
  /\ "live" \in held => phase = "live"
  /\ phase = "out" => held \subseteq {"cdev"} /\ kbuf = "none"
  /\ phase = "init" =>
       /\ step = 1 => held \subseteq {"cdev"} /\ kbuf = "none"
       /\ step = 2 => held \subseteq {"region", "cdev"} /\ kbuf = "none"
       /\ step = 3 => held \subseteq {"region", "cdev"} /\ kbuf = "none"
       /\ step = 4 => /\ held \subseteq {"region", "cdev", "kbuf"}
                      /\ kbuf # "none"

IInv == TypeOK /\ PosInv /\ LifeInv

LEMMA Orders ==
  /\ InitOrder[1] = "alloc_chrdev_region" /\ InitOrder[2] = "cdev_alloc"
  /\ InitOrder[3] = "kmalloc" /\ InitOrder[4] = "cdev_add"
  /\ Len(InitOrder) = 4
  BY DEF InitOrder

LEMMA UnwoundSets ==
  /\ Unwound("alloc_chrdev_region") = {}
  /\ Unwound("cdev_alloc") = {"region"}
  /\ Unwound("cdev_add") = {"region", "kbuf"}
  BY DEF Unwound

\* The test in mycdrv_read() and mycdrv_write() is right for positions
\* within the device.
LEMMA BytesToDoBound ==
  ASSUME NEW p \in Nat, NEW lbuf \in Nat
  PROVE  /\ BytesToDo(p, lbuf) \in Nat
         /\ p <= KBUF_SIZE => p + BytesToDo(p, lbuf) <= KBUF_SIZE
  BY DEF BytesToDo

LEMMA ClampBound ==
  ASSUME NEW p \in Int PROVE Clamp(p) \in 0 .. KBUF_SIZE
  BY DEF Clamp

LEMMA InitIInv == Init => IInv
  BY DEF Init, IInv, TypeOK, PosInv, LifeInv, Pcs

LEMMA LoaderStep ==
  ASSUME IInv, insmod \/ my_init \/ my_init_fails \/ my_exit PROVE IInv'
  <1> USE DEF threadVars
  <1>1. UNCHANGED <<open, f_pos, pc, fd, pos, todo, keep>>
    BY DEF insmod, my_init, my_init_fails, my_exit
  <1>2. PosInv'
    BY <1>1 DEF IInv, PosInv
  <1>3. CASE insmod
    BY <1>1, <1>3 DEF insmod, IInv, TypeOK, LifeInv, PosInv
  <1>4. CASE my_exit
    BY <1>1, <1>4 DEF my_exit, IInv, TypeOK, LifeInv, PosInv
  <1>5. CASE my_init
    <2>1. phase = "init" /\ step \in 1 .. 4
      BY <1>5 DEF my_init, IInv, TypeOK
    <2>2. CASE step = 1
      <3>1. held' \subseteq {"region", "cdev"} /\ kbuf' = "none" /\ step' = 2 /\ phase' = "init"
        BY <1>5, <2>1, <2>2, Orders DEF my_init, IInv, LifeInv
      <3>2. open = {}
        BY <2>1 DEF IInv, LifeInv
      <3>3. TypeOK'
        BY <1>1, <3>1 DEF IInv, TypeOK
      <3>4. LifeInv'
        BY <1>1, <2>1, <3>1, <3>2 DEF IInv, LifeInv
      <3> QED
        BY <1>2, <3>3, <3>4 DEF IInv
    <2>3. CASE step = 2
      <3>1. held' \subseteq {"region", "cdev"} /\ kbuf' = "none" /\ step' = 3 /\ phase' = "init"
        BY <1>5, <2>1, <2>3, Orders DEF my_init, IInv, LifeInv
      <3>2. open = {}
        BY <2>1 DEF IInv, LifeInv
      <3>3. TypeOK'
        BY <1>1, <3>1 DEF IInv, TypeOK
      <3>4. LifeInv'
        BY <1>1, <2>1, <3>1, <3>2 DEF IInv, LifeInv
      <3> QED
        BY <1>2, <3>3, <3>4 DEF IInv
    <2>4. CASE step = 3
      <3>1. /\ held' \subseteq {"region", "cdev", "kbuf"} /\ kbuf' \in {"null", "ok"}
            /\ step' = 4 /\ phase' = "init"
        BY <1>5, <2>1, <2>4, Orders DEF my_init, IInv, LifeInv
      <3>2. open = {}
        BY <2>1 DEF IInv, LifeInv
      <3>3. TypeOK'
        BY <1>1, <3>1 DEF IInv, TypeOK
      <3>4. LifeInv'
        BY <1>1, <2>1, <3>1, <3>2 DEF IInv, LifeInv
      <3> QED
        BY <1>2, <3>3, <3>4 DEF IInv
    <2>5. CASE step = 4
      <3>1. /\ held' \subseteq {"region", "cdev", "kbuf", "live"} /\ kbuf' = kbuf
            /\ kbuf # "none" /\ step' = 4 /\ phase' = "live"
        BY <1>5, <2>1, <2>5, Orders DEF my_init, IInv, LifeInv
      <3>2. open = {}
        BY <2>1 DEF IInv, LifeInv
      <3>3. TypeOK'
        BY <1>1, <3>1 DEF IInv, TypeOK
      <3>4. LifeInv'
        BY <1>1, <2>1, <3>1, <3>2 DEF IInv, LifeInv
      <3> QED
        BY <1>2, <3>3, <3>4 DEF IInv
    <2> QED
      BY <2>1, <2>2, <2>3, <2>4, <2>5
  <1>6. CASE my_init_fails
    <2>1. phase = "init" /\ step \in 1 .. 4 /\ step # 3
      BY <1>6, Orders DEF my_init_fails, IInv, TypeOK
    <2>2. held' \subseteq {"cdev"}
      <3>1. CASE step = 1
        BY <1>6, <2>1, <3>1, Orders, UnwoundSets DEF my_init_fails, IInv, LifeInv
      <3>2. CASE step = 2
        BY <1>6, <2>1, <3>2, Orders, UnwoundSets DEF my_init_fails, IInv, LifeInv
      <3>3. CASE step = 4
        BY <1>6, <2>1, <3>3, Orders, UnwoundSets DEF my_init_fails, IInv, LifeInv
      <3> QED
        BY <2>1, <3>1, <3>2, <3>3
    <2>3. kbuf' = "none" /\ phase' = "out" /\ step' = 1 /\ open = {}
      BY <1>6, <2>1 DEF my_init_fails, IInv, LifeInv
    <2> QED
      BY <1>1, <1>2, <2>2, <2>3 DEF IInv, TypeOK, LifeInv
  <1> QED
    BY <1>3, <1>4, <1>5, <1>6

LEMMA FileStep ==
  ASSUME IInv, NEW f \in Files, mycdrv_open(f) \/ mycdrv_release(f)
  PROVE  IInv'
  <1> USE DEF loaderVars, threadVars
  <1>1. CASE mycdrv_open(f)
    BY <1>1 DEF mycdrv_open, IInv, TypeOK, PosInv, LifeInv
  <1>2. CASE mycdrv_release(f)
    BY <1>2 DEF mycdrv_release, IInv, TypeOK, PosInv, LifeInv
  <1> QED
    BY <1>1, <1>2

LEMMA TransferStep ==
  ASSUME IInv, NEW t \in Threads, NEW f \in Files, NEW p \in Nat,
         NEW back \in BOOLEAN, back => p <= KBUF_SIZE, Transfer(t, f, p, back)
  PROVE  IInv'
  <1> USE DEF loaderVars
  <1>1. PICK lbuf \in 0 .. MaxCount :
          todo' = [todo EXCEPT ![t] = BytesToDo(p, lbuf)]
    BY DEF Transfer
  <1>2. /\ BytesToDo(p, lbuf) \in Nat
        /\ back => p + BytesToDo(p, lbuf) <= KBUF_SIZE
    <2>1. lbuf \in Nat
      OBVIOUS
    <2> QED
      BY <2>1, BytesToDoBound
  <1>3. TypeOK'
    BY <1>1, <1>2 DEF Transfer, IInv, TypeOK, Pcs
  <1>4. PosInv'
    BY <1>1, <1>2 DEF Transfer, IInv, TypeOK, PosInv
  <1>5. LifeInv'
    BY DEF Transfer, IInv, TypeOK, LifeInv
  <1> QED
    BY <1>3, <1>4, <1>5 DEF IInv

LEMMA CopyStep ==
  ASSUME IInv, NEW t \in Threads, Copy(t) \/ Oops(t) PROVE IInv'
  <1> USE DEF loaderVars
  <1>1. CASE Oops(t)
    BY <1>1 DEF Oops, IInv, TypeOK, PosInv, LifeInv, Pcs
  <1>2. CASE Copy(t)
    <2>1. PICK n \in 0 .. todo[t] : pos' = [pos EXCEPT ![t] = @ + n]
      BY <1>2 DEF Copy
    <2>2. n \in Nat /\ n <= todo[t] /\ todo[t] \in Nat /\ pos[t] \in Nat
      BY DEF IInv, TypeOK
    <2>3. TypeOK'
      BY <1>2, <2>1, <2>2 DEF Copy, IInv, TypeOK, Pcs
    <2>4. PosInv'
      BY <1>2, <2>1, <2>2 DEF Copy, IInv, TypeOK, PosInv
    <2>5. LifeInv'
      BY <1>2 DEF Copy, IInv, TypeOK, LifeInv
    <2> QED
      BY <2>3, <2>4, <2>5 DEF IInv
  <1> QED
    BY <1>1, <1>2

LEMMA StoreStep ==
  ASSUME IInv, NEW t \in Threads, StoreBack(t) \/ mycdrv_lseek_stores(t)
  PROVE  IInv'
  <1> USE DEF loaderVars
  <1>1. fd[t] \in Files
    BY DEF StoreBack, mycdrv_lseek_stores, IInv, TypeOK, LifeInv
  <1>2. /\ pc[t] \in {"back", "seek"}
        /\ pc' = [pc EXCEPT ![t] = "idle"]
        /\ fd' = [fd EXCEPT ![t] = NoFile]
        /\ UNCHANGED <<phase, step, held, kbuf, open, pos, todo, keep>>
        /\ \/ f_pos' = f_pos
           \/ f_pos' = [f_pos EXCEPT ![fd[t]] = pos[t]] /\ pos[t] <= KBUF_SIZE
    BY DEF StoreBack, mycdrv_lseek_stores, IInv, PosInv
  <1>3. TypeOK'
    BY <1>1, <1>2 DEF IInv, TypeOK, Pcs
  <1>4. PosInv'
    BY <1>1, <1>2 DEF IInv, TypeOK, PosInv
  <1>5. LifeInv'
    BY <1>2 DEF IInv, TypeOK, LifeInv
  <1> QED
    BY <1>3, <1>4, <1>5 DEF IInv

LEMMA SeekStep ==
  ASSUME IInv, NEW t \in Threads, NEW f \in Files, mycdrv_lseek(t, f)
  PROVE  IInv'
  <1> USE DEF loaderVars
  <1>1. PICK offset \in -SeekSpan .. SeekSpan :
          \E origin \in {0, f_pos[f], KBUF_SIZE} :
            pos' = [pos EXCEPT ![t] = Clamp(origin + offset)]
    BY DEF mycdrv_lseek
  <1>2. PICK origin \in {0, f_pos[f], KBUF_SIZE} :
          pos' = [pos EXCEPT ![t] = Clamp(origin + offset)]
    BY <1>1
  <1>3. origin + offset \in Int
    BY DEF IInv, TypeOK
  <1>4. Clamp(origin + offset) \in 0 .. KBUF_SIZE
    BY <1>3, ClampBound
  <1>5. TypeOK'
    BY <1>2, <1>4 DEF mycdrv_lseek, IInv, TypeOK, Pcs
  <1>6. PosInv'
    BY <1>2, <1>4 DEF mycdrv_lseek, IInv, TypeOK, PosInv
  <1>7. LifeInv'
    BY DEF mycdrv_lseek, IInv, TypeOK, LifeInv
  <1> QED
    BY <1>5, <1>6, <1>7 DEF IInv

LEMMA NextIInv == IInv /\ [Next]_vars => IInv'
  <1> SUFFICES ASSUME IInv, [Next]_vars PROVE IInv'
    OBVIOUS
  <1>1. ASSUME NEW t \in Threads, NEW f \in Files, read_or_write(t, f)
        PROVE  IInv'
    <2>1. f_pos[f] \in Nat /\ f_pos[f] <= KBUF_SIZE
      BY DEF IInv, TypeOK, PosInv
    <2> QED
      BY <1>1, <2>1, TransferStep DEF read_or_write
  <1>2. ASSUME NEW t \in Threads, NEW f \in Files, pread_or_pwrite(t, f)
        PROVE  IInv'
    <2>1. PICK p \in PreadPos : Transfer(t, f, p, FALSE)
      BY <1>2 DEF pread_or_pwrite
    <2> QED
      BY <2>1, TransferStep
  <1>3. CASE UNCHANGED vars
    BY <1>3 DEF vars, loaderVars, threadVars, IInv, TypeOK, PosInv, LifeInv
  <1> QED
    BY <1>1, <1>2, <1>3, LoaderStep, FileStep, CopyStep, StoreStep, SeekStep
       DEF Next, ThreadStep

THEOREM Inductive == Spec => []IInv
  BY InitIInv, NextIInv, PTL DEF Spec

\* Every variable keeps its type; no position is ever negative.
THEOREM TypeCorrect == Spec => []TypeOK
  BY Inductive, PTL DEF IInv

\* Whatever threads that share files do, positions stay within the device.
THEOREM PositionsBounded == Spec => []PositionInDevice
  <1>1. IInv => PositionInDevice
    BY DEF IInv, PosInv, PositionInDevice
  <1> QED
    BY <1>1, Inductive, PTL

\* The buffer outlives every transfer.
THEOREM NoUseAfterFree == Spec => []BufferOutlivesUse
  <1>1. IInv => BufferOutlivesUse
    BY DEF IInv, LifeInv, BufferOutlivesUse
  <1> QED
    BY <1>1, Inductive, PTL

\* Neither a failing my_init() nor my_exit() leaves anything behind.
THEOREM NoLeak == Spec => []LeaksAtMostTheCdev
  <1>1. IInv => LeaksAtMostTheCdev
    BY DEF IInv, LifeInv, LeaksAtMostTheCdev
  <1> QED
    BY <1>1, Inductive, PTL

(***************************************************************************)
(* Transfers stay in the buffer provided that pread() and pwrite() are     *)
(* called with positions within the device.                                *)
(***************************************************************************)
THEOREM TransfersBounded ==
  ASSUME PreadPos \subseteq 0 .. KBUF_SIZE PROVE Spec => []TransferInBuffer
  <1> DEFINE TInv == \A t \in Threads :
                       pc[t] = "copy" => pos[t] + todo[t] <= KBUF_SIZE
  <1>1. Init => TInv
    BY DEF Init
  <1>2. IInv /\ TInv /\ [Next]_vars => TInv'
    <2> SUFFICES ASSUME IInv, TInv, [Next]_vars PROVE TInv'
      OBVIOUS
    <2> USE DEF loaderVars, threadVars
    <2>1. ASSUME NEW t \in Threads, NEW f \in Files, NEW p \in Nat,
                 NEW back \in BOOLEAN, p <= KBUF_SIZE, Transfer(t, f, p, back)
          PROVE  TInv'
      <3>1. PICK lbuf \in 0 .. MaxCount :
              todo' = [todo EXCEPT ![t] = BytesToDo(p, lbuf)]
        BY <2>1 DEF Transfer
      <3>2. p + BytesToDo(p, lbuf) <= KBUF_SIZE
        BY <2>1, BytesToDoBound
      <3> QED
        BY <2>1, <3>1, <3>2 DEF Transfer, IInv, TypeOK
    <2>2. ASSUME NEW t \in Threads, NEW f \in Files, read_or_write(t, f)
          PROVE  TInv'
      <3>1. f_pos[f] \in Nat /\ f_pos[f] <= KBUF_SIZE
        BY DEF IInv, TypeOK, PosInv
      <3> QED
        BY <2>1, <2>2, <3>1 DEF read_or_write
    <2>3. ASSUME NEW t \in Threads, NEW f \in Files, pread_or_pwrite(t, f)
          PROVE  TInv'
      <3>1. PICK p \in PreadPos : Transfer(t, f, p, FALSE)
        BY <2>3 DEF pread_or_pwrite
      <3>2. p \in Nat /\ p <= KBUF_SIZE
        OBVIOUS
      <3> QED
        BY <2>1, <3>1, <3>2
    <2>4. ASSUME NEW t \in Threads, Copy(t) \/ Oops(t) \/ StoreBack(t)
                                    \/ mycdrv_lseek_stores(t)
          PROVE  TInv'
      BY <2>4 DEF Copy, Oops, StoreBack, mycdrv_lseek_stores, IInv, TypeOK
    <2>5. ASSUME NEW t \in Threads, NEW f \in Files, mycdrv_lseek(t, f)
          PROVE  TInv'
      BY <2>5 DEF mycdrv_lseek, IInv, TypeOK
    <2>6. CASE insmod \/ my_init \/ my_init_fails \/ my_exit
      BY <2>6 DEF insmod, my_init, my_init_fails, my_exit
    <2>7. ASSUME NEW f \in Files, mycdrv_open(f) \/ mycdrv_release(f)
          PROVE  TInv'
      BY <2>7 DEF mycdrv_open, mycdrv_release
    <2>8. CASE UNCHANGED vars
      BY <2>8 DEF vars
    <2> QED
      BY <2>2, <2>3, <2>4, <2>5, <2>6, <2>7, <2>8 DEF Next, ThreadStep
  <1>3. TInv => TransferInBuffer
    BY DEF TransferInBuffer
  <1> QED
    BY <1>1, <1>2, <1>3, Inductive, PTL DEF Spec
==============================================================================
