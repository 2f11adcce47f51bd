---------------------------- MODULE MyUdevProofs ----------------------------
(***************************************************************************)
(* Proofs about the character device with udev nodes, for every number of  *)
(* threads, every set of nodes and characters and every size of the        *)
(* buffer: type correctness, what failed loads leave behind, and what is   *)
(* in the buffer after writes that overlap and after one that does not.    *)
(***************************************************************************)
EXTENDS MyUdev, TLAPS

USE UdevAssumption

\* Only a thread with an open file is in my_write(); what it still has to
\* copy or convert is inside the buffer and inside its text.
WriteInv ==
  \A t \in Threads :
    pc[t] # "idle" =>
      /\ t \in open
      /\ pos[t] + nbytes[t] <= KBUF_SIZE
      /\ i[t] <= nbytes[t]
      /\ nbytes[t] <= Len(text[t])
      /\ pc[t] = "store" => i[t] < nbytes[t]

\* What the module holds at each step of my_init(); before cdev_add() nobody
\* can have opened the device or written to the buffer.
LoadInv ==
  /\ "region" \in held <=> step > 1
  /\ "cdev" \in held <=> step > 2
  /\ "kbuf" \in held <=> step > 3
  /\ "live" \in held <=> step > 4
  /\ "class" \in held => step > 5
  /\ "nodes" \in held => step > 6
  /\ leaked \subseteq {"cdev", "kbuf"}
  /\ step <= 4 => open = {} /\ only = [k \in Slots |-> {1, 2}]

IInv == TypeOK /\ LoadInv /\ WriteInv

---------------------------------------------------------------------------
LEMMA LenOfFunction ==
  ASSUME NEW S, NEW n \in Nat, NEW s \in [1 .. n -> S]
  PROVE  Len(s) = n
  OBVIOUS

LEMMA TextProperties ==
  ASSUME NEW s \in Texts
  PROVE  /\ Len(s) \in 1 .. KBUF_SIZE
         /\ \A k \in 1 .. Len(s) : s[k] \in Chars
  <1>1. PICK n \in 1 .. KBUF_SIZE : s \in [1 .. n -> [id : Ids, case : Cases]]
    BY DEF Cases
  <1>3. Len(s) = n
    BY <1>1, LenOfFunction
  <1> QED
    BY <1>1, <1>3 DEF Chars

LEMMA BytesToDoBound ==
  ASSUME NEW p \in 0 .. KBUF_SIZE, NEW lbuf \in Nat
  PROVE  /\ BytesToDo(p, lbuf) \in 0 .. KBUF_SIZE
         /\ BytesToDo(p, lbuf) <= lbuf
         /\ p + BytesToDo(p, lbuf) <= KBUF_SIZE
  BY DEF BytesToDo

LEMMA ConvertedType ==
  ASSUME NEW ch \in Chars, NEW m
  PROVE  Converted(ch, m) \in Chars
  BY DEF Converted, to_lower, to_upper, Chars, Cases, NulChar

LEMMA NulIsChar == NulChar \in Chars
  BY DEF Chars

---------------------------------------------------------------------------
LEMMA InitIInv == Init => IInv
  <1> SUFFICES ASSUME Init PROVE IInv
    OBVIOUS
  <1>1. TypeOK
    BY NulIsChar DEF Init, TypeOK
  <1>2. LoadInv
    BY DEF Init, LoadInv
  <1>3. WriteInv
    BY DEF Init, WriteInv
  <1> QED
    BY <1>1, <1>2, <1>3 DEF IInv

\* Only threads with an open file are in my_write().
LEMMA NobodyWrites ==
  ASSUME IInv, open = {}
  PROVE  \A t \in Threads : pc[t] = "idle"
  BY DEF IInv, WriteInv

LEMMA InitStep ==
  ASSUME IInv, my_init
  PROVE  IInv'
  <1> USE DEF IInv, TypeOK, fileVars, writeVars
  <1>1. step \in {1, 2, 3, 4, 5, 6} /\ step' = step + 1
    BY DEF my_init, InitOrder
  <1>2. kbuf' \in [Slots -> Chars]
    BY DEF my_init
  <1>3. WriteInv'
    BY DEF my_init, WriteInv
  <1>4. held' \subseteq Resources /\ LoadInv'
    <2>1. CASE step = 1
      <3>1. held' = held \cup {"region"}
        BY <2>1 DEF my_init, InitOrder, Acquired
      <3> QED
        BY <1>1, <2>1, <3>1 DEF my_init, LoadInv, Resources
    <2>2. CASE step = 2
      <3>1. held' = held \cup {"cdev"}
        BY <2>2 DEF my_init, InitOrder, Acquired
      <3> QED
        BY <1>1, <2>2, <3>1 DEF my_init, LoadInv, Resources
    <2>3. CASE step = 3
      <3>1. held' = held \cup {"kbuf"}
        BY <2>3 DEF my_init, InitOrder, Acquired
      <3> QED
        BY <1>1, <2>3, <3>1 DEF my_init, LoadInv, Resources
    <2>4. CASE step = 4
      <3>1. held' = held \cup {"live"}
        BY <2>4 DEF my_init, InitOrder, Acquired
      <3> QED
        BY <1>1, <2>4, <3>1 DEF my_init, LoadInv, Resources
    <2>5. CASE step = 5
      <3>1. held' = held \cup {"class"} \/ held' = held
        BY <2>5 DEF my_init, InitOrder, Acquired
      <3>2. leaked' = leaked
        BY DEF my_init
      <3>3. CASE held' = held
        BY <1>1, <2>5, <3>2, <3>3 DEF LoadInv
      <3>4. CASE held' = held \cup {"class"}
        BY <1>1, <2>5, <3>2, <3>4 DEF LoadInv, Resources
      <3> QED
        BY <3>1, <3>3, <3>4
    <2>6. CASE step = 6
      <3>1. held' = held \cup {"nodes"} \/ held' = held
        BY <2>6 DEF my_init, InitOrder, Acquired
      <3>2. leaked' = leaked
        BY DEF my_init
      <3>3. CASE held' = held
        BY <1>1, <2>6, <3>2, <3>3 DEF LoadInv
      <3>4. CASE held' = held \cup {"nodes"}
        BY <1>1, <2>6, <3>2, <3>4 DEF LoadInv, Resources
      <3> QED
        BY <3>1, <3>3, <3>4
    <2> QED
      BY <1>1, <2>1, <2>2, <2>3, <2>4, <2>5, <2>6
  <1> QED
    BY <1>1, <1>2, <1>3, <1>4 DEF my_init

\* What the module keeps when it goes away is memory.
LEMMA UnloadStep ==
  ASSUME IInv, open = {}, NEW released, Unloads(released),
         held \ released \subseteq {"cdev", "kbuf"}
  PROVE  IInv'
  <1> USE DEF IInv, TypeOK, fileVars, writeVars
  <1>1. WriteInv'
    BY DEF Unloads, WriteInv
  <1>2. LoadInv'
    BY DEF Unloads, LoadInv
  <1>3. kbuf' \in [Slots -> Chars] /\ only' \in [Slots -> SUBSET {1, 2}]
    BY NulIsChar DEF Unloads
  <1>4. step' = 0 /\ held' = {} /\ leaked' \subseteq Resources
    BY DEF Unloads, Resources
  <1> QED
    BY <1>1, <1>2, <1>3, <1>4 DEF Unloads

LEMMA LifeStep ==
  ASSUME IInv, insmod \/ my_init \/ my_init_fails \/ my_exit
  PROVE  IInv'
  <1>1. CASE insmod
    <2>1. WriteInv'
      BY <1>1 DEF insmod, IInv, WriteInv, fileVars, writeVars
    <2>2. LoadInv'
      BY <1>1 DEF insmod, IInv, LoadInv, fileVars
    <2> QED
      BY <1>1, <2>1, <2>2 DEF insmod, IInv, TypeOK, fileVars, writeVars
  <1>2. CASE my_init
    BY <1>2, InitStep
  <1>3. CASE my_init_fails
    <2>1. Unloads(Unwound(InitOrder[step]))
      BY <1>3 DEF my_init_fails
    <2>2. step \in {1, 2, 4}
      BY <1>3 DEF my_init_fails, InitOrder
    <2>3. held \ Unwound(InitOrder[step]) \subseteq {"cdev", "kbuf"}
      <3>1. held \subseteq {"region", "cdev", "kbuf"}
        <4>1. "live" \notin held /\ "class" \notin held /\ "nodes" \notin held
          BY <2>2 DEF IInv, LoadInv
        <4> QED
          BY <4>1 DEF IInv, TypeOK, Resources
      <3>2. CASE step = 1
        <4>1. "region" \notin held
          BY <3>2 DEF IInv, LoadInv
        <4> QED
          BY <3>1, <4>1
      <3>3. CASE step \in {2, 4}
        BY <3>1, <3>3 DEF Unwound, InitOrder
      <3> QED
        BY <2>2, <3>2, <3>3
    <2>4. open = {}
      BY <2>2 DEF IInv, LoadInv
    <2> QED
      BY <2>1, <2>3, <2>4, UnloadStep
  <1>4. CASE my_exit
    <2>1. held \ {"nodes", "class", "live", "region", "kbuf"} \subseteq {"cdev", "kbuf"}
      BY DEF IInv, TypeOK, Resources
    <2> QED
      BY <1>4, <2>1, UnloadStep DEF my_exit
  <1> QED
    BY <1>1, <1>2, <1>3, <1>4

LEMMA FileStep ==
  ASSUME IInv, NEW t \in Threads, my_open(t) \/ my_release(t) \/ my_read(t)
  PROVE  IInv'
  <1> USE DEF IInv, TypeOK, LoadInv, loadVars, writeVars
  <1>1. CASE my_open(t)
    <2>1. WriteInv'
      BY <1>1 DEF my_open, WriteInv
    <2>2. minor' \in [Threads -> Minors] /\ pos' \in [Threads -> 0 .. KBUF_SIZE]
      BY <1>1 DEF my_open
    <2>3. step > 4
      BY <1>1 DEF my_open
    <2> QED
      BY <1>1, <2>1, <2>2, <2>3 DEF my_open
  <1>2. CASE my_release(t)
    <2>1. WriteInv'
      BY <1>2 DEF my_release, WriteInv
    <2> QED
      BY <1>2, <2>1 DEF my_release
  <1>3. CASE my_read(t)
    <2>1. PICK lbuf \in 1 .. KBUF_SIZE : \E n \in 0 .. BytesToDo(pos[t], lbuf) :
            pos' = [pos EXCEPT ![t] = @ + n]
      BY <1>3 DEF my_read
    <2>b. /\ pos[t] \in 0 .. KBUF_SIZE
          /\ BytesToDo(pos[t], lbuf) \in 0 .. KBUF_SIZE
          /\ pos[t] + BytesToDo(pos[t], lbuf) <= KBUF_SIZE
      <3>1. pos[t] \in 0 .. KBUF_SIZE /\ lbuf \in Nat
        OBVIOUS
      <3> QED
        BY <3>1, BytesToDoBound
    <2>2. pos' \in [Threads -> 0 .. KBUF_SIZE]
      BY <2>1, <2>b
    <2>3. WriteInv'
      BY <1>3, <2>1 DEF my_read, WriteInv
    <2> QED
      BY <1>3, <2>2, <2>3 DEF my_read
  <1> QED
    BY <1>1, <1>2, <1>3

LEMMA WriteStep ==
  ASSUME IInv, NEW t \in Threads, my_write(t)
  PROVE  IInv'
  <1> USE DEF IInv, TypeOK, LoadInv, loadVars, fileVars
  <1>1. PICK s \in Texts :
          /\ text' = [text EXCEPT ![t] = s]
          /\ nbytes' = [nbytes EXCEPT ![t] = BytesToDo(pos[t], Len(s))]
    BY DEF my_write
  <1>2. /\ Len(s) \in Nat
        /\ BytesToDo(pos[t], Len(s)) \in 0 .. KBUF_SIZE
        /\ BytesToDo(pos[t], Len(s)) <= Len(s)
        /\ pos[t] + BytesToDo(pos[t], Len(s)) <= KBUF_SIZE
    <2>1. Len(s) \in Nat
      BY TextProperties
    <2>2. pos[t] \in 0 .. KBUF_SIZE
      OBVIOUS
    <2> QED
      BY <2>1, <2>2, BytesToDoBound
  <1>3. /\ text' \in [Threads -> Texts \cup {<<>>}]
        /\ nbytes' \in [Threads -> 0 .. KBUF_SIZE]
        /\ pc' \in [Threads -> {"idle", "copy", "load", "store"}]
        /\ i' \in [Threads -> 0 .. KBUF_SIZE]
        /\ crowded' \subseteq Threads
    <2>1. text' \in [Threads -> Texts \cup {<<>>}]
      BY <1>1
    <2>2. nbytes' \in [Threads -> 0 .. KBUF_SIZE]
      BY <1>1, <1>2
    <2>3. /\ pc' \in [Threads -> {"idle", "copy", "load", "store"}]
          /\ i' \in [Threads -> 0 .. KBUF_SIZE]
      BY DEF my_write
    <2>4. crowded' \subseteq Threads
      <3>1. Busy \subseteq Threads
        BY DEF Busy
      <3>2. crowded' = crowded \ {t} \/ crowded' = crowded \cup Busy \cup {t}
        BY DEF my_write
      <3> QED
        BY <3>1, <3>2
    <2> QED
      BY <2>1, <2>2, <2>3, <2>4
  <1>4. WriteInv'
    BY <1>1, <1>2 DEF my_write, WriteInv
  <1> QED
    BY <1>3, <1>4 DEF my_write

LEMMA CopyStep ==
  ASSUME IInv, NEW t \in Threads, CopyByte(t) \/ CopyFaults(t) \/ CopyEnds(t)
  PROVE  IInv'
  <1> USE DEF IInv, TypeOK, LoadInv, loadVars, fileVars
  <1>1. CASE CopyByte(t)
    <2>0. /\ i[t] \in Nat /\ nbytes[t] \in Nat /\ i[t] < nbytes[t]
          /\ nbytes[t] <= Len(text[t]) /\ nbytes[t] <= KBUF_SIZE
      BY <1>1 DEF CopyByte, WriteInv
    <2>1. text[t] \in Texts
      BY <2>0
    <2>2. text[t][i[t] + 1] \in Chars
      BY <1>1, <2>1, TextProperties DEF CopyByte, WriteInv
    <2>3. kbuf' \in [Slots -> Chars] /\ i' \in [Threads -> 0 .. KBUF_SIZE]
      <3>1. kbuf' \in [Slots -> Chars]
        BY <1>1, <2>2 DEF CopyByte
      <3>2. i' \in [Threads -> 0 .. KBUF_SIZE]
        BY <1>1, <2>0 DEF CopyByte
      <3> QED
        BY <3>1, <3>2
    <2>4. WriteInv'
      BY <1>1 DEF CopyByte, WriteInv
    <2>5. only' \in [Slots -> SUBSET {1, 2}]
      BY <1>1 DEF CopyByte
    <2>6. LoadInv'
      BY <1>1 DEF CopyByte, WriteInv
    <2> QED
      BY <1>1, <2>3, <2>4, <2>5, <2>6 DEF CopyByte
  <1>2. CASE CopyFaults(t)
    <2>1. kbuf' \in [Slots -> Chars] /\ nbytes' \in [Threads -> 0 .. KBUF_SIZE]
      BY <1>2, NulIsChar DEF CopyFaults
    <2>2. WriteInv'
      BY <1>2 DEF CopyFaults, WriteInv
    <2> QED
      BY <1>2, <2>1, <2>2 DEF CopyFaults
  <1>3. CASE CopyEnds(t)
    <2>1. WriteInv'
      BY <1>3 DEF CopyEnds, WriteInv
    <2> QED
      BY <1>3, <2>1 DEF CopyEnds
  <1> QED
    BY <1>1, <1>2, <1>3

LEMMA ConvertStep ==
  ASSUME IInv, NEW t \in Threads,
         ConvertLoads(t) \/ ConvertStores(t) \/ my_write_returns(t)
  PROVE  IInv'
  <1> USE DEF IInv, TypeOK, LoadInv, loadVars, fileVars
  <1>1. CASE ConvertLoads(t)
    <2>1. pos[t] + i[t] \in Slots
      <3>1. /\ pos[t] \in Nat /\ i[t] \in Nat /\ nbytes[t] \in Nat
            /\ i[t] < nbytes[t] /\ pos[t] + nbytes[t] <= KBUF_SIZE
        BY <1>1 DEF ConvertLoads, WriteInv
      <3> QED
        BY <3>1 DEF Slots
    <2>2. c' \in [Threads -> Chars]
      BY <1>1, <2>1 DEF ConvertLoads
    <2>3. WriteInv'
      BY <1>1 DEF ConvertLoads, WriteInv
    <2> QED
      BY <1>1, <2>2, <2>3 DEF ConvertLoads
  <1>2. CASE ConvertStores(t)
    <2>1. Converted(c[t], minor[t]) \in Chars
      BY ConvertedType
    <2>2. kbuf' \in [Slots -> Chars]
      BY <1>2, <2>1 DEF ConvertStores
    <2>3. WriteInv' /\ i' \in [Threads -> 0 .. KBUF_SIZE]
      BY <1>2 DEF ConvertStores, WriteInv
    <2> QED
      BY <1>2, <2>2, <2>3 DEF ConvertStores
  <1>3. CASE my_write_returns(t)
    <2>1. pos' \in [Threads -> 0 .. KBUF_SIZE]
      BY <1>3 DEF my_write_returns, ConvertEnds, WriteInv
    <2>2. WriteInv'
      BY <1>3 DEF my_write_returns, WriteInv
    <2> QED
      BY <1>3, <2>1, <2>2, NulIsChar DEF my_write_returns
  <1> QED
    BY <1>1, <1>2, <1>3

LEMMA NextIInv == IInv /\ [Next]_vars => IInv'
  <1> SUFFICES ASSUME IInv, [Next]_vars PROVE IInv'
    OBVIOUS
  <1>1. CASE insmod \/ my_init \/ my_init_fails \/ my_exit
    BY <1>1, LifeStep
  <1>2. ASSUME NEW t \in Threads, ThreadStep(t) PROVE IInv'
    BY <1>2, FileStep, WriteStep, CopyStep, ConvertStep DEF ThreadStep
  <1>3. CASE UNCHANGED vars
    BY <1>3
       DEF vars, loadVars, fileVars, writeVars, IInv, TypeOK, LoadInv, WriteInv
  <1> QED
    BY <1>1, <1>2, <1>3 DEF Next

LEMMA Invariance == Spec => []IInv
  BY InitIInv, NextIInv, PTL DEF Spec

(***************************************************************************)
(* Every variable keeps its type; with it, copying and converting stay in  *)
(* the buffer and the position in the device.                              *)
(***************************************************************************)
THEOREM TypeCorrect == Spec => []TypeOK
  <1>1. IInv => TypeOK
    BY DEF IInv
  <1> QED
    BY <1>1, Invariance, PTL

(***************************************************************************)
(* Whichever step of my_init() fails, and when the module is unloaded,     *)
(* nothing stays registered; memory may stay allocated.  A device that is  *)
(* open is live and has its buffer, also while my_init() still runs.       *)
(***************************************************************************)
THEOREM NothingRegistered == Spec => []LeaksOnlyMemory
  <1>1. IInv => LeaksOnlyMemory
    BY DEF IInv, TypeOK, LoadInv, LeaksOnlyMemory
  <1> QED
    BY <1>1, Invariance, PTL
---------------------------------------------------------------------------
(***************************************************************************)
(* Overlapping writers.  A character in the wrong case is one that some    *)
(* writer has copied, or has not come to in convert(): it still has to     *)
(* convert it, whatever other writers do to the character meanwhile.       *)
(***************************************************************************)
Pending(t, k) ==
  \/ pc[t] = "copy" /\ k \in pos[t] .. pos[t] + i[t] - 1
  \/ pc[t] \in {"load", "store"} /\ k \in pos[t] + i[t] .. pos[t] + nbytes[t] - 1

Wrong(m) == IF m = 1 THEN "upper" ELSE "lower"

\* What a writer has pending it has copied.
PendInv ==
  \A t \in Threads, k \in Slots : Pending(t, k) => only[k] \subseteq {minor[t]}

CaseInv ==
  \A m \in {1, 2}, k \in Slots :
    only[k] = {m} /\ kbuf[k].case = Wrong(m) =>
      \E u \in Threads : Pending(u, k)

LEMMA NoWrongNul == ASSUME NEW m PROVE NulChar.case # Wrong(m)
  BY DEF NulChar, Wrong

LEMMA ConvertedNotWrong ==
  ASSUME NEW m \in {1, 2}, NEW ch \in Chars
  PROVE  Converted(ch, m).case # Wrong(m)
  BY DEF Converted, to_lower, to_upper, Wrong, Chars, Cases, NulChar

\* A step of thread t that leaves the character alone: what other threads
\* have pending stays so.
LEMMA OthersPending ==
  ASSUME IInv, NEW t \in Threads, ThreadStep(t),
         NEW u \in Threads, u # t, NEW k
  PROVE  Pending(u, k)' <=> Pending(u, k)
  <1>1. /\ pc'[u] = pc[u] /\ pos'[u] = pos[u]
        /\ i'[u] = i[u] /\ nbytes'[u] = nbytes[u]
    <2> USE DEF IInv, TypeOK, fileVars, writeVars
    <2>1. CASE my_open(t) \/ my_release(t)
      BY <2>1 DEF my_open, my_release
    <2>2. CASE my_read(t)
      BY <2>2 DEF my_read
    <2>3. CASE my_write(t)
      BY <2>3 DEF my_write
    <2>4. CASE CopyByte(t) \/ CopyFaults(t) \/ CopyEnds(t)
      BY <2>4 DEF CopyByte, CopyFaults, CopyEnds
    <2>5. CASE ConvertLoads(t) \/ ConvertStores(t) \/ my_write_returns(t)
      BY <2>5 DEF ConvertLoads, ConvertStores, my_write_returns
    <2> QED
      BY <2>1, <2>2, <2>3, <2>4, <2>5 DEF ThreadStep
  <1> QED
    BY <1>1 DEF Pending

LEMMA RangeEnds ==
  ASSUME NEW p \in Nat, NEW j \in Nat, NEW n \in Nat, NEW k \in Nat
  PROVE  /\ k \in p .. p + j /\ k \notin p .. p + j - 1 => k = p + j
         /\ k \in p + j .. p + n - 1 /\ k # p + j => k \in p + (j + 1) .. p + n - 1
  OBVIOUS

LEMMA ThreadPend ==
  ASSUME IInv, PendInv, NEW t \in Threads, ThreadStep(t)
  PROVE  PendInv'
  <1> USE DEF IInv, TypeOK, loadVars, fileVars, writeVars
  <1> SUFFICES ASSUME NEW u \in Threads, NEW k \in Slots, Pending(u, k)'
               PROVE  only'[k] \subseteq {minor'[u]}
    BY DEF PendInv
  <1>1. only'[k] \subseteq only[k]
    <2>1. CASE CopyByte(t)
      BY <2>1 DEF CopyByte
    <2>2. CASE ~CopyByte(t)
      BY <2>2 DEF ThreadStep, my_open, my_release, my_read, my_write,
           CopyFaults, CopyEnds, ConvertLoads, ConvertStores, my_write_returns
    <2> QED
      BY <2>1, <2>2
  <1>2. minor'[u] = minor[u]
    <2>1. pc'[u] # "idle"
      BY DEF Pending
    <2>2. CASE my_open(t) \/ my_release(t)
      <3>1. u # t
        BY <2>1, <2>2 DEF my_open, my_release, WriteInv
      <3> QED
        BY <2>2, <3>1 DEF my_open, my_release
    <2>3. CASE ~(my_open(t) \/ my_release(t))
      BY <2>3 DEF ThreadStep, my_read, my_write, CopyByte, CopyFaults, CopyEnds,
           ConvertLoads, ConvertStores, my_write_returns
    <2> QED
      BY <2>2, <2>3
  <1>3. CASE Pending(u, k)
    BY <1>1, <1>2, <1>3 DEF PendInv
  <1>4. CASE ~Pending(u, k)
    <2>1. u = t
      BY <1>4, OthersPending
    <2>2. CopyByte(t) /\ k = pos[t] + i[t]
      <3>1. CASE my_open(t) \/ my_release(t) \/ my_read(t)
        BY <1>4, <2>1, <3>1 DEF my_open, my_release, my_read, Pending, WriteInv
      <3>2. CASE my_write(t)
        BY <1>4, <2>1, <3>2 DEF my_write, Pending
      <3>3. CASE CopyByte(t)
        <4>1. /\ pos[t] \in Nat /\ i[t] \in Nat /\ k \in Nat
              /\ pc[t] = "copy" /\ pc'[t] = "copy"
              /\ pos'[t] = pos[t] /\ i'[t] = i[t] + 1
          BY <3>3 DEF CopyByte, Slots
        <4>2. k \in pos[t] .. pos[t] + i[t] /\ k \notin pos[t] .. pos[t] + i[t] - 1
          BY <1>4, <2>1, <4>1 DEF Pending
        <4>3. k = pos[t] + i[t]
          BY <4>1, <4>2, RangeEnds, Zenon
        <4> QED
          BY <3>3, <4>3
      <3>4. CASE CopyFaults(t)
        BY <1>4, <2>1, <3>4 DEF CopyFaults, Pending
      <3>5. CASE CopyEnds(t)
        BY <1>4, <2>1, <3>5 DEF CopyEnds, Pending
      <3>6. CASE ConvertLoads(t)
        BY <1>4, <2>1, <3>6 DEF ConvertLoads, Pending
      <3>7. CASE ConvertStores(t)
        BY <1>4, <2>1, <3>7 DEF ConvertStores, Pending
      <3>8. CASE my_write_returns(t)
        BY <1>4, <2>1, <3>8 DEF my_write_returns, Pending
      <3> QED
        BY <3>1, <3>2, <3>3, <3>4, <3>5, <3>6, <3>7, <3>8 DEF ThreadStep
    <2> QED
      BY <1>2, <2>1, <2>2 DEF CopyByte
  <1> QED
    BY <1>3, <1>4

LEMMA ThreadCase ==
  ASSUME IInv, PendInv, CaseInv, NEW t \in Threads, ThreadStep(t),
         NEW m \in {1, 2}, NEW k \in Slots,
         only'[k] = {m}, kbuf'[k].case = Wrong(m)
  PROVE  \E u \in Threads : Pending(u, k)'
  <1> USE DEF IInv, TypeOK, loadVars, fileVars, writeVars
  <1>1. ASSUME ~CopyByte(t) \/ k # pos[t] + i[t]
        PROVE  only[k] = {m}
    BY <1>1 DEF ThreadStep, my_open, my_release, my_read, my_write, CopyByte,
           CopyFaults, CopyEnds, ConvertLoads, ConvertStores, my_write_returns
  <1>2. ASSUME ~CopyByte(t) \/ k # pos[t] + i[t],
               kbuf'[k] = kbuf[k], Pending(t, k) => Pending(t, k)'
        PROVE  \E u \in Threads : Pending(u, k)'
    <2>1. PICK u \in Threads : Pending(u, k)
      BY <1>1, <1>2 DEF CaseInv
    <2>2. CASE u = t
      BY <1>2, <2>1, <2>2
    <2>3. CASE u # t
      BY <2>1, <2>3, OthersPending
    <2> QED
      BY <2>2, <2>3
  <1>3. CASE my_open(t) \/ my_release(t) \/ my_read(t) \/ my_write(t)
    <2>1. pc[t] = "idle" /\ kbuf' = kbuf
      BY <1>3 DEF my_open, my_release, my_read, my_write, WriteInv
    <2> QED
      BY <1>2, <2>1 DEF Pending, CopyByte
  <1>4. CASE CopyByte(t)
    <2>1. CASE k = pos[t] + i[t]
      <3>1. Pending(t, k)'
        BY <1>4, <2>1 DEF CopyByte, Pending
      <3> QED
        BY <3>1
    <2>2. CASE k # pos[t] + i[t]
      <3>1. kbuf'[k] = kbuf[k]
        BY <1>4, <2>2 DEF CopyByte
      <3>2. Pending(t, k) => Pending(t, k)'
        BY <1>4 DEF CopyByte, Pending
      <3> QED
        BY <1>2, <2>2, <3>1, <3>2
    <2> QED
      BY <2>1, <2>2
  <1>5. CASE CopyFaults(t)
    <2>1. kbuf'[k] = kbuf[k]
      BY <1>5, NoWrongNul DEF CopyFaults
    <2>2. Pending(t, k) => Pending(t, k)'
      BY <1>5 DEF CopyFaults, Pending
    <2>3. k # pos[t] + i[t] \/ ~CopyByte(t)
      BY <1>5 DEF CopyFaults, CopyByte
    <2> QED
      BY <1>2, <2>1, <2>2, <2>3
  <1>6. CASE CopyEnds(t)
    <2>1. Pending(t, k) => Pending(t, k)'
      BY <1>6 DEF CopyEnds, Pending
    <2> QED
      BY <1>2, <1>6, <2>1 DEF CopyEnds, CopyByte
  <1>7. CASE ConvertLoads(t)
    <2>1. Pending(t, k) => Pending(t, k)'
      BY <1>7 DEF ConvertLoads, Pending
    <2> QED
      BY <1>2, <1>7, <2>1 DEF ConvertLoads, CopyByte
  <1>8. CASE ConvertStores(t)
    <2>1. only[k] = {m}
      BY <1>1, <1>8 DEF ConvertStores, CopyByte
    <2>2. k # pos[t] + i[t]
      <3> SUFFICES ASSUME k = pos[t] + i[t] PROVE FALSE
        OBVIOUS
      <3>0. /\ pos[t] \in Nat /\ i[t] \in Nat /\ nbytes[t] \in Nat
            /\ pc[t] = "store" /\ i[t] < nbytes[t]
        BY <1>8 DEF ConvertStores, WriteInv
      <3>1. Pending(t, k)
        BY <3>0 DEF Pending
      <3>2. minor[t] = m
        BY <2>1, <3>1 DEF PendInv
      <3>3. Converted(c[t], minor[t]).case # Wrong(m)
        BY <3>2, ConvertedNotWrong
      <3> QED
        BY <1>8, <3>3 DEF ConvertStores
    <2>3. kbuf'[k] = kbuf[k]
      BY <1>8, <2>2 DEF ConvertStores
    <2>4. Pending(t, k) => Pending(t, k)'
      <3>1. /\ pos[t] \in Nat /\ i[t] \in Nat /\ nbytes[t] \in Nat /\ k \in Nat
            /\ pc[t] = "store" /\ pc'[t] = "load"
            /\ pos' = pos /\ nbytes' = nbytes /\ i'[t] = i[t] + 1
        BY <1>8 DEF ConvertStores, Slots
      <3>2. ASSUME k \in pos[t] + i[t] .. pos[t] + nbytes[t] - 1
            PROVE  k \in pos[t] + (i[t] + 1) .. pos[t] + nbytes[t] - 1
        BY <2>2, <3>1, <3>2, RangeEnds, Zenon
      <3> QED
        BY <3>1, <3>2 DEF Pending
    <2> QED
      BY <1>2, <2>2, <2>3, <2>4
  <1>9. CASE my_write_returns(t)
    <2>1. ~Pending(t, k)
      BY <1>9 DEF my_write_returns, ConvertEnds, Pending
    <2> QED
      BY <1>2, <1>9, <2>1 DEF my_write_returns, ConvertEnds, CopyByte
  <1> QED
    BY <1>3, <1>4, <1>5, <1>6, <1>7, <1>8, <1>9 DEF ThreadStep

\* A step of my_init() before the device is live finds no place written; a
\* later one, and insmod, leave the buffer alone.
LEMMA LoadCase ==
  ASSUME IInv, PendInv, CaseInv,
         insmod \/ my_init \/ my_init_fails \/ my_exit \/ UNCHANGED vars
  PROVE  PendInv' /\ CaseInv'
  <1> USE DEF vars, loadVars, fileVars, writeVars
  <1>1. CASE /\ UNCHANGED <<minor, pos, pc, nbytes, i>>
             /\ UNCHANGED <<kbuf, only>>
    BY <1>1 DEF PendInv, CaseInv, Pending
  <1>2. CASE /\ UNCHANGED <<minor, pos, pc, nbytes, i>>
             /\ open = {} /\ only' = [k \in Slots |-> {1, 2}]
    <2>1. \A t \in Threads : pc'[t] = "idle"
      BY <1>2, NobodyWrites
    <2>2. PendInv'
      BY <2>1 DEF PendInv, Pending
    <2>3. \A k \in Slots, m \in {1, 2} : only'[k] # {m}
      <3>1. \A k \in Slots : 1 \in only'[k] /\ 2 \in only'[k]
        BY <1>2
      <3> QED
        BY <3>1
    <2> QED
      BY <2>2, <2>3 DEF CaseInv
  <1>3. CASE insmod \/ UNCHANGED vars
    BY <1>1, <1>3 DEF insmod
  <1>4. CASE my_init
    <2>1. CASE step = 3
      <3>1. open = {} /\ only = [k \in Slots |-> {1, 2}]
        BY <2>1 DEF IInv, LoadInv
      <3> QED
        BY <1>2, <1>4, <3>1 DEF my_init
    <2>2. CASE step # 3
      <3>1. kbuf' = kbuf
        BY <1>4, <2>2 DEF my_init, InitOrder, IInv, TypeOK
      <3> QED
        BY <1>1, <1>4, <3>1 DEF my_init
    <2> QED
      BY <2>1, <2>2
  <1>5. CASE my_init_fails
    <2>1. step \in {1, 2, 4}
      BY <1>5 DEF my_init_fails, InitOrder
    <2>2. open = {}
      BY <2>1 DEF IInv, LoadInv
    <2> QED
      BY <1>2, <1>5, <2>2 DEF my_init_fails, Unloads
  <1>6. CASE my_exit
    BY <1>2, <1>6 DEF my_exit, Unloads
  <1> QED
    BY <1>3, <1>4, <1>5, <1>6

LEMMA NextCaseInv ==
  IInv /\ PendInv /\ CaseInv /\ [Next]_vars => PendInv' /\ CaseInv'
  <1> SUFFICES ASSUME IInv, PendInv, CaseInv, [Next]_vars
               PROVE  PendInv' /\ CaseInv'
    OBVIOUS
  <1>1. CASE insmod \/ my_init \/ my_init_fails \/ my_exit \/ UNCHANGED vars
    BY <1>1, LoadCase
  <1>2. ASSUME NEW t \in Threads, ThreadStep(t) PROVE PendInv' /\ CaseInv'
    <2>1. PendInv'
      BY <1>2, ThreadPend
    <2>2. CaseInv'
      BY <1>2, ThreadCase DEF CaseInv
    <2> QED
      BY <2>1, <2>2
  <1> QED
    BY <1>1, <1>2 DEF Next

(***************************************************************************)
(* However writes overlap, when none is going on, a place of the buffer    *)
(* that was written through one converting node only holds no letter in    *)
(* the case that this node converts.                                       *)
(***************************************************************************)
THEOREM SettledCase == Spec => []CaseSettles
  <1>1. ASSUME Init PROVE PendInv /\ CaseInv
    <2>1. ASSUME NEW t \in Threads, NEW k \in Slots PROVE ~Pending(t, k)
      BY <1>1 DEF Init, Pending
    <2>2. ASSUME NEW m \in {1, 2}, NEW k \in Slots PROVE only[k] # {m}
      BY <1>1 DEF Init
    <2> QED
      BY <2>1, <2>2 DEF PendInv, CaseInv
  <1>2. CaseInv => CaseSettles
    BY DEF CaseInv, CaseSettles, Busy, Pending, Wrong
  <1> QED
    BY <1>1, <1>2, NextCaseInv, Invariance, PTL DEF Spec
---------------------------------------------------------------------------
(***************************************************************************)
(* A writer that has the device to itself.  What it has copied is its      *)
(* text, and what convert() has come past is the text converted.           *)
(***************************************************************************)
Alone(t) == \A u \in Threads : u # t => pc[u] = "idle"

TextInv(t) ==
  /\ pc[t] = "copy" =>
       \A k \in 0 .. i[t] - 1 : kbuf[pos[t] + k] = text[t][k + 1]
  /\ pc[t] \in {"load", "store"} =>
       \A k \in 0 .. nbytes[t] - 1 :
         kbuf[pos[t] + k] = IF k < i[t] THEN Converted(text[t][k + 1], minor[t])
                                       ELSE text[t][k + 1]
  /\ pc[t] = "store" => c[t] = text[t][i[t] + 1]

AloneInv ==
  \A t \in Threads \ crowded : pc[t] # "idle" => Alone(t) /\ TextInv(t)

\* A thread that is not crowded and in my_write() is the one that makes the
\* step, unless the step is in no my_write() or makes it crowded.
LEMMA OtherAlone ==
  ASSUME IInv, AloneInv, NEW t \in Threads, ThreadStep(t),
         NEW u \in Threads \ crowded', u # t, pc'[u] # "idle"
  PROVE  (Alone(u) /\ TextInv(u))'
  <1> USE DEF IInv, TypeOK, fileVars, writeVars
  <1>1. pc'[u] = pc[u]
    BY DEF ThreadStep, my_open, my_release, my_read, my_write, CopyByte,
           CopyFaults, CopyEnds, ConvertLoads, ConvertStores, my_write_returns
  <1>2. ~my_write(t)
    <2> SUFFICES ASSUME my_write(t) PROVE FALSE
      OBVIOUS
    <2>1. u \in Busy
      BY <1>1 DEF Busy
    <2>2. crowded' = crowded \cup Busy \cup {t}
      BY <2>1 DEF my_write
    <2> QED
      BY <2>1, <2>2
  <1>3. u \notin crowded
    BY <1>2 DEF ThreadStep, my_open, my_release, my_read, CopyByte,
           CopyFaults, CopyEnds, ConvertLoads, ConvertStores, my_write_returns
  <1>4. Alone(u) /\ TextInv(u)
    BY <1>1, <1>3 DEF AloneInv
  <1>5. pc[t] = "idle"
    BY <1>4 DEF Alone
  <1>6. my_open(t) \/ my_release(t) \/ my_read(t)
    BY <1>2, <1>5 DEF ThreadStep, CopyByte, CopyFaults, CopyEnds, ConvertLoads,
           ConvertStores, my_write_returns, ConvertEnds
  <1>7. /\ pc' = pc /\ kbuf' = kbuf /\ text' = text /\ nbytes' = nbytes
        /\ i' = i /\ c' = c
    BY <1>6 DEF my_open, my_release, my_read
  <1>8. pos'[u] = pos[u] /\ minor'[u] = minor[u]
    BY <1>6 DEF my_open, my_release, my_read
  <1> QED
    BY <1>4, <1>7, <1>8 DEF Alone, TextInv

LEMMA OwnText ==
  ASSUME IInv, AloneInv, NEW t \in Threads, ThreadStep(t),
         t \notin crowded', pc'[t] # "idle"
  PROVE  (Alone(t) /\ TextInv(t))'
  <1> USE DEF IInv, TypeOK, fileVars, writeVars
  <1>1. CASE my_open(t) \/ my_release(t) \/ my_read(t)
    BY <1>1 DEF my_open, my_release, my_read, WriteInv
  <1>2. CASE my_write(t)
    <2>1. Busy = {}
      BY <1>2 DEF my_write
    <2>2. Alone(t)'
      BY <1>2, <2>1 DEF my_write, Busy, Alone
    <2>3. TextInv(t)'
      BY <1>2 DEF my_write, TextInv
    <2> QED
      BY <2>2, <2>3
  <1>3. ASSUME pc[t] # "idle", crowded' = crowded,
               \A u \in Threads : u # t => pc'[u] = pc[u]
        PROVE  Alone(t)' /\ TextInv(t)
    BY <1>3 DEF AloneInv, Alone
  <1>4. CASE CopyByte(t)
    <2>1. Alone(t)' /\ TextInv(t)
      BY <1>3, <1>4 DEF CopyByte
    <2>2. /\ pos[t] \in Nat /\ i[t] \in Nat /\ nbytes[t] \in Nat
          /\ i[t] < nbytes[t] /\ pos[t] + nbytes[t] <= KBUF_SIZE
      BY <1>4 DEF CopyByte, WriteInv
    <2>3. pos[t] + i[t] \in Slots
      BY <2>2 DEF Slots
    <2>4. TextInv(t)'
      <3>1. /\ pc'[t] = "copy" /\ i'[t] = i[t] + 1
            /\ pos' = pos /\ text' = text
        BY <1>4 DEF CopyByte
      <3>2. ASSUME NEW k \in 0 .. i[t]
            PROVE  kbuf'[pos[t] + k] = text[t][k + 1]
        <4>1. CASE k = i[t]
          BY <1>4, <2>2, <2>3, <4>1 DEF CopyByte
        <4>2. CASE k # i[t]
          <5>1. k \in 0 .. i[t] - 1
            BY <2>2, <4>2
          <5>2. kbuf'[pos[t] + k] = kbuf[pos[t] + k]
            BY <1>4, <2>2, <2>3, <4>2 DEF CopyByte, Slots
          <5> QED
            BY <1>4, <2>1, <5>1, <5>2 DEF CopyByte, TextInv
        <4> QED
          BY <4>1, <4>2
      <3> QED
        BY <2>2, <3>1, <3>2 DEF TextInv
    <2> QED
      BY <2>1, <2>4
  <1>5. CASE CopyFaults(t)
    <2>1. Alone(t)' /\ TextInv(t)
      BY <1>3, <1>5 DEF CopyFaults
    <2>2. /\ pos[t] \in Nat /\ i[t] \in Nat /\ nbytes[t] \in Nat
          /\ i[t] < nbytes[t] /\ pos[t] + nbytes[t] <= KBUF_SIZE
      BY <1>5 DEF CopyFaults, WriteInv
    <2>3. \A k \in 0 .. i[t] - 1 : kbuf'[pos[t] + k] = kbuf[pos[t] + k]
      BY <1>5, <2>2 DEF CopyFaults, Slots
    <2>4. TextInv(t)'
      BY <1>5, <2>1, <2>2, <2>3 DEF CopyFaults, TextInv
    <2> QED
      BY <2>1, <2>4
  <1>6. CASE CopyEnds(t)
    <2>1. Alone(t)' /\ TextInv(t)
      BY <1>3, <1>6 DEF CopyEnds
    <2>2. TextInv(t)'
      BY <1>6, <2>1 DEF CopyEnds, TextInv
    <2> QED
      BY <2>1, <2>2
  <1>7. CASE ConvertLoads(t)
    <2>1. Alone(t)' /\ TextInv(t)
      BY <1>3, <1>7 DEF ConvertLoads
    <2>2. i[t] \in 0 .. nbytes[t] - 1
      BY <1>7 DEF ConvertLoads
    <2>3. kbuf[pos[t] + i[t]] = text[t][i[t] + 1]
      BY <1>7, <2>1, <2>2 DEF ConvertLoads, TextInv
    <2>4. TextInv(t)'
      BY <1>7, <2>1, <2>3 DEF ConvertLoads, TextInv
    <2> QED
      BY <2>1, <2>4
  <1>8. CASE ConvertStores(t)
    <2>1. Alone(t)' /\ TextInv(t)
      BY <1>3, <1>8 DEF ConvertStores
    <2>2. /\ pos[t] \in Nat /\ i[t] \in Nat /\ nbytes[t] \in Nat
          /\ i[t] < nbytes[t] /\ pos[t] + nbytes[t] <= KBUF_SIZE
      BY <1>8 DEF ConvertStores, WriteInv
    <2>3. pos[t] + i[t] \in Slots
      BY <2>2 DEF Slots
    <2>4. TextInv(t)'
      <3>1. /\ pc'[t] = "load" /\ i'[t] = i[t] + 1 /\ pos' = pos
            /\ nbytes' = nbytes /\ text' = text /\ minor' = minor
        BY <1>8 DEF ConvertStores
      <3>2. ASSUME NEW k \in 0 .. nbytes[t] - 1
            PROVE  kbuf'[pos[t] + k] =
                     IF k < i[t] + 1 THEN Converted(text[t][k + 1], minor[t])
                                     ELSE text[t][k + 1]
        <4>1. CASE k = i[t]
          BY <1>8, <2>1, <2>2, <2>3, <4>1 DEF ConvertStores, TextInv
        <4>2. CASE k # i[t]
          <5>1. kbuf'[pos[t] + k] = kbuf[pos[t] + k]
            BY <1>8, <2>2, <2>3, <4>2 DEF ConvertStores, Slots
          <5>2. kbuf[pos[t] + k] =
                  IF k < i[t] THEN Converted(text[t][k + 1], minor[t])
                              ELSE text[t][k + 1]
            BY <1>8, <2>1 DEF ConvertStores, TextInv
          <5> QED
            BY <2>2, <4>2, <5>1, <5>2
        <4> QED
          BY <4>1, <4>2
      <3> QED
        BY <3>1, <3>2 DEF TextInv
    <2> QED
      BY <2>1, <2>4
  <1>9. CASE my_write_returns(t)
    BY <1>9 DEF my_write_returns
  <1> QED
    BY <1>1, <1>2, <1>4, <1>5, <1>6, <1>7, <1>8, <1>9 DEF ThreadStep

LEMMA NextAloneInv == IInv /\ AloneInv /\ [Next]_vars => AloneInv'
  <1> SUFFICES ASSUME IInv, AloneInv, [Next]_vars PROVE AloneInv'
    OBVIOUS
  <1> USE DEF vars, loadVars, fileVars, writeVars
  <1>1. CASE my_init \/ my_init_fails \/ my_exit
    <2>1. CASE kbuf' = kbuf
      <3>1. UNCHANGED <<kbuf, fileVars, writeVars>>
        BY <1>1, <2>1 DEF my_init, my_init_fails, my_exit, Unloads
      <3> QED
        BY <3>1 DEF AloneInv, Alone, TextInv
    <2>2. CASE kbuf' # kbuf
      <3>1. open = {}
        <4>1. CASE my_exit
          BY <4>1 DEF my_exit
        <4>2. CASE my_init_fails
          <5>1. step \in {1, 2, 4}
            BY <4>2 DEF my_init_fails, InitOrder
          <5> QED
            BY <5>1 DEF IInv, LoadInv
        <4>3. CASE my_init
          <5>1. step = 3
            BY <2>2, <4>3 DEF my_init, InitOrder, IInv, TypeOK
          <5> QED
            BY <5>1 DEF IInv, LoadInv
        <4> QED
          BY <1>1, <4>1, <4>2, <4>3
      <3>2. \A t \in Threads : pc[t] = "idle"
        BY <3>1, NobodyWrites
      <3>3. pc' = pc
        BY <1>1 DEF my_init, my_init_fails, my_exit, Unloads
      <3> QED
        BY <3>2, <3>3 DEF AloneInv
    <2> QED
      BY <2>1, <2>2
  <1>2. CASE insmod \/ UNCHANGED vars
    BY <1>2 DEF insmod, AloneInv, Alone, TextInv
  <1>3. ASSUME NEW t \in Threads, ThreadStep(t) PROVE AloneInv'
    BY <1>3, OtherAlone, OwnText DEF AloneInv
  <1> QED
    BY <1>1, <1>2, <1>3 DEF Next

(***************************************************************************)
(* A write that had the device to itself leaves its text in the buffer,    *)
(* converted as its node says, whatever earlier writes have left there.    *)
(***************************************************************************)
THEOREM TextConverted == Spec => []WritesConverted
  <1>1. Init => AloneInv
    BY DEF Init, AloneInv
  <1>2. IInv /\ AloneInv => WritesConverted
    <2> SUFFICES ASSUME IInv, AloneInv, NEW t \in Threads \ crowded,
                        ConvertEnds(t), NEW k \in 0 .. nbytes[t] - 1
                 PROVE  kbuf[pos[t] + k] = Converted(text[t][k + 1], minor[t])
      BY DEF WritesConverted
    <2>1. pc[t] = "load" /\ i[t] = nbytes[t]
      BY DEF ConvertEnds
    <2>2. TextInv(t) /\ nbytes[t] \in Nat
      BY <2>1 DEF AloneInv, IInv, TypeOK
    <2> QED
      BY <2>1, <2>2 DEF TextInv
  <1> QED
    BY <1>1, <1>2, NextAloneInv, Invariance, PTL DEF Spec
=============================================================================
