----------------------------- MODULE SbdProofs -----------------------------
(***************************************************************************)
(* Proofs about the block driver for every number of clients, every        *)
(* capacity and every set of data: type correctness, and that the driver   *)
(* implements AtomicDisk when the logical block size is the kernel's       *)
(* sector size and the size of the device does not overflow an int.        *)
(***************************************************************************)
EXTENDS Sbd, TLAPS

USE GeometryAssumption, RequestAssumption

LEMMA SizeIsNat == DeviceSize \in Nat
  BY SMT DEF DeviceSize

\* A transfer to the device stays within the store and keeps its type.
LEMMA TransferOutType ==
  ASSUME TypeOK, req # NoReq, NEW n \in 1 .. nsectors, Segment(n),
         NEW sector \in Nat, NEW junk \in Data
  PROVE  TransferOut(sector, n, junk) \in [Chunks -> Data]
  <1> USE SizeIsNat
  <1>1. CASE BeyondEnd(sector, n)
    BY <1>1 DEF TransferOut, TypeOK
  <1>2. CASE ~BeyondEnd(sector, n)
    <2> DEFINE off == sector * lbs
    <2>1. off \in Nat
      OBVIOUS
    <2> HIDE DEF off
    <2>2. ASSUME NEW k \in Chunks, k >= off, k - off < n
          PROVE  rq[req].buf[done + (k - off)] \in Data
      <3>1. /\ rq[req].buf \in [0 .. rq[req].len - 1 -> Data]
            /\ rq[req].len \in Nat /\ done \in Nat
        BY DEF TypeOK, Request
      <3>2. done + (k - off) \in 0 .. rq[req].len - 1
        BY <2>1, <2>2, <3>1 DEF Chunks, Segment
      <3> QED
        BY <3>1, <3>2
    <2>3. ASSUME NEW k \in Chunks
          PROVE  data[k] \in Data
      BY <2>3 DEF TypeOK
    <2>4. TransferOut(sector, n, junk) =
            [k \in Chunks |->
               IF k \in off .. off + n * lbs - 1
                 THEN IF k - off < n THEN rq[req].buf[done + (k - off)]
                                     ELSE junk
                 ELSE data[k]]
      BY <1>2 DEF TransferOut, off
    <2>5. n * lbs \in Nat
      OBVIOUS
    <2> QED
      BY <2>1, <2>2, <2>3, <2>4, <2>5 DEF Chunks
  <1> QED
    BY <1>1, <1>2

\* A transfer from the device fills the buffer with data.
LEMMA TransferInType ==
  ASSUME TypeOK, req # NoReq, NEW n \in 1 .. nsectors, Segment(n),
         NEW sector \in Nat
  PROVE  TransferIn(sector, n) \in [0 .. rq[req].len - 1 -> Data]
  <1> USE SizeIsNat
  <1>1. CASE BeyondEnd(sector, n)
    BY <1>1 DEF TransferIn, TypeOK
  <1>2. CASE ~BeyondEnd(sector, n)
    <2> DEFINE off == sector * lbs
    <2> DEFINE nb == n * lbs
    <2>1. off \in Nat /\ nb >= n /\ nb \in Nat
      OBVIOUS
    <2>2. off + nb <= DeviceSize
      BY <1>2, <2>1 DEF BeyondEnd
    <2> HIDE DEF off, nb
    <2>d. done \in Nat
      BY DEF TypeOK
    <2>3. ASSUME NEW i \in done .. done + n - 1
          PROVE  data[off + (i - done)] \in Data
      <3>1. off + (i - done) \in Chunks
        BY <2>1, <2>2, <2>3, <2>d DEF Chunks
      <3> QED
        BY <3>1 DEF TypeOK
    <2>4. ASSUME NEW i \in 0 .. rq[req].len - 1
          PROVE  rq[req].buf[i] \in Data
      BY <2>4 DEF TypeOK
    <2>5. TransferIn(sector, n) =
            [i \in 0 .. rq[req].len - 1 |->
               IF i \in done .. done + n - 1 THEN data[off + (i - done)]
                                             ELSE rq[req].buf[i]]
      BY <1>2 DEF TransferIn, off
    <2> QED
      BY <2>3, <2>4, <2>5 DEF TypeOK
  <1> QED
    BY <1>1, <1>2

LEMMA BufferType ==
  ASSUME NEW n \in 0 .. nsectors, NEW b \in [0 .. n - 1 -> Data]
  PROVE  b \in Buffer
  BY DEF Buffer

LEMMA InitTypeOK == Init => TypeOK
  <1> SUFFICES ASSUME Init PROVE TypeOK
    OBVIOUS
  <1>1. NoRequest.buf \in [0 .. NoRequest.len - 1 -> Data]
    BY DEF NoRequest
  <1>2. NoRequest \in Request
    <2>1. NoRequest.buf \in Buffer
      <3>1. NoRequest.len \in 0 .. nsectors
        BY DEF NoRequest
      <3> QED
        BY <1>1, <3>1, BufferType
    <2> QED
      BY <2>1 DEF NoRequest, Request
  <1>3. /\ rq \in [Clients -> Request]
        /\ \A c \in Clients : rq[c] = NoRequest
    BY <1>2 DEF Init
  <1>4. NoRequest.pos + NoRequest.len <= nsectors
    BY DEF NoRequest
  <1>5. data \in [Chunks -> Data] /\ media \in [Sectors -> Data \cup {Unwritten}]
    BY DEF Init
  <1>6. \A c \in Clients :
          /\ rq[c].buf \in [0 .. rq[c].len - 1 -> Data]
          /\ rq[c].pos + rq[c].len <= nsectors
    <2> SUFFICES ASSUME NEW c \in Clients
                 PROVE  /\ rq[c].buf \in [0 .. rq[c].len - 1 -> Data]
                        /\ rq[c].pos + rq[c].len <= nsectors
      OBVIOUS
    <2>1. rq[c] = NoRequest
      BY <1>3
    <2> QED
      BY <1>1, <1>4, <2>1
  <1>7. loaded \in BOOLEAN
    BY Zenon DEF Init
  <1>8. /\ major_num \in Nat
        /\ held \subseteq Resources /\ leaked \subseteq Resources
        /\ lock \in {"free", "driver"} /\ req \in Clients \cup {NoReq}
        /\ done \in 0 .. nsectors
    BY DEF Init
  <1> QED
    BY <1>3, <1>5, <1>6, <1>7, <1>8 DEF TypeOK

\* Changing a request into another well-formed one keeps all well-formed.
LEMMA RequestUpdate ==
  ASSUME TypeOK, NEW c \in Clients, NEW r \in Request,
         r.buf \in [0 .. r.len - 1 -> Data], r.pos + r.len <= nsectors,
         rq' = [rq EXCEPT ![c] = r]
  PROVE  /\ rq' \in [Clients -> Request]
         /\ \A d \in Clients :
              /\ rq'[d].buf \in [0 .. rq'[d].len - 1 -> Data]
              /\ rq'[d].pos + rq'[d].len <= nsectors
  BY DEF TypeOK

LEMMA SubmitType ==
  ASSUME TypeOK, NEW c \in Clients, Submit(c)
  PROVE  TypeOK'
  <1>1. PICK fs \in CmdTypes, write \in BOOLEAN, pos \in Sectors :
          \E len \in 1 .. nsectors - pos :
            \E buf \in [0 .. len - 1 -> IF write THEN Data ELSE {Blank}] :
              rq' = [rq EXCEPT ![c] =
                       [st |-> "queued", fs |-> fs, write |-> write,
                        pos |-> pos, len |-> len, buf |-> buf,
                        err |-> "none"]]
    BY DEF Submit
  <1>a. PICK len \in 1 .. nsectors - pos :
          \E buf \in [0 .. len - 1 -> IF write THEN Data ELSE {Blank}] :
            rq' = [rq EXCEPT ![c] =
                     [st |-> "queued", fs |-> fs, write |-> write,
                      pos |-> pos, len |-> len, buf |-> buf, err |-> "none"]]
    BY <1>1
  <1>2. PICK buf \in [0 .. len - 1 -> IF write THEN Data ELSE {Blank}] :
          rq' = [rq EXCEPT ![c] =
                   [st |-> "queued", fs |-> fs, write |-> write,
                    pos |-> pos, len |-> len, buf |-> buf, err |-> "none"]]
    BY <1>a
  <1> DEFINE r == [st |-> "queued", fs |-> fs, write |-> write, pos |-> pos,
                   len |-> len, buf |-> buf, err |-> "none"]
  <1>3. pos \in 0 .. nsectors /\ len \in 0 .. nsectors /\ pos + len <= nsectors
    BY DEF Sectors
  <1>4. buf \in [0 .. len - 1 -> Data]
    OBVIOUS
  <1>5. buf \in Buffer
    BY <1>3, <1>4, BufferType
  <1>6. r \in Request
    BY <1>3, <1>5 DEF Request
  <1>7. /\ rq' \in [Clients -> Request]
        /\ \A d \in Clients :
             /\ rq'[d].buf \in [0 .. rq'[d].len - 1 -> Data]
             /\ rq'[d].pos + rq'[d].len <= nsectors
    BY <1>2, <1>3, <1>4, <1>6, RequestUpdate
  <1> QED
    BY <1>7 DEF Submit, TypeOK, lifeVars, driverVars

LEMMA ServeSegmentType ==
  ASSUME TypeOK, NEW n \in 1 .. nsectors, ServeSegment(n)
  PROVE  TypeOK'
  <1> DEFINE q      == rq[req]
             sector == q.pos + done
             buf    == IF q.write THEN q.buf ELSE TransferIn(sector, n)
             r      == IF EndsRequest(n)
                         THEN [q EXCEPT !.buf = buf, !.st = "done", !.err = "ok"]
                         ELSE [q EXCEPT !.buf = buf]
  <1>1. req \in Clients /\ req # NoReq /\ Segment(n)
    BY DEF ServeSegment, TypeOK
  <1>2. /\ q \in Request
        /\ q.buf \in [0 .. q.len - 1 -> Data]
        /\ q.pos + q.len <= nsectors
        /\ q.len \in 0 .. nsectors /\ q.pos \in 0 .. nsectors
    BY <1>1 DEF TypeOK, Request
  <1>3. done \in Nat /\ sector \in Nat
    BY <1>2 DEF TypeOK
  <1>4. done + n \in 0 .. nsectors
    BY <1>2, <1>3, <1>1 DEF Segment
  <1>5. buf \in [0 .. q.len - 1 -> Data]
    BY <1>1, <1>2, <1>3, TransferInType
  <1>6. buf \in Buffer
    BY <1>2, <1>5, BufferType
  <1>7. r \in Request /\ r.buf = buf /\ r.len = q.len /\ r.pos = q.pos
    BY <1>2, <1>6 DEF Request
  <1>8. rq' = [rq EXCEPT ![req] = r]
    BY <1>1 DEF ServeSegment, TypeOK
  <1>9. /\ rq' \in [Clients -> Request]
        /\ \A d \in Clients :
             /\ rq'[d].buf \in [0 .. rq'[d].len - 1 -> Data]
             /\ rq'[d].pos + rq'[d].len <= nsectors
    <2>1. r.buf \in [0 .. r.len - 1 -> Data] /\ r.pos + r.len <= nsectors
      BY <1>2, <1>5, <1>7
    <2> HIDE DEF r
    <2> QED
      BY <1>1, <1>7, <1>8, <2>1, RequestUpdate
  <1>10. data' \in [Chunks -> Data]
    <2>1. ASSUME NEW junk \in Data
          PROVE  TransferOut(sector, n, junk) \in [Chunks -> Data]
      BY <1>1, <1>3, TransferOutType
    <2> QED
      BY <2>1 DEF ServeSegment, TypeOK
  <1>11. media' \in [Sectors -> Data \cup {Unwritten}]
    <2>1. ASSUME NEW s \in q.pos .. q.pos + q.len - 1
          PROVE  q.buf[s - q.pos] \in Data
      <3>1. s - q.pos \in 0 .. q.len - 1
        BY <1>2
      <3> QED
        BY <1>2, <3>1
    <2>2. ASSUME NEW s \in Sectors
          PROVE  media[s] \in Data \cup {Unwritten}
      BY DEF TypeOK
    <2>3. \/ media' = media
          \/ media' = [s \in Sectors |->
                         IF s \in q.pos .. q.pos + q.len - 1
                           THEN q.buf[s - q.pos] ELSE media[s]]
      BY DEF ServeSegment
    <2> HIDE DEF q
    <2> QED
      BY <2>1, <2>2, <2>3 DEF TypeOK
  <1>12. /\ req' \in Clients \cup {NoReq} /\ done' \in 0 .. nsectors
         /\ lock' = lock
         /\ UNCHANGED <<loaded, major_num, held, leaked>>
    BY <1>1, <1>4 DEF ServeSegment, lifeVars
  <1> QED
    BY <1>9, <1>10, <1>11, <1>12 DEF TypeOK

LEMMA NextTypeOK == TypeOK /\ [Next]_vars => TypeOK'
  <1> SUFFICES ASSUME TypeOK, [Next]_vars PROVE TypeOK'
    OBVIOUS
  <1>1. CASE sbd_init
    BY <1>1 DEF sbd_init, TypeOK, register_blkdev, driverVars, Resources, Acquired,
                   Number
  <1>2. CASE sbd_init_fails
    <2>1. PICK major \in {0, major_param},
               step \in {"vmalloc", "queue", "major", "disk"} :
            leaked' = leaked \cup (AcquiredBefore(step, major)
                                    \ Unwound(step, major))
      BY <1>2 DEF sbd_init_fails
    <2>2. AcquiredBefore(step, major) \subseteq Resources
      BY DEF AcquiredBefore, Number, Resources
    <2> QED
      BY <1>2, <2>1, <2>2 DEF sbd_init_fails, TypeOK, driverVars
  <1>3. CASE sbd_exit
    BY <1>3 DEF sbd_exit, TypeOK, driverVars
  <1>4. CASE RunQueue
    BY <1>4 DEF RunQueue, TypeOK, lifeVars
  <1>5. ASSUME NEW c \in Clients, blk_fetch_request(c) PROVE TypeOK'
    BY <1>5 DEF blk_fetch_request, TypeOK, lifeVars
  <1>6. ASSUME NEW n \in 1 .. nsectors, ServeSegment(n) PROVE TypeOK'
    BY <1>6, ServeSegmentType
  <1>7. CASE SkipNonFs
    <2> DEFINE r == [rq[req] EXCEPT !.st = "done", !.err = "EIO"]
    <2>1. req \in Clients
      BY <1>7 DEF SkipNonFs, TypeOK
    <2>2. rq' = [rq EXCEPT ![req] = r]
      BY <1>7, <2>1 DEF SkipNonFs, TypeOK, Request
    <2>3. r \in Request /\ r.buf = rq[req].buf /\ r.len = rq[req].len
          /\ r.pos = rq[req].pos
      BY <2>1 DEF TypeOK, Request
    <2>4. r.buf \in [0 .. r.len - 1 -> Data] /\ r.pos + r.len <= nsectors
      BY <2>1, <2>3 DEF TypeOK
    <2> HIDE DEF r
    <2>5. /\ rq' \in [Clients -> Request]
          /\ \A d \in Clients :
               /\ rq'[d].buf \in [0 .. rq'[d].len - 1 -> Data]
               /\ rq'[d].pos + rq'[d].len <= nsectors
      BY <2>1, <2>2, <2>3, <2>4, RequestUpdate
    <2> QED
      BY <1>7, <2>5 DEF SkipNonFs, TypeOK, lifeVars, driverVars
  <1>8. CASE SpinOnEnded \/ UNCHANGED vars
    BY <1>8 DEF SpinOnEnded, TypeOK, vars, lifeVars, driverVars
  <1>9. CASE sbd_request_returns
    BY <1>9 DEF sbd_request_returns, TypeOK, lifeVars
  <1>10. ASSUME NEW c \in Clients, Submit(c) PROVE TypeOK'
    BY <1>10, SubmitType
  <1> QED
    BY <1>1, <1>2, <1>3, <1>4, <1>5, <1>6, <1>7, <1>8, <1>9, <1>10
       DEF Next, sbd_request

(***************************************************************************)
(* Every variable of the driver keeps its type, for all parameters: no     *)
(* transfer leaves the store or the buffer of its request, whatever the    *)
(* logical block size and even when the size of the device has wrapped.    *)
(***************************************************************************)
THEOREM TypeCorrect == Spec => []TypeOK
  BY InitTypeOK, NextTypeOK, PTL DEF Spec

---------------------------------------------------------------------------
(***************************************************************************)
(* What life cycles of the module leave behind, for every major number.    *)
(* While the module is loaded it holds everything, and major_num is what   *)
(* register_blkdev() has returned: that is what sbd_exit() goes by.        *)
(***************************************************************************)
LifeInv ==
  /\ LeaksAtMostTheQueue
  /\ loaded => \E major \in {0, major_param} :
                 held = Acquired(major) /\ major_num = register_blkdev(major)

LEMMA FailedLoad ==
  ASSUME LeaksAtMostTheQueue, sbd_init_fails
  PROVE  /\ leaked' \subseteq {"queue"} \cup {r \in {"given"} : major_param # 0}
         /\ ~loaded'
  <1>1. PICK major \in {0, major_param},
             step \in {"vmalloc", "queue", "major", "disk"} :
          leaked' = leaked \cup (AcquiredBefore(step, major)
                                    \ Unwound(step, major))
    BY DEF sbd_init_fails
  <1>2. CASE step = "vmalloc"
    BY <1>1, <1>2 DEF LeaksAtMostTheQueue, AcquiredBefore, Unwound, Number,
                      sbd_init_fails
  <1>3. CASE step \in {"queue", "major"}
    BY <1>1, <1>3 DEF LeaksAtMostTheQueue, AcquiredBefore, Unwound, Number,
                      sbd_init_fails
  <1>4. CASE step = "disk"
    <2>1. major = 0 => register_blkdev(major) # 0
      BY DEF register_blkdev
    <2> QED
      BY <1>1, <1>4, <2>1
         DEF LeaksAtMostTheQueue, AcquiredBefore, Unwound, Number,
                      sbd_init_fails
  <1> QED
    BY <1>1, <1>2, <1>3, <1>4

LEMMA NextLifeInv == LifeInv /\ [Next]_vars => LifeInv'
  <1> SUFFICES ASSUME LifeInv, [Next]_vars PROVE LifeInv'
    OBVIOUS
  <1>1. CASE sbd_init
    BY <1>1
       DEF sbd_init, LifeInv, LeaksAtMostTheQueue, MajorFree, Acquired, Number
  <1>2. CASE sbd_init_fails
    BY <1>2, FailedLoad DEF sbd_init_fails, LifeInv, LeaksAtMostTheQueue
  <1>3. CASE sbd_exit
    <2>1. PICK major \in {0, major_param} :
            held = Acquired(major) /\ major_num = register_blkdev(major)
      BY <1>3 DEF sbd_exit, ExitAllowed, LifeInv
    <2>2. \A r \in held \cap {"major", "given"} :
            major_num = 0 => r = "given" /\ major_param # 0
      <3>1. CASE major = 0
        BY <2>1, <3>1 DEF register_blkdev
      <3>2. CASE major # 0
        BY <2>1, <3>2 DEF Acquired, Number
      <3> QED
        BY <3>1, <3>2
    <2> QED
      BY <1>3, <2>2 DEF sbd_exit, LifeInv, LeaksAtMostTheQueue
  <1>4. CASE UNCHANGED lifeVars
    BY <1>4 DEF lifeVars, LifeInv, LeaksAtMostTheQueue
  <1>5. ASSUME NEW n \in 1 .. nsectors, ServeSegment(n)
        PROVE  UNCHANGED lifeVars
    BY <1>5 DEF ServeSegment
  <1>6. ASSUME NEW c \in Clients, blk_fetch_request(c) \/ Submit(c)
        PROVE  UNCHANGED lifeVars
    BY <1>6 DEF blk_fetch_request, Submit
  <1>7. ASSUME RunQueue \/ SkipNonFs \/ SpinOnEnded \/ sbd_request_returns
               \/ UNCHANGED vars
        PROVE  UNCHANGED lifeVars
    BY <1>7 DEF RunQueue, SkipNonFs, SpinOnEnded, sbd_request_returns, vars
  <1> QED
    BY <1>1, <1>2, <1>3, <1>4, <1>5, <1>6, <1>7 DEF Next, sbd_request

(***************************************************************************)
(* Whichever steps of sbd_init() fail, and whether a major number is given *)
(* or not, life cycles leave at most the request queue and a given number  *)
(* behind.                                                                 *)
(***************************************************************************)
THEOREM NoLeak == Spec => []LeaksAtMostTheQueue
  <1>1. Init => LifeInv
    BY DEF Init, LifeInv, LeaksAtMostTheQueue
  <1>2. LifeInv => LeaksAtMostTheQueue
    BY DEF LifeInv
  <1> QED
    BY <1>1, <1>2, NextLifeInv, PTL DEF Spec

---------------------------------------------------------------------------
(***************************************************************************)
(* The refinement, for the default geometry.                               *)
(***************************************************************************)
LEMMA StoreIsDisk ==
  ASSUME DefaultGeometry
  PROVE  DeviceSize = nsectors /\ Chunks = Sectors /\ lbs = 1
  BY DEF DefaultGeometry, DeviceSize, Chunks, Sectors

\* The request in progress, as far as the lemmas below need it.
LEMMA InProgress ==
  ASSUME TypeOK, NEW n \in 1 .. nsectors, ServeSegment(n)
  PROVE  /\ req \in Clients /\ rq[req] \in Request
         /\ rq[req].st = "queued" /\ rq[req].fs
         /\ rq[req].pos \in Nat /\ rq[req].len \in Nat /\ done \in Nat
         /\ n \in Nat /\ n > 0 /\ done + n <= rq[req].len
         /\ rq[req].pos + rq[req].len <= nsectors
         /\ rq[req].write \in BOOLEAN
         /\ rq[req].buf \in [0 .. rq[req].len - 1 -> Data]
  <1>1. /\ req # NoReq /\ rq[req].st = "queued" /\ rq[req].fs
        /\ n \in 1 .. rq[req].len - done
    BY Zenon DEF ServeSegment, Segment
  <1>2. req \in Clients /\ rq[req] \in Request /\ done \in Nat
    BY <1>1 DEF TypeOK
  <1>3. /\ rq[req].pos + rq[req].len <= nsectors
        /\ rq[req].buf \in [0 .. rq[req].len - 1 -> Data]
    BY <1>2 DEF TypeOK
  <1>4. /\ rq[req].pos \in Nat /\ rq[req].len \in Nat
        /\ rq[req].write \in BOOLEAN
    BY <1>2 DEF Request
  <1>5. n \in Nat /\ n > 0 /\ done + n <= rq[req].len
    BY <1>1, <1>2, <1>4
  <1> QED
    BY <1>1, <1>2, <1>3, <1>4, <1>5

\* A segment of a write reaches its own sectors and no other.
LEMMA TransferOutSectors ==
  ASSUME DefaultGeometry, TypeOK, NEW n \in 1 .. nsectors, ServeSegment(n),
         NEW junk \in Data
  PROVE  TransferOut(rq[req].pos + done, n, junk) =
           [k \in Sectors |->
              IF k \in rq[req].pos + done .. rq[req].pos + done + n - 1
                THEN rq[req].buf[k - rq[req].pos] ELSE data[k]]
  <1> DEFINE p == rq[req].pos
             b == rq[req].buf
  <1>1. p \in Nat /\ done \in Nat /\ p + done + n <= nsectors
    BY InProgress
  <1> HIDE DEF p, b
  <1>2. (p + done) * lbs = p + done /\ n * lbs = n
    BY <1>1, StoreIsDisk
  <1>3. ~BeyondEnd(p + done, n)
    BY <1>1, <1>2, StoreIsDisk DEF BeyondEnd
  <1>4. TransferOut(p + done, n, junk) =
          [k \in Sectors |->
             IF k \in p + done .. p + done + n - 1
               THEN IF k - (p + done) < n
                      THEN b[done + (k - (p + done))] ELSE junk
               ELSE data[k]]
    BY <1>2, <1>3, StoreIsDisk DEF TransferOut, b
  <1>5. ASSUME NEW k \in Sectors, k \in p + done .. p + done + n - 1
        PROVE  k - (p + done) < n /\ done + (k - (p + done)) = k - p
    BY <1>1, <1>5 DEF Sectors
  <1> QED
    BY <1>4, <1>5 DEF p, b

\* A segment of a read fills its own part of the buffer.
LEMMA TransferInSectors ==
  ASSUME DefaultGeometry, TypeOK, NEW n \in 1 .. nsectors, ServeSegment(n)
  PROVE  TransferIn(rq[req].pos + done, n) =
           [i \in 0 .. rq[req].len - 1 |->
              IF i \in done .. done + n - 1
                THEN data[rq[req].pos + i] ELSE rq[req].buf[i]]
  <1> DEFINE p == rq[req].pos
             b == rq[req].buf
             l == rq[req].len
  <1>1. p \in Nat /\ done \in Nat /\ p + done + n <= nsectors /\ l \in Nat
    BY InProgress
  <1> HIDE DEF p, b, l
  <1>2. (p + done) * lbs = p + done /\ n * lbs = n
    BY <1>1, StoreIsDisk
  <1>3. ~BeyondEnd(p + done, n)
    BY <1>1, <1>2, StoreIsDisk DEF BeyondEnd
  <1>4. TransferIn(p + done, n) =
          [i \in 0 .. l - 1 |->
             IF i \in done .. done + n - 1
               THEN data[p + done + (i - done)] ELSE b[i]]
    BY <1>2, <1>3 DEF TransferIn, b, l
  <1>5. ASSUME NEW i \in 0 .. l - 1
        PROVE  p + done + (i - done) = p + i
    BY <1>1
  <1> QED
    BY <1>4, <1>5 DEF p, b, l

LEMMA InitAgreement == Init => Agreement
  <1> SUFFICES ASSUME Init PROVE Agreement
    OBVIOUS
  <1>1. req = NoReq /\ ~Transferring
    BY DEF Init, Transferring
  <1>2. ASSUME NEW c \in Clients PROVE rq[c].st # "queued"
    BY DEF Init, NoRequest
  <1>3. \A s \in Sectors : media[s] = Unwritten
    BY DEF Init
  <1> QED
    BY <1>1, <1>2, <1>3
       DEF Agreement, StoreAgrees, BufferAgrees, LoopState

\* What a segment does to the driver's variables.
LEMMA ServeEffect ==
  ASSUME DefaultGeometry, TypeOK, NEW n \in 1 .. nsectors, ServeSegment(n)
  PROVE  /\ data' = IF rq[req].write
                     THEN [k \in Sectors |->
                             IF k \in rq[req].pos + done ..
                                      rq[req].pos + done + n - 1
                               THEN rq[req].buf[k - rq[req].pos]
                               ELSE data[k]]
                     ELSE data
         /\ media' = IF done + n = rq[req].len /\ rq[req].write
                      THEN [s \in Sectors |->
                              IF s \in rq[req].pos ..
                                       rq[req].pos + rq[req].len - 1
                                THEN rq[req].buf[s - rq[req].pos]
                                ELSE media[s]]
                      ELSE media
         /\ req' = IF done + n = rq[req].len THEN NoReq ELSE req
         /\ done' = IF done + n = rq[req].len THEN 0 ELSE done + n
         /\ lock = "driver" /\ lock' = lock /\ UNCHANGED lifeVars
  <1>1. PICK junk \in Data :
          data' = IF rq[req].write
                    THEN TransferOut(rq[req].pos + done, n, junk) ELSE data
    BY Zenon DEF ServeSegment
  <1>2. TransferOut(rq[req].pos + done, n, junk) =
          [k \in Sectors |->
             IF k \in rq[req].pos + done .. rq[req].pos + done + n - 1
               THEN rq[req].buf[k - rq[req].pos] ELSE data[k]]
    BY TransferOutSectors
  <1>3. /\ media' = IF done + n = rq[req].len /\ rq[req].write
                     THEN [s \in Sectors |->
                             IF s \in rq[req].pos ..
                                      rq[req].pos + rq[req].len - 1
                               THEN rq[req].buf[s - rq[req].pos]
                               ELSE media[s]]
                     ELSE media
        /\ req' = IF done + n = rq[req].len THEN NoReq ELSE req
        /\ done' = IF done + n = rq[req].len THEN 0 ELSE done + n
        /\ lock = "driver" /\ lock' = lock /\ UNCHANGED lifeVars
    BY Zenon DEF ServeSegment, EndsRequest
  <1> QED
    BY <1>1, <1>2, <1>3, Zenon

\* What a segment does to the requests.
LEMMA ServeRequest ==
  ASSUME DefaultGeometry, TypeOK, NEW n \in 1 .. nsectors, ServeSegment(n)
  PROVE  /\ \A c \in Clients \ {req} : rq'[c] = rq[c]
         /\ rq'[req].pos = rq[req].pos /\ rq'[req].len = rq[req].len
         /\ rq'[req].write = rq[req].write /\ rq'[req].fs = rq[req].fs
         /\ rq'[req].st = IF done + n = rq[req].len THEN "done" ELSE "queued"
         /\ rq'[req].err = IF done + n = rq[req].len THEN "ok"
                                                    ELSE rq[req].err
         /\ rq[req].write => rq'[req].buf = rq[req].buf
         /\ ~rq[req].write =>
              rq'[req].buf = [i \in 0 .. rq[req].len - 1 |->
                                IF i \in done .. done + n - 1
                                  THEN data[rq[req].pos + i]
                                  ELSE rq[req].buf[i]]
  <1> DEFINE q == rq[req]
             buf == IF q.write THEN q.buf
                               ELSE [i \in 0 .. q.len - 1 |->
                                       IF i \in done .. done + n - 1
                                         THEN data[q.pos + i] ELSE q.buf[i]]
  <1>1. /\ req \in Clients /\ q \in Request /\ q.st = "queued"
        /\ q.write \in BOOLEAN
    BY InProgress
  <1>2. rq' = [rq EXCEPT ![req] =
                 IF done + n = q.len
                   THEN [q EXCEPT !.buf = buf, !.st = "done", !.err = "ok"]
                   ELSE [q EXCEPT !.buf = buf]]
    <2>1. rq' = [rq EXCEPT ![req] =
                   IF done + n = q.len
                     THEN [@ EXCEPT !.buf = IF q.write THEN q.buf
                                            ELSE TransferIn(q.pos + done, n),
                                    !.st = "done", !.err = "ok"]
                     ELSE [@ EXCEPT !.buf = IF q.write THEN q.buf
                                            ELSE TransferIn(q.pos + done, n)]]
      BY Zenon DEF ServeSegment, EndsRequest
    <2>2. TransferIn(q.pos + done, n) =
            [i \in 0 .. q.len - 1 |->
               IF i \in done .. done + n - 1
                 THEN data[q.pos + i] ELSE q.buf[i]]
      BY TransferInSectors
    <2> QED
      BY <2>1, <2>2, Zenon
  <1>3. rq \in [Clients -> Request]
    BY DEF TypeOK
  <1>4. /\ \A c \in Clients \ {req} : rq'[c] = rq[c]
        /\ rq'[req] = IF done + n = q.len
                        THEN [q EXCEPT !.buf = buf, !.st = "done", !.err = "ok"]
                        ELSE [q EXCEPT !.buf = buf]
    <2> HIDE DEF q, buf
    <2> QED
      BY <1>1, <1>2, <1>3
  <1>5. /\ rq'[req].pos = q.pos /\ rq'[req].len = q.len
        /\ rq'[req].write = q.write /\ rq'[req].fs = q.fs
        /\ rq'[req].st = IF done + n = q.len THEN "done" ELSE "queued"
        /\ rq'[req].err = IF done + n = q.len THEN "ok" ELSE q.err
        /\ rq'[req].buf = buf
    <2> HIDE DEF q, buf
    <2> QED
      BY <1>1, <1>4 DEF Request
  <1> QED
    BY <1>4, <1>5

LEMMA ServeAgreement ==
  ASSUME DefaultGeometry, TypeOK, Agreement,
         NEW n \in 1 .. nsectors, ServeSegment(n)
  PROVE  Agreement'
  <1> DEFINE p == rq[req].pos
             l == rq[req].len
             b == rq[req].buf
             w == rq[req].write
             last == done + n = l
  <1>1. /\ req \in Clients /\ p \in Nat /\ l \in Nat /\ done \in Nat
        /\ n \in Nat /\ n > 0 /\ done + n <= l /\ p + l <= nsectors
        /\ w \in BOOLEAN /\ b \in [0 .. l - 1 -> Data]
        /\ rq[req].st = "queued" /\ rq[req].fs
    BY InProgress
  <1>2. Transferring /\ req # NoReq
    BY <1>1 DEF Transferring
  <1>3. /\ \A c \in Clients \ {req} : rq'[c] = rq[c]
        /\ rq'[req].pos = p /\ rq'[req].len = l /\ rq'[req].write = w
        /\ rq'[req].fs = rq[req].fs
        /\ rq'[req].st = IF last THEN "done" ELSE "queued"
        /\ w => rq'[req].buf = b
        /\ ~w => rq'[req].buf = [i \in 0 .. l - 1 |->
                                  IF i \in done .. done + n - 1
                                    THEN data[p + i] ELSE b[i]]
    BY ServeRequest
  <1>4. /\ data' = IF w THEN [k \in Sectors |->
                              IF k \in p + done .. p + done + n - 1
                                THEN b[k - p] ELSE data[k]]
                       ELSE data
        /\ media' = IF last /\ w
                     THEN [s \in Sectors |-> IF s \in p .. p + l - 1
                                               THEN b[s - p] ELSE media[s]]
                     ELSE media
        /\ req' = IF last THEN NoReq ELSE req
        /\ done' = IF last THEN 0 ELSE done + n
        /\ lock = "driver" /\ lock' = lock /\ loaded' = loaded
    BY ServeEffect DEF lifeVars
  <1>5. /\ Transferring' <=> ~last
        /\ ~last => /\ req' = req /\ done' = done + n
    BY <1>1, <1>2, <1>3, <1>4 DEF Transferring
  <1>6. ASSUME NEW s \in Sectors
        PROVE  IF w /\ s \in p .. p + done - 1
                 THEN data[s] = b[s - p]
                 ELSE media[s] = Unwritten \/ data[s] = media[s]
    BY <1>2 DEF Agreement, StoreAgrees, Covered
  <1>7. ~w => \A i \in 0 .. done - 1 :
                media[p + i] = Unwritten \/ b[i] = media[p + i]
    BY <1>2 DEF Agreement, BufferAgrees
  <1>8. StoreAgrees'
    <2> HIDE DEF p, l, b, w, last
    <2>1. SUFFICES ASSUME NEW s \in Sectors
          PROVE  IF ~last /\ w /\ s \in p .. p + (done + n) - 1
                   THEN data'[s] = b[s - p]
                   ELSE media'[s] = Unwritten \/ data'[s] = media'[s]
      <3>1. CASE last
        <4>1. ~Transferring'
          BY <1>5, <3>1
        <4> QED
          BY <2>1, <3>1, <4>1 DEF StoreAgrees, Sectors
      <3>2. CASE ~last
        <4>1. /\ Transferring' /\ rq'[req'].write = w /\ rq'[req'].pos = p
              /\ w => rq'[req'].buf = b
              /\ done' = done + n
          BY <1>3, <1>5, <3>2 DEF p, w, b
        <4> QED
          BY <2>1, <3>2, <4>1 DEF StoreAgrees, Covered, Sectors
      <3> QED
        BY <3>1, <3>2
    <2>2. s \in Nat
      BY DEF Sectors
    <2>3. CASE ~w
      BY <1>4, <1>6, <2>3
    <2>4. CASE w /\ ~last
      BY <1>1, <1>4, <1>6, <2>2, <2>4
    <2>5. CASE w /\ last
      BY <1>1, <1>4, <1>6, <2>2, <2>5 DEF last
    <2> QED
      BY <1>1, <2>3, <2>4, <2>5
  <1>9. BufferAgrees'
    <2>1. CASE last \/ w
      BY <1>3, <1>5, <2>1 DEF BufferAgrees
    <2>2. CASE ~last /\ ~w
      <3> HIDE DEF p, l, b, w, last
      <3>1. /\ rq'[req'].pos = p /\ done' = done + n
            /\ rq'[req'].buf = [i \in 0 .. l - 1 |->
                                 IF i \in done .. done + n - 1
                                   THEN data[p + i] ELSE b[i]]
            /\ media' = media
        BY <1>3, <1>4, <1>5, <2>2 DEF p, b, w, l
      <3>2. ASSUME NEW i \in 0 .. done + n - 1
            PROVE  \/ media'[rq'[req'].pos + i] = Unwritten
                   \/ rq'[req'].buf[i] = media'[rq'[req'].pos + i]
        <4>1. i \in 0 .. l - 1 /\ p + i \in Sectors
          BY <1>1, <3>2 DEF Sectors
        <4>2. CASE i \in done .. done + n - 1
          BY <1>6, <2>2, <3>1, <4>1, <4>2
        <4>3. CASE i \notin done .. done + n - 1
          <5>1. i \in 0 .. done - 1
            BY <1>1, <3>2, <4>3
          <5> QED
            BY <1>7, <2>2, <3>1, <4>1, <4>3, <5>1
        <4> QED
          BY <4>2, <4>3
      <3>3. \A i \in 0 .. done' - 1 :
              \/ media'[rq'[req'].pos + i] = Unwritten
              \/ rq'[req'].buf[i] = media'[rq'[req'].pos + i]
        <4>1. done' - 1 = done + n - 1
          BY <1>1, <3>1
        <4> QED
          BY <3>2, <4>1
      <3> QED
        BY <3>3, Zenon DEF BufferAgrees
    <2> QED
      BY <1>1, <2>1, <2>2
  <1>10. LoopState'
    <2>1. req' # NoReq => lock' = "driver" /\ rq'[req'].st \in {"queued", "done"}
      BY <1>3, <1>4
    <2>2. Transferring' => done' < rq'[req'].len
      BY <1>1, <1>3, <1>5
    <2>3. ASSUME NEW c \in Clients, rq'[c].st = "queued"
          PROVE  /\ loaded' /\ rq'[c].len > 0
                 /\ c # req' /\ ~rq'[c].write =>
                      rq'[c].buf = [i \in 0 .. rq'[c].len - 1 |-> Blank]
      <3>1. CASE c = req
        <4>1. ~last
          BY <1>3, <2>3, <3>1
        <4>2. loaded
          BY <1>1 DEF Agreement, LoopState
        <4> QED
          BY <1>1, <1>3, <1>4, <3>1, <4>1, <4>2
      <3>2. CASE c # req
        <4>1. rq'[c] = rq[c]
          BY <1>3, <3>2
        <4>2. /\ loaded /\ rq[c].len > 0
              /\ ~rq[c].write => rq[c].buf = [i \in 0 .. rq[c].len - 1 |-> Blank]
          BY <2>3, <3>2, <4>1 DEF Agreement, LoopState
        <4> QED
          BY <1>4, <4>1, <4>2
      <3> QED
        BY <3>1, <3>2
    <2> QED
      BY <2>1, <2>2, <2>3 DEF LoopState
  <1> QED
    BY <1>8, <1>9, <1>10 DEF Agreement

LEMMA SubmitAgreement ==
  ASSUME TypeOK, Agreement, NEW c \in Clients, Submit(c)
  PROVE  Agreement'
  <1>1. /\ loaded /\ lock = "free" /\ rq[c].st # "queued"
        /\ UNCHANGED <<loaded, lock, req, done, data, media>>
    BY Zenon DEF Submit, lifeVars, driverVars
  <1>2. req = NoReq
    BY <1>1 DEF Agreement, LoopState
  <1>3. ~Transferring /\ ~Transferring'
    BY <1>1, <1>2 DEF Transferring
  <1>4. PICK fs \in CmdTypes, write \in BOOLEAN, pos \in Sectors :
          \E len \in 1 .. nsectors - pos :
            \E buf \in [0 .. len - 1 -> IF write THEN Data ELSE {Blank}] :
              rq' = [rq EXCEPT ![c] =
                       [st |-> "queued", fs |-> fs, write |-> write,
                        pos |-> pos, len |-> len, buf |-> buf,
                        err |-> "none"]]
    BY DEF Submit
  <1>5. PICK len \in 1 .. nsectors - pos :
          \E buf \in [0 .. len - 1 -> IF write THEN Data ELSE {Blank}] :
            rq' = [rq EXCEPT ![c] =
                     [st |-> "queued", fs |-> fs, write |-> write,
                      pos |-> pos, len |-> len, buf |-> buf, err |-> "none"]]
    BY <1>4
  <1>6. PICK buf \in [0 .. len - 1 -> IF write THEN Data ELSE {Blank}] :
          rq' = [rq EXCEPT ![c] =
                   [st |-> "queued", fs |-> fs, write |-> write,
                    pos |-> pos, len |-> len, buf |-> buf, err |-> "none"]]
    BY <1>5
  <1>7. /\ rq'[c].len = len /\ rq'[c].write = write /\ rq'[c].buf = buf
        /\ \A d \in Clients \ {c} : rq'[d] = rq[d]
    BY <1>6 DEF TypeOK
  <1>8. ~write => buf = [i \in 0 .. len - 1 |-> Blank]
    OBVIOUS
  <1>9. LoopState'
    <2>1. ASSUME NEW d \in Clients, rq'[d].st = "queued"
          PROVE  /\ loaded' /\ rq'[d].len > 0
                 /\ d # req' /\ ~rq'[d].write =>
                      rq'[d].buf = [i \in 0 .. rq'[d].len - 1 |-> Blank]
      <3>1. CASE d = c
        BY <1>1, <1>7, <1>8, <3>1
      <3>2. CASE d # c
        <4>1. rq'[d] = rq[d]
          BY <1>7, <3>2
        <4> QED
          BY <1>1, <2>1, <4>1 DEF Agreement, LoopState
      <3> QED
        BY <3>1, <3>2
    <2> QED
      BY <1>1, <1>2, <1>3, <2>1 DEF LoopState
  <1> QED
    BY <1>1, <1>3, <1>9 DEF Agreement, StoreAgrees, BufferAgrees

LEMMA SkipAgreement ==
  ASSUME TypeOK, Agreement, SkipNonFs
  PROVE  Agreement'
  <1>1. /\ lock = "driver" /\ req # NoReq /\ rq[req].st = "queued"
        /\ ~rq[req].fs
        /\ UNCHANGED <<loaded, lock, req, done, data, media>>
        /\ rq' = [rq EXCEPT ![req].st = "done", ![req].err = "EIO"]
    BY Zenon DEF SkipNonFs, lifeVars, driverVars
  <1>2. req \in Clients /\ rq \in [Clients -> Request]
    BY <1>1 DEF TypeOK
  <1>3. rq'[req].st = "done" /\ \A d \in Clients \ {req} : rq'[d] = rq[d]
    BY <1>1, <1>2 DEF Request
  <1>4. ~Transferring /\ ~Transferring'
    BY <1>1, <1>3 DEF Transferring
  <1>5. LoopState'
    <2>1. ASSUME NEW d \in Clients, rq'[d].st = "queued"
          PROVE  /\ loaded' /\ rq'[d].len > 0
                 /\ d # req' /\ ~rq'[d].write =>
                      rq'[d].buf = [i \in 0 .. rq'[d].len - 1 |-> Blank]
      <3>1. d # req /\ rq'[d] = rq[d]
        BY <1>3, <2>1
      <3> QED
        BY <1>1, <2>1, <3>1 DEF Agreement, LoopState
    <2> QED
      BY <1>1, <1>3, <1>4, <2>1 DEF LoopState
  <1> QED
    BY <1>1, <1>4, <1>5 DEF Agreement, StoreAgrees, BufferAgrees

LEMMA NextAgreement ==
  ASSUME DefaultGeometry, TypeOK, Agreement, [Next]_vars
  PROVE  Agreement'
  <1> USE DEF lifeVars, driverVars
  <1>1. CASE sbd_init
    <2>1. \A c \in Clients : rq[c].st # "queued"
      BY <1>1 DEF sbd_init, Agreement, LoopState
    <2>2. ~Transferring'
      BY <1>1, <2>1 DEF sbd_init, Transferring, TypeOK
    <2>3. LoopState'
      BY <1>1, <2>1, <2>2 DEF sbd_init, Agreement, LoopState
    <2>4. \A s \in Sectors : media'[s] = Unwritten
      BY <1>1 DEF sbd_init
    <2> QED
      BY <2>2, <2>3, <2>4 DEF Agreement, StoreAgrees, BufferAgrees
  <1>2. CASE sbd_init_fails
    BY <1>2 DEF sbd_init_fails, Agreement, StoreAgrees, BufferAgrees,
                LoopState, Transferring, Covered
  <1>3. CASE sbd_exit
    BY <1>3 DEF sbd_exit, ExitAllowed, Agreement, StoreAgrees, BufferAgrees,
                LoopState, Transferring, Covered
  <1>4. CASE RunQueue
    <2>1. req = NoReq /\ req' = NoReq
      BY <1>4 DEF RunQueue, Agreement, LoopState
    <2> QED
      BY <1>4, <2>1 DEF RunQueue, Agreement, StoreAgrees, BufferAgrees,
                        LoopState, Transferring
  <1>5. ASSUME NEW c \in Clients, blk_fetch_request(c) PROVE Agreement'
    <2>1. /\ req = NoReq /\ req' = c /\ done' = 0 /\ rq[c].st = "queued"
          /\ lock = "driver"
          /\ UNCHANGED <<loaded, lock, data, rq, media>>
      BY <1>5 DEF blk_fetch_request
    <2>2. c # NoReq /\ rq[c].pos \in Nat /\ rq[c].len > 0
      BY <2>1 DEF TypeOK, Request, Agreement, LoopState
    <2>3. StoreAgrees'
      <3>1. \A s \in Sectors : ~Covered(s)'
        BY <2>1, <2>2 DEF Covered, Sectors
      <3>2. ~Transferring
        BY <2>1 DEF Transferring
      <3> QED
        BY <2>1, <3>1, <3>2 DEF Agreement, StoreAgrees
    <2>4. BufferAgrees'
      BY <2>1 DEF BufferAgrees
    <2>5. LoopState'
      BY <2>1, <2>2 DEF Agreement, LoopState
    <2> QED
      BY <2>3, <2>4, <2>5 DEF Agreement
  <1>6. ASSUME NEW n \in 1 .. nsectors, ServeSegment(n) PROVE Agreement'
    BY <1>6, ServeAgreement
  <1>7. CASE SkipNonFs
    BY <1>7, SkipAgreement
  <1>8. CASE SpinOnEnded \/ UNCHANGED vars
    BY <1>8 DEF SpinOnEnded, vars, Agreement, StoreAgrees, BufferAgrees,
                LoopState, Transferring, Covered
  <1>9. CASE sbd_request_returns
    BY <1>9 DEF sbd_request_returns, LoopEnds, Agreement, StoreAgrees,
                BufferAgrees, LoopState, Transferring, Covered
  <1>10. ASSUME NEW c \in Clients, Submit(c) PROVE Agreement'
    BY <1>10, SubmitAgreement
  <1> QED
    BY <1>1, <1>2, <1>3, <1>4, <1>5, <1>6, <1>7, <1>8, <1>9, <1>10
       DEF Next, sbd_request

---------------------------------------------------------------------------
\* Requests with the same fields are the same request.
LEMMA RequestEq ==
  ASSUME NEW r \in Request, NEW s \in Request,
         r.st = s.st, r.fs = s.fs, r.write = s.write, r.pos = s.pos,
         r.len = s.len, r.buf = s.buf, r.err = s.err
  PROVE  r = s
  BY SMT DEF Request

\* A request other than the read in progress looks as it is.
LEMMA AbstractOther ==
  ASSUME NEW c \in Clients,
         req # c \/ rq[c].st # "queued" \/ ~rq[c].fs \/ rq[c].write
  PROVE  AbstractRequests[c] = rq[c]
  BY DEF AbstractRequests, AbstractRequest

LEMMA AbstractOtherNext ==
  ASSUME NEW c \in Clients,
         req' # c \/ rq'[c].st # "queued" \/ ~rq'[c].fs \/ rq'[c].write
  PROVE  AbstractRequests'[c] = rq'[c]
  BY DEF AbstractRequests, AbstractRequest

\* The last segment of a write is the abstract write.
LEMMA LastOfWrite ==
  ASSUME DefaultGeometry, TypeOK, NEW n \in 1 .. nsectors, ServeSegment(n),
         rq[req].write, done + n = rq[req].len
  PROVE  Disk!Write(req)
  <1>1. req \in Clients /\ rq[req] \in Request
        /\ rq[req].st = "queued" /\ rq[req].fs
    BY InProgress
  <1>2. AbstractRequests[req] = rq[req]
    BY <1>1, AbstractOther
  <1>3. /\ media' = [s \in Sectors |->
                      IF s \in rq[req].pos .. rq[req].pos + rq[req].len - 1
                        THEN rq[req].buf[s - rq[req].pos] ELSE media[s]]
        /\ req' = NoReq /\ UNCHANGED loaded
    BY ServeEffect DEF lifeVars
  <1>4. ASSUME NEW c \in Clients
        PROVE  AbstractRequests'[c] = rq'[c]
    BY <1>3, AbstractOtherNext
  <1>5. ASSUME NEW c \in Clients \ {req}
        PROVE  AbstractRequests[c] = rq[c] /\ rq'[c] = rq[c]
    BY ServeRequest, AbstractOther
  <1>6. rq'[req] = [rq[req] EXCEPT !.st = "done", !.err = "ok", !.buf = rq[req].buf]
    <2>1. /\ rq'[req].pos = rq[req].pos /\ rq'[req].len = rq[req].len
          /\ rq'[req].write = rq[req].write /\ rq'[req].fs = rq[req].fs
          /\ rq'[req].st = "done" /\ rq'[req].err = "ok"
          /\ rq'[req].buf = rq[req].buf
      BY ServeRequest
    <2>2. rq'[req] \in Request
      BY <1>1, ServeSegmentType DEF TypeOK
    <2> QED
      BY <1>1, <2>1, <2>2 DEF Request
  <1> DEFINE r == [AbstractRequests[req] EXCEPT !.st = "done", !.err = "ok",
                                                !.buf = rq[req].buf]
  <1>7. AbstractRequests' = [AbstractRequests EXCEPT ![req] = r]
    <2>1. rq'[req] = r
      BY <1>2, <1>6
    <2> HIDE DEF r
    <2> QED
      BY <1>1, <1>4, <1>5, <2>1 DEF AbstractRequests
  <1> QED
    BY <1>1, <1>2, <1>3, <1>7, Zenon DEF Disk!Write, Disk!Served, Sectors

\* The last segment of a read is the abstract read.
LEMMA LastOfRead ==
  ASSUME DefaultGeometry, TypeOK, Agreement,
         NEW n \in 1 .. nsectors, ServeSegment(n),
         ~rq[req].write, done + n = rq[req].len
  PROVE  Disk!Read(req)
  <1> DEFINE q == rq[req]
             A == AbstractRequests[req]
             buf == [i \in 0 .. q.len - 1 |->
                       IF i \in done .. done + n - 1
                         THEN data[q.pos + i] ELSE q.buf[i]]
  <1>1. /\ req \in Clients /\ q \in Request /\ q.st = "queued" /\ q.fs
        /\ q.pos \in Nat /\ q.len \in Nat /\ done \in Nat /\ n \in Nat
        /\ q.pos + q.len <= nsectors
        /\ q.buf \in [0 .. q.len - 1 -> Data]
        /\ req # NoReq
    BY InProgress
  <1>2. A = [q EXCEPT !.buf = [i \in 0 .. q.len - 1 |-> Blank]]
    BY <1>1 DEF AbstractRequests, AbstractRequest
  <1>3. /\ A.st = "queued" /\ A.fs /\ ~A.write /\ A.pos = q.pos /\ A.len = q.len
    BY <1>1, <1>2 DEF Request
  <1>4. media' = media /\ data' = data /\ req' = NoReq /\ UNCHANGED loaded
    BY ServeEffect DEF lifeVars
  <1>5. /\ rq'[req].pos = q.pos /\ rq'[req].len = q.len
        /\ rq'[req].write = q.write /\ rq'[req].fs = q.fs
        /\ rq'[req].st = "done" /\ rq'[req].err = "ok"
        /\ rq'[req].buf = buf
    BY ServeRequest
  <1>6. rq'[req] \in Request /\ buf \in [0 .. q.len - 1 -> Data]
    <2>1. TypeOK'
      BY ServeSegmentType
    <2>2. /\ rq'[req] \in Request
          /\ rq'[req].buf \in [0 .. rq'[req].len - 1 -> Data]
      BY <1>1, <2>1 DEF TypeOK
    <2> QED
      BY <1>5, <2>2
  <1>7. rq'[req] = [A EXCEPT !.st = "done", !.err = "ok", !.buf = buf]
    <2> DEFINE r == [A EXCEPT !.st = "done", !.err = "ok", !.buf = buf]
    <2>1. buf \in Buffer
      BY <1>6, <1>5 DEF Request
    <2> HIDE DEF buf, q, A
    <2>2. A \in Request
      BY <1>1, <1>2, BufferType DEF Request
    <2>3. /\ r \in Request /\ r.pos = q.pos /\ r.len = q.len
          /\ r.write = q.write /\ r.fs = q.fs
          /\ r.st = "done" /\ r.err = "ok" /\ r.buf = buf
      BY <1>1, <1>2, <2>1, <2>2 DEF Request
    <2> HIDE DEF r
    <2>4. rq'[req] = r
      BY <1>5, <1>6, <2>3, RequestEq
    <2> QED
      BY <2>4 DEF r
  <1>8. ASSUME NEW i \in 0 .. q.len - 1
        PROVE  media[q.pos + i] = Unwritten \/ buf[i] = media[q.pos + i]
    <2>1. Transferring
      BY <1>1 DEF Transferring
    <2>2. CASE i \in done .. done + n - 1
      <3>1. q.pos + i \in Sectors
        BY <1>1, <1>8 DEF Sectors
      <3>2. buf[i] = data[q.pos + i]
        BY <1>8, <2>2
      <3> QED
        BY <2>1, <3>1, <3>2 DEF Agreement, StoreAgrees
    <2>3. CASE i \notin done .. done + n - 1
      <3>1. i \in 0 .. done - 1
        BY <1>1, <1>8, <2>3
      <3>2. buf[i] = q.buf[i]
        BY <1>8, <2>3
      <3> QED
        BY <2>1, <3>1, <3>2 DEF Agreement, BufferAgrees
    <2> QED
      BY <2>2, <2>3
  <1>9. ASSUME NEW c \in Clients
        PROVE  AbstractRequests'[c] = rq'[c]
    BY <1>1, <1>4, AbstractOtherNext
  <1>10. ASSUME NEW c \in Clients \ {req}
         PROVE  AbstractRequests[c] = rq[c] /\ rq'[c] = rq[c]
    BY ServeRequest, AbstractOther
  <1>11. AbstractRequests' =
           [AbstractRequests EXCEPT ![req] = [A EXCEPT !.st = "done", !.err = "ok",
                                                       !.buf = buf]]
    <2> HIDE DEF buf, A
    <2> QED
      BY <1>1, <1>7, <1>9, <1>10 DEF AbstractRequests
  <1> HIDE DEF buf, q
  <1>12. /\ buf \in [0 .. A.len - 1 -> Data]
         /\ \A i \in 0 .. A.len - 1 :
              media[A.pos + i] = Unwritten \/ buf[i] = media[A.pos + i]
    BY <1>3, <1>6, <1>8
  <1> QED
    BY <1>3, <1>4, <1>11, <1>12, Zenon DEF Disk!Read, Disk!Served

\* Any other segment is invisible.
LEMMA NotLast ==
  ASSUME DefaultGeometry, TypeOK, NEW n \in 1 .. nsectors, ServeSegment(n),
         done + n # rq[req].len
  PROVE  UNCHANGED Disk!vars
  <1> DEFINE q == rq[req]
             z == [i \in 0 .. q.len - 1 |-> Blank]
  <1>1. /\ req \in Clients /\ q \in Request /\ q.st = "queued" /\ q.fs
        /\ q.write \in BOOLEAN /\ req # NoReq
    BY InProgress
  <1>2. req' = req /\ media' = media /\ loaded' = loaded
    BY ServeEffect DEF lifeVars
  <1>3. /\ rq'[req].pos = q.pos /\ rq'[req].len = q.len
        /\ rq'[req].write = q.write /\ rq'[req].fs = q.fs
        /\ rq'[req].st = q.st /\ rq'[req].err = q.err
        /\ q.write => rq'[req].buf = q.buf
    BY <1>1, ServeRequest
  <1>4. rq'[req] \in Request
    BY <1>1, ServeSegmentType DEF TypeOK
  <1>5. AbstractRequests'[req] = AbstractRequests[req]
    <2>1. CASE q.write
      <3>1. rq'[req] = q
        <4> HIDE DEF q
        <4> QED
          BY <1>1, <1>3, <1>4, <2>1, RequestEq
      <3> QED
        BY <1>1, <1>3, <2>1, <3>1, AbstractOther, AbstractOtherNext
    <2>2. CASE ~q.write
      <3>1. [rq'[req] EXCEPT !.buf = z] = [q EXCEPT !.buf = z]
        <4> HIDE DEF q, z
        <4> QED
          BY <1>1, <1>3, <1>4 DEF Request
      <3> QED
        BY <1>1, <1>2, <1>3, <2>2, <3>1 DEF AbstractRequests, AbstractRequest
    <2> QED
      BY <1>1, <2>1, <2>2
  <1>6. ASSUME NEW c \in Clients \ {req}
        PROVE  AbstractRequests'[c] = AbstractRequests[c]
    BY <1>2, ServeRequest, AbstractOther, AbstractOtherNext
  <1>7. AbstractRequests' = AbstractRequests
    BY <1>5, <1>6 DEF AbstractRequests
  <1> QED
    BY <1>2, <1>7 DEF Disk!vars

LEMMA InitRefines == Init => Disk!Init
  <1> SUFFICES ASSUME Init PROVE Disk!Init
    OBVIOUS
  <1>1. ASSUME NEW c \in Clients PROVE AbstractRequests[c] = NoRequest
    BY AbstractOther DEF Init
  <1>2. AbstractRequests = [c \in Clients |-> Disk!NoRequest]
    BY <1>1, Zenon DEF AbstractRequests, NoRequest, Disk!NoRequest
  <1> QED
    BY <1>2, Zenon DEF Init, Disk!Init, Sectors

\* Nothing visible changes when no request does.
LEMMA SameRequests ==
  ASSUME req = NoReq, req' = NoReq, rq' = rq
  PROVE  AbstractRequests' = AbstractRequests
  <1>1. ASSUME NEW c \in Clients
        PROVE  AbstractRequests'[c] = AbstractRequests[c]
    BY AbstractOther, AbstractOtherNext
  <1> QED
    BY <1>1 DEF AbstractRequests

\* The block layer's submission is the abstract one.
LEMMA SubmitRefines ==
  ASSUME TypeOK, Agreement, NEW c \in Clients, Submit(c)
  PROVE  Disk!Submit(c)
  <1>1. /\ loaded /\ lock = "free" /\ rq[c].st # "queued"
        /\ UNCHANGED <<loaded, req, media>>
    BY Zenon DEF Submit, lifeVars, driverVars
  <1>2. req = NoReq /\ req' = NoReq
    BY <1>1 DEF Agreement, LoopState
  <1>3. ASSUME NEW d \in Clients
        PROVE  AbstractRequests[d] = rq[d] /\ AbstractRequests'[d] = rq'[d]
    BY <1>2, AbstractOther, AbstractOtherNext
  <1>4. AbstractRequests = rq
    BY <1>3 DEF AbstractRequests, TypeOK
  <1>5. PICK fs \in CmdTypes, write \in BOOLEAN, pos \in Sectors :
          \E len \in 1 .. nsectors - pos :
            \E buf \in [0 .. len - 1 -> IF write THEN Data ELSE {Blank}] :
              rq' = [rq EXCEPT ![c] =
                       [st |-> "queued", fs |-> fs, write |-> write,
                        pos |-> pos, len |-> len, buf |-> buf,
                        err |-> "none"]]
    BY DEF Submit
  <1>6. PICK len \in 1 .. nsectors - pos :
          \E buf \in [0 .. len - 1 -> IF write THEN Data ELSE {Blank}] :
            rq' = [rq EXCEPT ![c] =
                     [st |-> "queued", fs |-> fs, write |-> write,
                      pos |-> pos, len |-> len, buf |-> buf, err |-> "none"]]
    BY <1>5
  <1>7. PICK buf \in [0 .. len - 1 -> IF write THEN Data ELSE {Blank}] :
          rq' = [rq EXCEPT ![c] =
                   [st |-> "queued", fs |-> fs, write |-> write,
                    pos |-> pos, len |-> len, buf |-> buf, err |-> "none"]]
    BY <1>6
  <1>8. AbstractRequests' =
          [AbstractRequests EXCEPT ![c] =
             Disk!NewRequest(fs, write, pos, len, buf)]
    <2>1. AbstractRequests' = rq'
      <3>1. rq' \in [Clients -> Request]
        BY SubmitType DEF TypeOK
      <3> QED
        BY <1>3, <3>1 DEF AbstractRequests
    <2> QED
      BY <1>4, <1>7, <2>1, Zenon DEF Disk!NewRequest
  <1>9. buf \in [0 .. len - 1 -> Data] /\ fs \in BOOLEAN
    OBVIOUS
  <1>10. \E f, w \in BOOLEAN, p \in 0 .. nsectors - 1 :
           \E l \in 1 .. nsectors - p :
             \E b \in [0 .. l - 1 -> Data] :
               AbstractRequests' =
                 [AbstractRequests EXCEPT ![c] = Disk!NewRequest(f, w, p, l, b)]
    <2>1. pos \in 0 .. nsectors - 1
      BY DEF Sectors
    <2> QED
      BY <1>8, <1>9, <2>1, Zenon
  <1> QED
    BY <1>1, <1>4, <1>10, Zenon DEF Disk!Submit

\* A skipped request is rejected.
LEMMA SkipRefines ==
  ASSUME TypeOK, SkipNonFs
  PROVE  Disk!Reject(req)
  <1>1. /\ req # NoReq /\ rq[req].st = "queued" /\ ~rq[req].fs
        /\ UNCHANGED <<loaded, req, media>>
        /\ rq' = [rq EXCEPT ![req].st = "done", ![req].err = "EIO"]
    BY Zenon DEF SkipNonFs, lifeVars, driverVars
  <1>2. req \in Clients /\ rq \in [Clients -> Request]
    BY <1>1 DEF TypeOK
  <1>3. rq'[req].st = "done" /\ \A d \in Clients \ {req} : rq'[d] = rq[d]
    BY <1>1, <1>2 DEF Request
  <1>4. ASSUME NEW d \in Clients
        PROVE  AbstractRequests[d] = rq[d] /\ AbstractRequests'[d] = rq'[d]
    <2>1. CASE d = req
      BY <1>1, <1>3, <2>1, AbstractOther, AbstractOtherNext
    <2>2. CASE d # req
      BY <1>1, <2>2, AbstractOther, AbstractOtherNext
    <2> QED
      BY <2>1, <2>2
  <1>5. AbstractRequests = rq
    BY <1>2, <1>4 DEF AbstractRequests
  <1>6. AbstractRequests' = rq'
    <2>1. rq' = [d \in Clients |-> rq'[d]]
      BY <1>1, <1>2
    <2> QED
      BY <1>4, <2>1 DEF AbstractRequests
  <1> QED
    BY <1>1, <1>5, <1>6, Zenon DEF Disk!Reject

(***************************************************************************)
(* Every step of the driver is a step of the abstract disk or invisible.   *)
(***************************************************************************)
LEMMA NextRefines ==
  ASSUME DefaultGeometry, TypeOK, Agreement, [Next]_vars
  PROVE  [Disk!Next]_(Disk!vars)
  <1> USE DEF lifeVars, driverVars
  <1>1. CASE sbd_init
    <2>1. \A c \in Clients : rq[c].st # "queued"
      BY <1>1 DEF sbd_init, Agreement, LoopState
    <2>2. ASSUME NEW c \in Clients
          PROVE  AbstractRequests'[c] = AbstractRequests[c]
      <3>1. rq' = rq
        BY <1>1 DEF sbd_init
      <3> QED
        BY <2>1, <3>1, AbstractOther, AbstractOtherNext
    <2>3. AbstractRequests' = AbstractRequests
      BY <2>2 DEF AbstractRequests
    <2>4. Disk!Attach
      BY <1>1, <2>3, Zenon DEF sbd_init, Disk!Attach, Sectors
    <2> QED
      BY <2>4, Zenon DEF Disk!Next
  <1>2. CASE sbd_init_fails
    <2>1. UNCHANGED <<loaded, media, req, rq>>
      BY <1>2 DEF sbd_init_fails
    <2> QED
      BY <2>1 DEF Disk!vars, AbstractRequests, AbstractRequest
  <1>3. CASE sbd_exit
    <2>1. /\ loaded /\ loaded' = FALSE /\ UNCHANGED <<media, req, rq>>
          /\ \A c \in Clients : rq[c].st # "queued"
      BY <1>3 DEF sbd_exit, ExitAllowed
    <2>2. AbstractRequests' = AbstractRequests
      BY <2>1 DEF AbstractRequests, AbstractRequest
    <2>3. ASSUME NEW c \in Clients PROVE AbstractRequests[c] = rq[c]
      BY <2>1, AbstractOther
    <2>4. Disk!Detach
      BY <2>1, <2>2, <2>3, Zenon DEF Disk!Detach
    <2> QED
      BY <2>4, Zenon DEF Disk!Next
  <1>4. CASE RunQueue
    <2>1. /\ req = NoReq /\ req' = NoReq /\ rq' = rq
          /\ loaded' = loaded /\ media' = media
      BY <1>4 DEF RunQueue, Agreement, LoopState
    <2> QED
      BY <2>1, SameRequests DEF Disk!vars
  <1>5. ASSUME NEW c \in Clients, blk_fetch_request(c)
        PROVE  UNCHANGED Disk!vars
    <2>1. /\ req = NoReq /\ req' = c /\ rq[c].st = "queued"
          /\ UNCHANGED <<loaded, rq, media>>
      BY <1>5 DEF blk_fetch_request
    <2>2. AbstractRequests[c] = rq[c] /\ rq[c] \in Request
      BY <2>1, AbstractOther DEF TypeOK
    <2>3. AbstractRequests'[c] = rq[c]
      <3>1. CASE rq[c].write \/ ~rq[c].fs
        BY <2>1, <3>1, AbstractOtherNext
      <3>2. CASE ~rq[c].write /\ rq[c].fs
        <4> DEFINE z == [i \in 0 .. rq[c].len - 1 |-> Blank]
        <4>1. rq[c].buf = z
          BY <2>1, <3>2 DEF Agreement, LoopState
        <4>2. AbstractRequests'[c] = [rq[c] EXCEPT !.buf = z]
          BY <2>1, <3>2 DEF AbstractRequests, AbstractRequest
        <4> HIDE DEF z
        <4> QED
          BY <2>2, <4>1, <4>2 DEF Request
      <3> QED
        BY <3>1, <3>2
    <2>4. ASSUME NEW d \in Clients \ {c}
          PROVE  AbstractRequests'[d] = AbstractRequests[d]
      BY <2>1, AbstractOther, AbstractOtherNext
    <2>5. AbstractRequests' = AbstractRequests
      BY <2>2, <2>3, <2>4 DEF AbstractRequests
    <2> QED
      BY <2>1, <2>5 DEF Disk!vars
  <1>6. ASSUME NEW n \in 1 .. nsectors, ServeSegment(n)
        PROVE  [Disk!Next]_(Disk!vars)
    <2>1. req \in Clients /\ rq[req].write \in BOOLEAN
      BY <1>6, InProgress
    <2>2. CASE done + n # rq[req].len
      BY <1>6, <2>2, NotLast
    <2>3. CASE done + n = rq[req].len /\ rq[req].write
      BY <1>6, <2>1, <2>3, LastOfWrite DEF Disk!Next
    <2>4. CASE done + n = rq[req].len /\ ~rq[req].write
      BY <1>6, <2>1, <2>4, LastOfRead DEF Disk!Next
    <2> QED
      BY <2>2, <2>3, <2>4
  <1>7. CASE SkipNonFs
    <2>1. req \in Clients
      BY <1>7 DEF SkipNonFs, TypeOK
    <2> QED
      BY <1>7, <2>1, SkipRefines DEF Disk!Next
  <1>8. CASE SpinOnEnded \/ UNCHANGED vars
    <2>1. UNCHANGED <<loaded, media, req, rq>>
      BY <1>8 DEF SpinOnEnded, vars
    <2> QED
      BY <2>1 DEF Disk!vars, AbstractRequests, AbstractRequest
  <1>9. CASE sbd_request_returns
    <2>1. UNCHANGED <<loaded, media, req, rq>>
      BY <1>9 DEF sbd_request_returns
    <2> QED
      BY <2>1 DEF Disk!vars, AbstractRequests, AbstractRequest
  <1>10. ASSUME NEW c \in Clients, Submit(c) PROVE Disk!Next
    BY <1>10, SubmitRefines DEF Disk!Next
  <1> QED
    BY <1>1, <1>2, <1>3, <1>4, <1>5, <1>6, <1>7, <1>8, <1>9, <1>10
       DEF Next, sbd_request

(***************************************************************************)
(* With 512-byte logical blocks and a size that fits an int the driver     *)
(* implements the atomic disk: whatever the scheduler's order, the         *)
(* segmentation of requests, failed loads and reloads, completed reads     *)
(* return what completed writes have left.                                 *)
(***************************************************************************)
THEOREM Refinement == ASSUME DefaultGeometry PROVE Spec => ImplementsAtomicDisk
  <1>1. Init => TypeOK /\ Agreement /\ Disk!Init
    BY InitTypeOK, InitAgreement, InitRefines
  <1>2. TypeOK /\ Agreement /\ [Next]_vars => TypeOK' /\ Agreement'
    BY NextTypeOK, NextAgreement
  <1>3. TypeOK /\ Agreement /\ [Next]_vars => [Disk!Next]_(Disk!vars)
    BY NextRefines
  <1> QED
    BY <1>1, <1>2, <1>3, PTL DEF Spec, ImplementsAtomicDisk, Disk!Spec
===========================================================================
