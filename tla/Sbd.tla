------------------------------- MODULE Sbd --------------------------------
(***************************************************************************)
(* The simple block driver, block_dev/sbd.c.                               *)
(*                                                                         *)
(* Bytes are counted in chunks of KERNEL_SECTOR_SIZE (512), the unit the   *)
(* block layer numbers sectors in, so that                                 *)
(*     lbs  = logical_block_size / KERNEL_SECTOR_SIZE                      *)
(* is 1 for the default parameters.  nsectors * logical_block_size is an   *)
(* int: 512 divides 2^32, so that the wrap of the product is exactly a     *)
(* wrap of the chunk count at IntSpan = 2^32 / 512 (a small number in the  *)
(* models).                                                                *)
(*                                                                         *)
(* The block layer is external.  It hands the driver requests inside the   *)
(* capacity that set_capacity() announced, aligned to the logical block    *)
(* size, in an order the I/O scheduler chooses; a request is a list of     *)
(* segments of any sizes (the driver sees one segment at a time), and it   *)
(* runs sbd_request() with the queue lock, Device.lock, held.  A client    *)
(* holds the device open from submission to completion, and the module     *)
(* reference of sbd_ops.owner keeps rmmod away that long.                  *)
(***************************************************************************)
EXTENDS Naturals, FiniteSets

CONSTANTS
  Clients,      \* issuers of requests
  nsectors,     \* module parameter
  lbs,          \* module parameter logical_block_size, in chunks
  major_param,  \* the module parameter major_num, if one is given
  IntSpan,      \* number of values of an int, in chunks
  CmdTypes,     \* request types that arrive: TRUE is REQ_TYPE_FS
  Data,         \* contents of a chunk
  Blank,        \* contents of the buffer of a read that was not served
  Unwritten,    \* marks a sector nobody has written
  NoReq         \* the NULL request pointer

ASSUME GeometryAssumption ==
  /\ nsectors \in Nat \ {0}
  /\ lbs \in Nat \ {0}
  /\ major_param \in Nat
  /\ IntSpan \in Nat \ {0}

ASSUME RequestAssumption ==
  /\ CmdTypes \subseteq BOOLEAN
  /\ Blank \in Data
  /\ Unwritten \notin Data
  /\ NoReq \notin Clients

VARIABLES
  loaded,       \* sbd_init() has succeeded and sbd_exit() has not run
  major_num,    \* the module's copy of its major number
  held,         \* kernel resources the module holds
  leaked,       \* resources a finished life cycle left behind
  data,         \* Device.data, the vmalloc()ed store, by chunk
  lock,         \* Device.lock: "free", or "driver" inside sbd_request()
  req,          \* the local variable req of sbd_request()
  done,         \* sectors of req already transferred (advances blk_rq_pos)
  rq,           \* the request of each client
  media         \* history: the value last written to each sector by a
                \* request that was reported complete

driverVars == <<lock, req, done>>
lifeVars   == <<loaded, major_num, held, leaked>>
vars       == <<lifeVars, driverVars, data, rq, media>>

Sectors   == 0 .. nsectors - 1
\* "major" is a number register_blkdev() has chosen, "given" one it was given.
Resources == {"data", "queue", "major", "given", "disk"}

(***************************************************************************)
(* Device.size = nsectors * logical_block_size, an int product stored in   *)
(* an unsigned long.                                                       *)
(***************************************************************************)
DeviceSize ==
  IF nsectors * lbs < IntSpan THEN nsectors * lbs
                              ELSE (nsectors * lbs) % IntSpan

\* A size of zero, or one that was negative as an int, makes vmalloc() fail.
SizeAllocatable == DeviceSize # 0 /\ 2 * DeviceSize < IntSpan

Chunks == 0 .. DeviceSize - 1

NoRequest ==
  [st |-> "idle", fs |-> TRUE, write |-> FALSE, pos |-> 0, len |-> 0,
   buf |-> [i \in {} |-> Blank], err |-> "none"]

Buffer == UNION {[0 .. n - 1 -> Data] : n \in 0 .. nsectors}

Request ==
  [st : {"idle", "queued", "done"}, fs : BOOLEAN, write : BOOLEAN,
   pos : 0 .. nsectors, len : 0 .. nsectors,
   buf : Buffer,
   err : {"none", "ok", "EIO"}]

TypeOK ==
  /\ loaded \in BOOLEAN
  /\ major_num \in Nat
  /\ held \subseteq Resources
  /\ leaked \subseteq Resources
  /\ data \in [Chunks -> Data]
  /\ lock \in {"free", "driver"}
  /\ req \in Clients \cup {NoReq}
  /\ done \in 0 .. nsectors
  /\ rq \in [Clients -> Request]
  /\ \A c \in Clients :
       /\ rq[c].buf \in [0 .. rq[c].len - 1 -> Data]
       /\ rq[c].pos + rq[c].len <= nsectors
  /\ media \in [Sectors -> Data \cup {Unwritten}]

Init ==
  /\ loaded = FALSE
  /\ major_num = 0                        \* a fresh copy on every load
  /\ held = {}
  /\ leaked = {}
  /\ data = [k \in Chunks |-> Blank]       \* not yet allocated
  /\ lock = "free"
  /\ req = NoReq
  /\ done = 0
  /\ rq = [c \in Clients |-> NoRequest]
  /\ media = [s \in Sectors |-> Unwritten]

---------------------------------------------------------------------------
(***************************************************************************)
(* sbd_init(): the steps in order are vmalloc(), blk_init_queue(),         *)
(* register_blkdev(), alloc_disk(), and add_disk() makes the disk live.    *)
(* A failing step jumps to out or out_unregister.                          *)
(***************************************************************************)
Number(major) == IF major = 0 THEN "major" ELSE "given"

Acquired(major) == {"data", "queue", Number(major), "disk"}

AcquiredBefore(step, major) ==
  CASE step = "vmalloc" -> {}
    [] step = "queue"   -> {"data"}
    [] step = "major"   -> {"data", "queue"}
    [] step = "disk"    -> {"data", "queue", Number(major)}

\* register_blkdev() returns the number it chose for 0, and 0 when the
\* caller chose the number, ...
register_blkdev(major) == IF major = 0 THEN 253 ELSE 0

\* ... which it refuses if that is still registered.
MajorFree(major) == major # 0 => "given" \notin leaked

\* Mutant: alloc_disk() failing jumps to out instead of out_unregister.
Unwound_SkipsUnregister(step, major) ==
  IF step = "vmalloc" THEN {} ELSE {"data"}

Unwound(step, major) ==
  CASE step = "vmalloc"            -> {}
    [] step \in {"queue", "major"} -> {"data"}             \* out
    [] step = "disk"               ->                      \* out_unregister
         {"data"} \cup {r \in {Number(major)} : register_blkdev(major) # 0}

sbd_init_fails ==
  /\ ~loaded
  /\ \E major \in {0, major_param},
        step \in {"vmalloc", "queue", "major", "disk"} :
       /\ ~SizeAllocatable => step = "vmalloc"
       /\ step = "disk" => MajorFree(major)
       /\ leaked' = leaked \cup (AcquiredBefore(step, major)
                                 \ Unwound(step, major))
  /\ UNCHANGED <<loaded, major_num, held, driverVars, data, rq, media>>

sbd_init ==
  /\ ~loaded
  /\ SizeAllocatable
  /\ \E major \in {0, major_param} :
       /\ MajorFree(major)
       /\ major_num' = register_blkdev(major)
       /\ held' = Acquired(major)
  /\ loaded' = TRUE
  /\ data' \in [Chunks -> Data]            \* vmalloc() does not clear
  /\ media' = [s \in Sectors |-> Unwritten]
  /\ UNCHANGED <<leaked, driverVars, rq>>

ExitAllowed ==
  /\ loaded
  /\ lock = "free"
  /\ \A c \in Clients : rq[c].st # "queued"

(***************************************************************************)
(* sbd_exit(): del_gendisk, put_disk, unregister_blkdev(major_num),        *)
(* blk_cleanup_queue, vfree.  unregister_blkdev() of a number that is not  *)
(* registered releases nothing.                                            *)
(***************************************************************************)
sbd_exit ==
  /\ ExitAllowed
  /\ loaded' = FALSE
  /\ held' = {}
  /\ leaked' = leaked \cup {r \in held \cap {"major", "given"} : major_num = 0}
  /\ major_num' = 0
  /\ UNCHANGED <<driverVars, data, rq, media>>

---------------------------------------------------------------------------
(***************************************************************************)
(* The block layer queues a request of a client; it holds the queue lock   *)
(* to do so.  set_capacity() was given nsectors.                           *)
(***************************************************************************)
Submit(c) ==
  /\ loaded
  /\ lock = "free"
  /\ rq[c].st # "queued"
  /\ \E fs \in CmdTypes, write \in BOOLEAN, pos \in Sectors :
       \E len \in 1 .. nsectors - pos :
         \E buf \in [0 .. len - 1 -> IF write THEN Data ELSE {Blank}] :
           /\ pos % lbs = 0 /\ len % lbs = 0
           /\ rq' = [rq EXCEPT ![c] =
                       [st |-> "queued", fs |-> fs, write |-> write,
                        pos |-> pos, len |-> len, buf |-> buf,
                        err |-> "none"]]
  /\ UNCHANGED <<lifeVars, driverVars, data, media>>

\* The block layer calls sbd_request(Queue) under the lock.
RunQueue ==
  /\ lock = "free"
  /\ \E c \in Clients : rq[c].st = "queued"
  /\ lock' = "driver"
  /\ req' = NoReq
  /\ done' = 0
  /\ UNCHANGED <<lifeVars, data, rq, media>>

\* req = blk_fetch_request(q): the scheduler's choice, ...
blk_fetch_request(c) ==
  /\ lock = "driver"
  /\ req = NoReq
  /\ rq[c].st = "queued"
  /\ req' = c
  /\ done' = 0
  /\ UNCHANGED <<lifeVars, lock, data, rq, media>>

\* ... or NULL, which ends the loop and the call.
LoopEnds == req = NoReq /\ \A c \in Clients : rq[c].st # "queued"

sbd_request_returns ==
  /\ lock = "driver"
  /\ LoopEnds
  /\ lock' = "free"
  /\ UNCHANGED <<lifeVars, req, done, data, rq, media>>

(***************************************************************************)
(* sbd_transfer(): offset and nbytes are the sector numbers scaled by the  *)
(* logical block size.  A transfer beyond the end is dropped, silently.    *)
(* The current segment has room for nsect chunks only: what memcpy() takes *)
(* from behind it is arbitrary (junk), and what it puts there is outside   *)
(* of the model.                                                           *)
(***************************************************************************)
\* Mutant: >= instead of > drops the last sector.
BeyondEnd_OffByOne(sector, nsect) == sector * lbs + nsect * lbs >= DeviceSize

BeyondEnd(sector, nsect) == sector * lbs + nsect * lbs > DeviceSize

TransferOut(sector, nsect, junk) ==          \* write: buffer to device
  IF BeyondEnd(sector, nsect) THEN data
  ELSE [k \in Chunks |->
          IF k \in sector * lbs .. sector * lbs + nsect * lbs - 1
            THEN IF k - sector * lbs < nsect
                   THEN rq[req].buf[done + (k - sector * lbs)] ELSE junk
            ELSE data[k]]

TransferIn(sector, nsect) ==                 \* read: device to buffer
  IF BeyondEnd(sector, nsect) THEN rq[req].buf
  ELSE [i \in 0 .. rq[req].len - 1 |->
          IF i \in done .. done + nsect - 1
            THEN data[sector * lbs + (i - done)] ELSE rq[req].buf[i]]

\* The sector numbers blk_rq_pos() and blk_rq_cur_sectors() of a segment.
Segment(n) == n \in 1 .. rq[req].len - done /\ n % lbs = 0

\* Mutant: the test of the return value is inverted.
EndsRequest_Inverted(n) == done + n # rq[req].len

\* ! __blk_end_request_cur(req, 0): no segment of the request is left.
EndsRequest(n) == done + n = rq[req].len

\* One iteration of the loop in sbd_request() for a file system request:
\* sbd_transfer() of the current segment, then __blk_end_request_cur(req, 0)
\* which advances the request and reports it complete after its last
\* segment.
ServeSegment(n) ==
  /\ lock = "driver"
  /\ req # NoReq
  /\ rq[req].st = "queued"
  /\ rq[req].fs
  /\ Segment(n)
  /\ LET sector == rq[req].pos + done
         last   == EndsRequest(n)
         buf    == IF rq[req].write THEN rq[req].buf
                                    ELSE TransferIn(sector, n)
     IN  /\ \E junk \in Data :
              data' = IF rq[req].write THEN TransferOut(sector, n, junk)
                                       ELSE data
         /\ rq' = [rq EXCEPT ![req] =
                     IF last THEN [@ EXCEPT !.buf = buf, !.st = "done",
                                            !.err = "ok"]
                             ELSE [@ EXCEPT !.buf = buf]]
         /\ media' = IF last /\ rq[req].write
                       THEN [s \in Sectors |->
                               IF s \in rq[req].pos ..
                                        rq[req].pos + rq[req].len - 1
                                 THEN rq[req].buf[s - rq[req].pos]
                                 ELSE media[s]]
                       ELSE media
         /\ req'  = IF last THEN NoReq ELSE req
         /\ done' = IF last THEN 0 ELSE done + n
  /\ UNCHANGED <<lifeVars, lock>>

\* The iteration for any other request: it is ended with -EIO and `continue`
\* goes round the loop without fetching another one.
SkipNonFs ==
  /\ lock = "driver"
  /\ req # NoReq
  /\ rq[req].st = "queued"
  /\ ~rq[req].fs
  /\ rq' = [rq EXCEPT ![req].st = "done", ![req].err = "EIO"]
  /\ UNCHANGED <<lifeVars, driverVars, data, media>>

\* The next iteration then finds the ended request in req again.  Its memory
\* still has the type it had (the pool it came from is guarded by the lock
\* that is held), so that it is ended once more, and so on.
SpinOnEnded ==
  /\ lock = "driver"
  /\ req # NoReq
  /\ rq[req].st = "done"
  /\ UNCHANGED vars

---------------------------------------------------------------------------
sbd_request ==
  \/ \E c \in Clients : blk_fetch_request(c)
  \/ \E n \in 1 .. nsectors : ServeSegment(n)
  \/ SkipNonFs
  \/ SpinOnEnded
  \/ sbd_request_returns

Next ==
  \/ sbd_init
  \/ sbd_init_fails
  \/ sbd_exit
  \/ RunQueue
  \/ sbd_request
  \/ \E c \in Clients : Submit(c)

Spec == Init /\ [][Next]_vars

\* The block layer runs a queue that has requests, and the loop runs on.
Fairness == WF_vars(RunQueue) /\ WF_vars(sbd_request)

FairSpec == Spec /\ Fairness

---------------------------------------------------------------------------
(***************************************************************************)
(* Why the driver is right for the default geometry: the store holds what  *)
(* completed writes have left, except for the sectors the request in       *)
(* progress has already overwritten.                                       *)
(***************************************************************************)
DefaultGeometry == lbs = 1 /\ 2 * nsectors < IntSpan

\* The loop is in the middle of the file system request req.
Transferring == req # NoReq /\ rq[req].st = "queued" /\ rq[req].fs

\* The sectors of req that have been transferred.
Covered(s) == s \in rq[req].pos .. rq[req].pos + done - 1

StoreAgrees ==
  \A s \in Sectors :
    IF Transferring /\ rq[req].write /\ Covered(s)
      THEN data[s] = rq[req].buf[s - rq[req].pos]
      ELSE media[s] = Unwritten \/ data[s] = media[s]

BufferAgrees ==
  Transferring /\ ~rq[req].write =>
    \A i \in 0 .. done - 1 :
      \/ media[rq[req].pos + i] = Unwritten
      \/ rq[req].buf[i] = media[rq[req].pos + i]

LoopState ==
  /\ req # NoReq => lock = "driver" /\ rq[req].st \in {"queued", "done"}
  /\ Transferring => done < rq[req].len
  /\ \A c \in Clients : rq[c].st = "queued" =>
       /\ loaded
       /\ rq[c].len > 0
       /\ c # req /\ ~rq[c].write =>
            rq[c].buf = [i \in 0 .. rq[c].len - 1 |-> Blank]

Agreement == StoreAgrees /\ BufferAgrees /\ LoopState

---------------------------------------------------------------------------
(***************************************************************************)
(* The refinement mapping: the disk is what completed writes have left,    *)
(* and the buffer of a read is still blank until the read is complete.     *)
(***************************************************************************)
AbstractRequest(c) ==
  IF req = c /\ rq[c].st = "queued" /\ rq[c].fs /\ ~rq[c].write
    THEN [rq[c] EXCEPT !.buf = [i \in 0 .. rq[c].len - 1 |-> Blank]]
    ELSE rq[c]

AbstractRequests == [c \in Clients |-> AbstractRequest(c)]

Disk == INSTANCE AtomicDisk WITH
  Capacity <- nsectors,
  up   <- loaded,
  disk <- media,
  rq   <- AbstractRequests

(***************************************************************************)
(* sbd.c serves a request segment by segment; to the block layer it must   *)
(* look as if every request took effect at once when it is completed, so   *)
(* that a completed read returns, for every sector, the value of the last  *)
(* completed write.  "We can tweak our hardware sector size" (sbd.c:37).   *)
(***************************************************************************)
ImplementsAtomicDisk == Disk!Spec

(***************************************************************************)
(* Life cycles of the module: once sbd_init() has failed or sbd_exit() has *)
(* run nothing stays behind except, after a failing register_blkdev() or   *)
(* alloc_disk(), the request queue that the label `out` does not clean up  *)
(* and, if major_num was given, the number: register_blkdev() returned 0,  *)
(* so that another one is unregistered.  A number left behind stops the    *)
(* next sbd_init() that is given it.                                     *)
(***************************************************************************)
LeaksAtMostTheQueue ==
  /\ ~loaded => held = {}
  /\ leaked \subseteq {"queue"} \cup {r \in {"given"} : major_param # 0}
  /\ loaded => held \cap leaked \subseteq {"queue"}

(***************************************************************************)
(* Every request the block layer queues is completed by sbd_request(),     *)
(* whatever else is queued: a request of another type is skipped ("Skip    *)
(* non-CMD request", sbd.c:84) and must not keep the others waiting.       *)
(***************************************************************************)
EveryRequestCompletes ==
  \A c \in Clients : rq[c].st = "queued" ~> rq[c].st = "done"

(***************************************************************************)
(* As long as all requests are file system requests, sbd_request()         *)
(* completes every one of them, segment by segment, in whatever order the  *)
(* scheduler hands them out and whatever else is queued meanwhile.         *)
(***************************************************************************)
FsRequestsComplete ==
  [](\A c \in Clients : rq[c].fs) =>
    \A c \in Clients : rq[c].st = "queued" ~> rq[c].st = "done"
===========================================================================
