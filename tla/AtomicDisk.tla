---------------------------- MODULE AtomicDisk ----------------------------
(***************************************************************************)
(* What the block layer may expect of a disk driver: every request that is *)
(* accepted takes effect in one indivisible step, the step in which it is  *)
(* reported complete.  A write that is reported successful has stored all  *)
(* of its sectors, a read that is reported successful delivers for every   *)
(* sector the value stored last.  A sector nobody has written since the    *)
(* disk was attached may read as anything.                                 *)
(*                                                                         *)
(* Sbd.tla (block_dev/sbd.c) is shown to implement this specification.     *)
(***************************************************************************)
EXTENDS Naturals

CONSTANTS
  Clients,     \* issuers of requests, each with at most one outstanding
  Capacity,    \* number of sectors
  Data,        \* contents of a sector
  Blank,       \* what the buffer of a read holds before it is served
  Unwritten    \* marks a sector that was never written

VARIABLES
  up,          \* the disk is attached
  disk,        \* the value written last to each sector, or Unwritten
  rq           \* the request of each client

vars == <<up, disk, rq>>

NoRequest ==
  [st |-> "idle", fs |-> TRUE, write |-> FALSE, pos |-> 0, len |-> 0,
   buf |-> [i \in {} |-> Blank], err |-> "none"]

NewRequest(fs, write, pos, len, buf) ==
  [st |-> "queued", fs |-> fs, write |-> write, pos |-> pos, len |-> len,
   buf |-> buf, err |-> "none"]

Init ==
  /\ up = FALSE
  /\ disk = [s \in 0 .. Capacity - 1 |-> Unwritten]
  /\ rq = [c \in Clients |-> NoRequest]

Attach ==
  /\ ~up
  /\ up' = TRUE
  /\ disk' = [s \in 0 .. Capacity - 1 |-> Unwritten]
  /\ UNCHANGED rq

Detach ==
  /\ up
  /\ \A c \in Clients : rq[c].st # "queued"
  /\ up' = FALSE
  /\ UNCHANGED <<disk, rq>>

Submit(c) ==
  /\ up
  /\ rq[c].st # "queued"
  /\ \E fs, write \in BOOLEAN, pos \in 0 .. Capacity - 1 :
       \E len \in 1 .. Capacity - pos :
         \E buf \in [0 .. len - 1 -> Data] :
           rq' = [rq EXCEPT ![c] = NewRequest(fs, write, pos, len, buf)]
  /\ UNCHANGED <<up, disk>>

Served(c, buf) == [rq[c] EXCEPT !.st = "done", !.err = "ok", !.buf = buf]

Write(c) ==
  /\ rq[c].st = "queued" /\ rq[c].fs /\ rq[c].write
  /\ disk' = [s \in 0 .. Capacity - 1 |->
                IF s \in rq[c].pos .. rq[c].pos + rq[c].len - 1
                  THEN rq[c].buf[s - rq[c].pos] ELSE disk[s]]
  /\ rq' = [rq EXCEPT ![c] = Served(c, rq[c].buf)]
  /\ UNCHANGED up

Read(c) ==
  /\ rq[c].st = "queued" /\ rq[c].fs /\ ~rq[c].write
  /\ \E buf \in [0 .. rq[c].len - 1 -> Data] :
       /\ \A i \in 0 .. rq[c].len - 1 :
            \/ disk[rq[c].pos + i] = Unwritten
            \/ buf[i] = disk[rq[c].pos + i]
       /\ rq' = [rq EXCEPT ![c] = Served(c, buf)]
  /\ UNCHANGED <<up, disk>>

Reject(c) ==
  /\ rq[c].st = "queued" /\ ~rq[c].fs
  /\ rq' = [rq EXCEPT ![c].st = "done", ![c].err = "EIO"]
  /\ UNCHANGED <<up, disk>>

Next ==
  \/ Attach
  \/ Detach
  \/ \E c \in Clients : Submit(c) \/ Write(c) \/ Read(c) \/ Reject(c)

Spec == Init /\ [][Next]_vars
===========================================================================
