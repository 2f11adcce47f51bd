----------------------------- MODULE MyDynamic -----------------------------
(***************************************************************************)
(* The character device with a dynamic major number, char_dev/mydynamic.c: *)
(* a kernel buffer of KBUF_SIZE bytes that is read and written at the      *)
(* position of an open file.  mycdrv_lseek() is also that of mychar.c.     *)
(*                                                                         *)
(* External, as the code uses it: read() and write() copy the position of  *)
(* the file, call the driver with the copy and store it back, without a    *)
(* lock (the kernels the module is written for have none), so that threads *)
(* sharing a file race; pread() and pwrite() pass a position of the        *)
(* caller's own.  copy_to_user() and copy_from_user() may stop short.  An  *)
(* open file holds the module (fops.owner), so that my_exit() runs only    *)
(* when no file is open.                                                   *)
(***************************************************************************)
EXTENDS Integers, Sequences

CONSTANTS
  Threads,     \* threads that use the device
  Files,       \* open file descriptions
  NoFile,      \* not a file
  KBUF_SIZE,   \* size of the buffer
  MaxCount,    \* bound: the largest byte count of a read or write
  SeekSpan,    \* bound: seek offsets are in -SeekSpan .. SeekSpan
  PreadPos     \* positions that pread() and pwrite() are called with

ASSUME DeviceAssumption ==
  /\ KBUF_SIZE \in Nat \ {0}
  /\ MaxCount \in Nat
  /\ SeekSpan \in Nat
  /\ PreadPos \subseteq Nat
  /\ NoFile \notin Files

VARIABLES
  phase,     \* of the module: "out", "init", "live"
  step,      \* next step of my_init()
  held,      \* what the module holds: "region", "cdev", "kbuf", "live" (in
             \* the kernel's device map)
  kbuf,      \* "none", "null" (kmalloc() failed) or "ok"
  open,      \* the open files
  f_pos,     \* file->f_pos
  pc,        \* where each thread is
  fd,        \* the file it uses
  pos,       \* its *ppos, or testpos in mycdrv_lseek()
  todo,      \* its bytes_to_do
  keep       \* its *ppos is a copy of f_pos that is stored back

loaderVars == <<phase, step, held, kbuf>>
threadVars == <<pc, fd, pos, todo, keep>>
vars == <<loaderVars, open, f_pos, threadVars>>

Pcs == {"idle", "copy", "back", "seek", "oops"}

TypeOK ==
  /\ phase \in {"out", "init", "live"}
  /\ step \in 1 .. 4
  /\ held \subseteq {"region", "cdev", "kbuf", "live"}
  /\ kbuf \in {"none", "null", "ok"}
  /\ open \subseteq Files
  /\ f_pos \in [Files -> Nat]
  /\ pc \in [Threads -> Pcs]
  /\ fd \in [Threads -> Files \cup {NoFile}]
  /\ pos \in [Threads -> Nat]
  /\ todo \in [Threads -> Nat]
  /\ keep \in [Threads -> BOOLEAN]

Init ==
  /\ phase = "out" /\ step = 1
  /\ held = {} /\ kbuf = "none"
  /\ open = {}
  /\ f_pos = [f \in Files |-> 0]
  /\ pc = [t \in Threads |-> "idle"]
  /\ fd = [t \in Threads |-> NoFile]
  /\ pos = [t \in Threads |-> 0]
  /\ todo = [t \in Threads |-> 0]
  /\ keep = [t \in Threads |-> FALSE]

---------------------------------------------------------------------------
\* Mutant: the device is made live before its buffer exists.
InitOrder_LiveFirst ==
  <<"alloc_chrdev_region", "cdev_alloc", "cdev_add", "kmalloc">>

\* The steps of my_init().
InitOrder == <<"alloc_chrdev_region", "cdev_alloc", "kmalloc", "cdev_add">>

insmod ==
  /\ phase = "out"
  /\ phase' = "init" /\ step' = 1
  /\ UNCHANGED <<held, kbuf, open, f_pos, threadVars>>

my_init ==
  /\ phase = "init"
  /\ \/ /\ InitOrder[step] = "alloc_chrdev_region"
        /\ held' = held \cup {"region"}
        /\ UNCHANGED kbuf
     \/ /\ InitOrder[step] = "cdev_alloc"
        /\ held' = held \cup {"cdev"}
        /\ UNCHANGED kbuf
     \/ /\ InitOrder[step] = "kmalloc"              \* not checked
        /\ \/ held' = held \cup {"kbuf"} /\ kbuf' = "ok"
           \/ held' = held /\ kbuf' = "null"
     \/ /\ InitOrder[step] = "cdev_add"
        /\ held' = held \cup {"live"}
        /\ UNCHANGED kbuf
  /\ IF step < Len(InitOrder) THEN step' = step + 1 /\ phase' = phase
                              ELSE step' = step /\ phase' = "live"
  /\ UNCHANGED <<open, f_pos, threadVars>>

\* What the error path of a step gives back.  cdev_init() turns the structure
\* that cdev_alloc() has allocated into one that cdev_del() does not free.
Unwound(failed) ==
  CASE failed = "alloc_chrdev_region" -> {}
    [] failed = "cdev_alloc"          -> {"region"}
    [] failed = "cdev_add"            -> {"region", "kbuf"}

my_init_fails ==
  /\ phase = "init"
  /\ InitOrder[step] # "kmalloc"
  /\ held' = held \ Unwound(InitOrder[step])
  /\ kbuf' = "none"
  /\ phase' = "out" /\ step' = 1
  /\ UNCHANGED <<open, f_pos, threadVars>>

my_exit ==
  /\ phase = "live" /\ open = {}                    \* module_refcount is 0
  /\ held' = held \ {"live", "region", "kbuf"}
  /\ kbuf' = "none"
  /\ phase' = "out" /\ step' = 1
  /\ UNCHANGED <<open, f_pos, threadVars>>

---------------------------------------------------------------------------
\* The device can be opened as soon as cdev_add() has made it live.
mycdrv_open(f) ==
  /\ "live" \in held
  /\ f \notin open
  /\ open' = open \cup {f}
  /\ f_pos' = [f_pos EXCEPT ![f] = 0]
  /\ UNCHANGED <<loaderVars, threadVars>>

mycdrv_release(f) ==
  /\ f \in open
  /\ \A t \in Threads : fd[t] # f
  /\ open' = open \ {f}
  /\ UNCHANGED <<loaderVars, f_pos, threadVars>>

\* Mutant: one byte more than there is.
BytesToDo_OffByOne(p, lbuf) ==
  LET maxbytes == KBUF_SIZE - p + 1
  IN  IF maxbytes < 0 \/ maxbytes > lbuf THEN lbuf ELSE maxbytes

\* maxbytes is an int and lbuf a size_t: a negative maxbytes compares as a
\* huge number.
BytesToDo(p, lbuf) ==
  LET maxbytes == KBUF_SIZE - p
  IN  IF maxbytes < 0 \/ maxbytes > lbuf THEN lbuf ELSE maxbytes

\* mycdrv_read() and mycdrv_write() up to the copy; p is what *ppos holds.
Transfer(t, f, p, back) ==
  /\ f \in open
  /\ pc[t] = "idle"
  /\ \E lbuf \in 0 .. MaxCount :
       todo' = [todo EXCEPT ![t] = BytesToDo(p, lbuf)]
  /\ pc' = [pc EXCEPT ![t] = "copy"]
  /\ fd' = [fd EXCEPT ![t] = f]
  /\ pos' = [pos EXCEPT ![t] = p]
  /\ keep' = [keep EXCEPT ![t] = back]
  /\ UNCHANGED <<loaderVars, open, f_pos>>

read_or_write(t, f) == Transfer(t, f, f_pos[f], TRUE)

pread_or_pwrite(t, f) == \E p \in PreadPos : Transfer(t, f, p, FALSE)

\* copy_to_user() or copy_from_user() of todo bytes at kbuf + pos, of which
\* n are copied.  With a null buffer the copy stops at once, or ...
Copy(t) ==
  /\ pc[t] = "copy"
  /\ pc' = [pc EXCEPT ![t] = "back"]
  /\ \E n \in 0 .. todo[t] :
       /\ kbuf = "null" => n = 0
       /\ pos' = [pos EXCEPT ![t] = @ + n]
  /\ UNCHANGED <<loaderVars, open, f_pos, fd, todo, keep>>

\* ... it is an oops, and the thread never returns from the call.
Oops(t) ==
  /\ pc[t] = "copy"
  /\ kbuf = "null" /\ todo[t] > 0
  /\ pc' = [pc EXCEPT ![t] = "oops"]
  /\ UNCHANGED <<loaderVars, open, f_pos, fd, pos, todo, keep>>

\* The kernel stores *ppos back into the file.
StoreBack(t) ==
  /\ pc[t] = "back"
  /\ f_pos' = IF keep[t] THEN [f_pos EXCEPT ![fd[t]] = pos[t]] ELSE f_pos
  /\ pc' = [pc EXCEPT ![t] = "idle"]
  /\ fd' = [fd EXCEPT ![t] = NoFile]
  /\ UNCHANGED <<loaderVars, open, pos, todo, keep>>

\* Mutant: the upper bound is not applied.
Clamp_NoUpper(testpos) == IF testpos >= 0 THEN testpos ELSE 0

\* testpos < KBUF_SIZE compares unsigned numbers: a negative testpos becomes
\* KBUF_SIZE, and the second test never finds one.
Clamp(testpos) ==
  IF testpos >= 0 /\ testpos < KBUF_SIZE THEN testpos ELSE KBUF_SIZE

\* mycdrv_lseek(): the new position is computed, ...
mycdrv_lseek(t, f) ==
  /\ f \in open
  /\ pc[t] = "idle"
  /\ \E offset \in -SeekSpan .. SeekSpan :
       \E origin \in {0, f_pos[f], KBUF_SIZE} :     \* SEEK_SET, _CUR, _END
         pos' = [pos EXCEPT ![t] = Clamp(origin + offset)]
  /\ pc' = [pc EXCEPT ![t] = "seek"]
  /\ fd' = [fd EXCEPT ![t] = f]
  /\ UNCHANGED <<loaderVars, open, f_pos, todo, keep>>

\* ... and then stored.
mycdrv_lseek_stores(t) ==
  /\ pc[t] = "seek"
  /\ f_pos' = [f_pos EXCEPT ![fd[t]] = pos[t]]
  /\ pc' = [pc EXCEPT ![t] = "idle"]
  /\ fd' = [fd EXCEPT ![t] = NoFile]
  /\ UNCHANGED <<loaderVars, open, pos, todo, keep>>

---------------------------------------------------------------------------
ThreadStep(t) ==
  \/ Copy(t) \/ Oops(t) \/ StoreBack(t) \/ mycdrv_lseek_stores(t)
  \/ \E f \in Files : \/ read_or_write(t, f)
                      \/ pread_or_pwrite(t, f)
                      \/ mycdrv_lseek(t, f)

Next ==
  \/ insmod \/ my_init \/ my_init_fails \/ my_exit
  \/ \E f \in Files : mycdrv_open(f) \/ mycdrv_release(f)
  \/ \E t \in Threads : ThreadStep(t)

Spec == Init /\ [][Next]_vars

---------------------------------------------------------------------------
(***************************************************************************)
(* Threads that share a file overwrite each other's position, seek before  *)
(* the beginning or behind the end, and copies stop short; yet the         *)
(* position of every file stays within the device.                         *)
(***************************************************************************)
PositionInDevice == \A f \in Files : f_pos[f] <= KBUF_SIZE

(***************************************************************************)
(* No transfer goes past the end of the buffer: at the end of the device   *)
(* the driver has "Reached end of the device" (mydynamic.c:44) and copies  *)
(* nothing.                                                                *)
(***************************************************************************)
TransferInBuffer ==
  \A t \in Threads :
    pc[t] = "copy" /\ todo[t] > 0 => pos[t] + todo[t] <= KBUF_SIZE

(***************************************************************************)
(* The buffer exists, or kmalloc() has failed, as long as a transfer is    *)
(* going on: it is neither used before my_init() has set it up nor after   *)
(* my_exit() has freed it.                                                 *)
(***************************************************************************)
BufferOutlivesUse == \A t \in Threads : pc[t] = "copy" => kbuf # "none"

(***************************************************************************)
(* After a failed my_init() or my_exit() nothing stays registered or       *)
(* allocated, except for the struct cdev, and nobody has the device open.  *)
(***************************************************************************)
LeaksAtMostTheCdev == phase = "out" => held \subseteq {"cdev"} /\ open = {}
=============================================================================
