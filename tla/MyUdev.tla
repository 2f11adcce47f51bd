------------------------------- MODULE MyUdev -------------------------------
(***************************************************************************)
(* char_dev/mydynamic_udev.c: five device nodes on one buffer.  my_write() *)
(* copies the text into the buffer and then converts it in place, to lower *)
(* case on minor 1 and to upper case on minor 2, one character at a time   *)
(* and without a lock.                                                     *)
(*                                                                         *)
(* A character is an identity and a case; "none" is that of characters     *)
(* that are not letters.  Every thread has a file of its own.  External,   *)
(* as the code uses it: copy_from_user() that faults clears the rest of    *)
(* its destination; an open file keeps the module loaded (my_fops.owner).  *)
(* A buffer that kmalloc() could not allocate is in MyDynamic.             *)
(***************************************************************************)
EXTENDS Naturals, Sequences

CONSTANTS
  Threads,     \* threads that read and write
  Minors,      \* minor numbers of the nodes that are opened
  Ids,         \* identities of characters
  KBUF_SIZE,   \* size of the buffer
  Nul,         \* identity of the character '\0'
  Texts        \* the texts that are written

Cases == {"lower", "upper", "none"}

ASSUME UdevAssumption ==
  /\ Minors \subseteq 0 .. 4                       \* count = 5
  /\ 0 \in Minors
  /\ KBUF_SIZE \in Nat \ {0}
  /\ Nul \notin Ids
  /\ Texts \subseteq
       UNION {[1 .. n -> [id : Ids, case : Cases]] : n \in 1 .. KBUF_SIZE}

NulChar == [id |-> Nul, case |-> "none"]
Chars == [id : Ids, case : Cases] \cup {NulChar}

VARIABLES
  step,        \* the step of my_init() that comes next, 0 without the module
  held,        \* what the module holds
  leaked,      \* what the latest load has left behind
  kbuf,        \* the contents of the buffer
  open,        \* the threads that have a node open
  minor,       \* its minor number
  pos,         \* the position of the file of each thread
  pc,          \* where each thread is in my_write()
  text,        \* the text it writes
  nbytes,      \* bytes_to_do, then nbytes
  i,           \* how far the copy, then convert(), has come
  c,           \* the variable c of convert()
  crowded,     \* history: threads whose write has overlapped with another
  only         \* history: the conversions (minor 1 or 2) that all writes to a
               \* place of the buffer have gone through; both without a write

loadVars  == <<step, held, leaked>>
fileVars  == <<open, minor, pos>>
writeVars == <<pc, text, nbytes, i, c, crowded>>
vars == <<loadVars, kbuf, fileVars, writeVars, only>>

Resources == {"region", "cdev", "kbuf", "live", "class", "nodes"}
Slots     == 0 .. KBUF_SIZE - 1

TypeOK ==
  /\ step \in 0 .. 7
  /\ held \subseteq Resources /\ leaked \subseteq Resources
  /\ kbuf \in [Slots -> Chars]
  /\ open \subseteq Threads
  /\ minor \in [Threads -> Minors]
  /\ pos \in [Threads -> 0 .. KBUF_SIZE]
  /\ pc \in [Threads -> {"idle", "copy", "load", "store"}]
  /\ text \in [Threads -> Texts \cup {<<>>}]
  /\ nbytes \in [Threads -> 0 .. KBUF_SIZE]
  /\ i \in [Threads -> 0 .. KBUF_SIZE]
  /\ c \in [Threads -> Chars]
  /\ crowded \subseteq Threads
  /\ only \in [Slots -> SUBSET {1, 2}]

Init ==
  /\ step = 0 /\ held = {} /\ leaked = {}
  /\ kbuf = [k \in Slots |-> NulChar]
  /\ open = {} /\ pos = [t \in Threads |-> 0]
  /\ minor = [t \in Threads |-> 0]
  /\ pc = [t \in Threads |-> "idle"]
  /\ text = [t \in Threads |-> <<>>]
  /\ nbytes = [t \in Threads |-> 0]
  /\ i = [t \in Threads |-> 0]
  /\ c = [t \in Threads |-> NulChar]
  /\ crowded = {}
  /\ only = [k \in Slots |-> {1, 2}]

---------------------------------------------------------------------------
\* The steps of my_init(), and what each acquires.
InitOrder == <<"alloc_chrdev_region", "cdev_alloc", "kmalloc", "cdev_add",
               "class_create", "device_create">>

Acquired ==
  [alloc_chrdev_region |-> "region", cdev_alloc |-> "cdev", kmalloc |-> "kbuf",
   cdev_add |-> "live", class_create |-> "class", device_create |-> "nodes"]

insmod ==
  /\ step = 0 /\ step' = 1
  /\ leaked' = {}
  /\ UNCHANGED <<held, kbuf, fileVars, writeVars, only>>

\* A step of my_init().  kmalloc() does not clear the buffer.  The results of
\* class_create() and of device_create(), which needs the class, are not
\* looked at.
my_init ==
  /\ step \in 1 .. Len(InitOrder)
  /\ step' = step + 1
  /\ \/ /\ InitOrder[step] = "device_create" => "class" \in held
        /\ held' = held \cup {Acquired[InitOrder[step]]}
     \/ /\ InitOrder[step] \in {"class_create", "device_create"}
        /\ UNCHANGED held
  /\ IF InitOrder[step] = "kmalloc"
     THEN kbuf' \in [Slots -> Chars]
     ELSE UNCHANGED kbuf
  /\ UNCHANGED <<leaked, fileVars, writeVars, only>>

\* Mutant: the region is forgotten when cdev_alloc() fails.
Unwound_Forgets(failed) == IF failed = "cdev_add" THEN {"region"} ELSE {}

\* What the error path of a step gives back.
Unwound(failed) == IF failed \in {"cdev_alloc", "cdev_add"} THEN {"region"} ELSE {}

\* The module is gone, and what it has not given back stays.
Unloads(released) ==
  /\ step' = 0
  /\ held' = {} /\ leaked' = held \ released
  /\ kbuf' = [k \in Slots |-> NulChar]              \* nobody can see it
  /\ only' = [k \in Slots |-> {1, 2}]
  /\ UNCHANGED <<fileVars, writeVars>>

my_init_fails ==
  /\ step \in 1 .. Len(InitOrder)
  /\ InitOrder[step] \in {"alloc_chrdev_region", "cdev_alloc", "cdev_add"}
  /\ Unloads(Unwound(InitOrder[step]))

\* cdev_del() does not free what cdev_init() has taken over.  Without the class
\* device_destroy() follows an error pointer, and the module stays.
my_exit ==
  /\ step = Len(InitOrder) + 1 /\ open = {}
  /\ "class" \in held
  /\ Unloads({"nodes", "class", "live", "region", "kbuf"})

\* The device can be opened as soon as cdev_add() has made it live.
my_open(t) ==
  /\ "live" \in held /\ t \notin open
  /\ open' = open \cup {t}
  /\ \E m \in Minors : minor' = [minor EXCEPT ![t] = m]
  /\ pos' = [pos EXCEPT ![t] = 0]
  /\ UNCHANGED <<loadVars, kbuf, writeVars, only>>

my_release(t) ==
  /\ t \in open /\ pc[t] = "idle"
  /\ open' = open \ {t}
  /\ minor' = [minor EXCEPT ![t] = 0]               \* the file is gone
  /\ pos' = [pos EXCEPT ![t] = 0]
  /\ UNCHANGED <<loadVars, kbuf, writeVars, only>>

---------------------------------------------------------------------------
\* For a position inside the device (see MyDynamic for others).
BytesToDo(p, lbuf) == IF KBUF_SIZE - p > lbuf THEN lbuf ELSE KBUF_SIZE - p

\* my_read(): -ENOSPC at the end, otherwise n characters are copied.
my_read(t) ==
  /\ t \in open /\ pc[t] = "idle"
  /\ \E lbuf \in 1 .. KBUF_SIZE :
       /\ BytesToDo(pos[t], lbuf) > 0
       /\ \E n \in 0 .. BytesToDo(pos[t], lbuf) :
            pos' = [pos EXCEPT ![t] = @ + n]
  /\ UNCHANGED <<loadVars, kbuf, open, minor, writeVars, only>>

Busy == {t \in Threads : pc[t] # "idle"}

\* my_write() up to copy_from_user(); -ENOSPC at the end.
my_write(t) ==
  /\ t \in open /\ pc[t] = "idle"
  /\ \E s \in Texts :
       /\ BytesToDo(pos[t], Len(s)) > 0
       /\ text' = [text EXCEPT ![t] = s]
       /\ nbytes' = [nbytes EXCEPT ![t] = BytesToDo(pos[t], Len(s))]
  /\ i' = [i EXCEPT ![t] = 0]
  /\ pc' = [pc EXCEPT ![t] = "copy"]
  /\ crowded' = IF Busy = {} THEN crowded \ {t} ELSE crowded \cup Busy \cup {t}
  /\ UNCHANGED <<loadVars, kbuf, fileVars, c, only>>

\* copy_from_user() copies a character, ...
CopyByte(t) ==
  /\ pc[t] = "copy" /\ i[t] < nbytes[t]
  /\ kbuf' = [kbuf EXCEPT ![pos[t] + i[t]] = text[t][i[t] + 1]]
  /\ only' = [only EXCEPT ![pos[t] + i[t]] = @ \cap {minor[t]}]
  /\ i' = [i EXCEPT ![t] = @ + 1]
  /\ UNCHANGED <<loadVars, fileVars, pc, text, nbytes, c, crowded>>

\* ... or faults.
CopyFaults(t) ==
  /\ pc[t] = "copy" /\ i[t] < nbytes[t]
  /\ kbuf' = [k \in Slots |->
                IF k \in pos[t] + i[t] .. pos[t] + nbytes[t] - 1
                  THEN NulChar ELSE kbuf[k]]
  /\ nbytes' = [nbytes EXCEPT ![t] = i[t]]
  /\ UNCHANGED <<loadVars, fileVars, pc, text, i, c, crowded, only>>

\* convert() is called when the copy has ended.
CopyEnds(t) ==
  /\ pc[t] = "copy" /\ i[t] = nbytes[t]
  /\ pc' = [pc EXCEPT ![t] = "load"]
  /\ i' = [i EXCEPT ![t] = 0]
  /\ UNCHANGED <<loadVars, kbuf, fileVars, text, nbytes, c, crowded, only>>

to_lower(ch) == IF ch.case = "upper" THEN [ch EXCEPT !.case = "lower"] ELSE ch

to_upper(ch) == IF ch.case = "lower" THEN [ch EXCEPT !.case = "upper"] ELSE ch

\* The switch of convert().
Converted(ch, m) ==
  IF m = 1 THEN to_lower(ch) ELSE IF m = 2 THEN to_upper(ch) ELSE ch

ConvertLoads(t) ==
  /\ pc[t] = "load" /\ i[t] < nbytes[t]
  /\ c' = [c EXCEPT ![t] = kbuf[pos[t] + i[t]]]
  /\ pc' = [pc EXCEPT ![t] = "store"]
  /\ UNCHANGED <<loadVars, kbuf, fileVars, text, nbytes, i, crowded, only>>

\* Mutant: the case labels are shifted by one.
ConvertStores_Shifted(t) ==
  /\ pc[t] = "store"
  /\ kbuf' = [kbuf EXCEPT ![pos[t] + i[t]] = Converted(c[t], minor[t] + 1)]
  /\ i' = [i EXCEPT ![t] = @ + 1]
  /\ pc' = [pc EXCEPT ![t] = "load"]
  /\ UNCHANGED <<loadVars, fileVars, text, nbytes, c, crowded, only>>

\* Mutant: convert() skips the first character.
ConvertStores_SkipsFirst(t) ==
  /\ pc[t] = "store"
  /\ kbuf' = [kbuf EXCEPT ![pos[t] + i[t]] =
                IF i[t] = 0 THEN c[t] ELSE Converted(c[t], minor[t])]
  /\ i' = [i EXCEPT ![t] = @ + 1]
  /\ pc' = [pc EXCEPT ![t] = "load"]
  /\ UNCHANGED <<loadVars, fileVars, text, nbytes, c, crowded, only>>

ConvertStores(t) ==
  /\ pc[t] = "store"
  /\ kbuf' = [kbuf EXCEPT ![pos[t] + i[t]] = Converted(c[t], minor[t])]
  /\ i' = [i EXCEPT ![t] = @ + 1]
  /\ pc' = [pc EXCEPT ![t] = "load"]
  /\ UNCHANGED <<loadVars, fileVars, text, nbytes, c, crowded, only>>

ConvertEnds(t) == pc[t] = "load" /\ i[t] = nbytes[t]

my_write_returns(t) ==
  /\ ConvertEnds(t)
  /\ pos' = [pos EXCEPT ![t] = @ + nbytes[t]]
  /\ pc' = [pc EXCEPT ![t] = "idle"]
  /\ text' = [text EXCEPT ![t] = <<>>]             \* the locals are dead
  /\ nbytes' = [nbytes EXCEPT ![t] = 0]
  /\ i' = [i EXCEPT ![t] = 0]
  /\ c' = [c EXCEPT ![t] = NulChar]
  /\ crowded' = crowded \ {t}
  /\ UNCHANGED <<loadVars, kbuf, open, minor, only>>

---------------------------------------------------------------------------
ThreadStep(t) ==
  \/ my_open(t) \/ my_release(t) \/ my_read(t)
  \/ my_write(t) \/ CopyByte(t) \/ CopyFaults(t) \/ CopyEnds(t)
  \/ ConvertLoads(t) \/ ConvertStores(t) \/ my_write_returns(t)

Next ==
  \/ insmod \/ my_init \/ my_init_fails \/ my_exit
  \/ \E t \in Threads : ThreadStep(t)

Spec == Init /\ [][Next]_vars

---------------------------------------------------------------------------
(***************************************************************************)
(* A write that had the device to itself has left its text, converted as   *)
(* its minor number says, in the buffer when convert() is done.            *)
(***************************************************************************)
WritesConverted ==
  \A t \in Threads \ crowded :
    ConvertEnds(t) =>
      \A k \in 0 .. nbytes[t] - 1 :
        kbuf[pos[t] + k] = Converted(text[t][k + 1], minor[t])

(***************************************************************************)
(* Writers that overlap mix their texts and undo each other's writes, and  *)
(* a reader may see text that is not converted yet; but when no write is   *)
(* going on, a place of the buffer that was written through minor 1 only   *)
(* holds no upper case letter, and one written through minor 2 only no     *)
(* lower case letter.  Of places that were never written nothing is said:  *)
(* there a reader gets what kmalloc() found.                               *)
(***************************************************************************)
CaseSettles ==
  Busy = {} =>
    \A k \in Slots :
      /\ only[k] = {1} => kbuf[k].case # "upper"
      /\ only[k] = {2} => kbuf[k].case # "lower"

(***************************************************************************)
(* Whichever step of my_init() fails, and after every unloading, what is   *)
(* left behind is memory (the struct cdev, the buffer), never something    *)
(* registered; and a file that is open has all that it needs: the buffer   *)
(* under a live device.                                                    *)
(***************************************************************************)
LeaksOnlyMemory ==
  /\ leaked \subseteq {"cdev", "kbuf"}
  /\ open # {} => {"region", "cdev", "kbuf", "live"} \subseteq held
=============================================================================
