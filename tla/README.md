# Verification of kernel_examples

`kernel_examples` is a collection of small Linux kernel modules, each of which shows one
facility of the kernel. They are independent programs (a few come in pairs), they run in a
concurrent environment (other processes, interrupts, other processors, the loading and
unloading of modules), and almost none of them takes a lock. This project models the ones that
keep state, checks the models with TLC, and proves the most important results with TLAPS for
every value of the constants.

Contents: 1 inventory, 2 modules and the code, 3 runs, 4 fairness, 5 proofs, 6 what is only
model-checked, 7 what is not modelled, 8 plan.

## 1. Inventory

| Component | State | Operations | What is hard |
|---|---|---|---|
| block driver `block_dev/sbd.c` | the store, the queue with its lock, the resources held | load with five failing steps, unload, the request loop | requests are served in segments; block size and sector size differ; the loop's `continue`; int arithmetic |
| interrupt with bottom halves `irq/irq_delayed.c` (and `irq_tasklet.c`) | three counters, the time stamp shared with tasklet and work | interrupt handler, tasklet, work, load, unload | interrupts, tasklet and work on several processors; coalescing; order of the unloading |
| character device `char_dev/mydynamic.c` | buffer, positions of open files, resources | open, release, read, write, seek, load, unload | shared positions, signed/unsigned comparisons, partial failure of the load |
| converting device `char_dev/mydynamic_udev.c` | one buffer under five nodes | the same, and the in-place conversion of a write | unlocked copy and convert of overlapping writers |
| EFI monitor `kprobes/efi_reboot_monitor.c` | two lists of probes, the buffers for a variable's name and GUID | register lists, roll back, unregister, handlers | a failing element in the middle of two lists; NULL slots; handlers running meanwhile and sharing their buffers |
| Morse device `io_port/morse_io.c` | speaker port, PIT, code table | write, load, unload | two writers on one port, multi-step port protocol; the table |
| semaphore pair `synchronization/sema_mod1.c`, `sema_mod2.c` | a semaphore exported by one module and used by the other | load and unload of both, open | an `up()` without a `down()`; a load that waits |
| proc parameters `filesystem/my_new_proc.c`, `my_proc.c` | two integers, offsets of readers | read, write, load, unload | end-of-file decided by a value that changes between reads |
| signals through proc `filesystem/sig_proc.c` | `sig_pid`, `sig_tsk` | write to each node, load, unload | two variables that belong together, stored separately and without a lock |
| task information through proc `debug/task_proc.c` | `pid_no`, `p_task`, another module's `pid_allocated` | read and write of each node, load, unload | a process looked up before every access, which may exit or be replaced meanwhile; an unlocked addition |
| spinlock example `synchronization/spindead.c` | the lock, the number of threads that had it | create a thread per processor, the threads, load, unload | a thread that sleeps with the lock |
| network device `networking/mynet_drv.c` | transmit queue, statistics, the packets in the backlogs | load, open, transmit, close, unload | several processors; packets that are counted and then dropped; unloading |
| timers `timer/periodic_timer.c`, `timer/timer_drv.c` | one timer each | set, call, set again, delete, load, unload | `jiffies` wraps; the function sets the timer that is being deleted; a timer that is initialised while it is set |
| system call hook `syscalls/mysyscalls.c` | an entry of the system call table and its saved value | save, replace, restore, the replacement | the entry is in use on other processors all the time |

Interactions are few: module 2 of the semaphore pair uses a symbol of module 1 and so keeps it
loaded; every other module only meets the kernel (block layer, character device layer, procfs,
kprobes, softirqs, workqueues), which is modelled as external, from how the code uses it.
`PROJECT.json` lists every component, including those without state, and the hazards of the code,
each at its line. The properties are aimed at those hazards.

What makes each component correct:

* *block driver*: completed requests behave as on an atomic disk, in spite of the segments; a
  failed load and an unload give everything back; requests complete.
* *interrupt*: no interrupt is lost by coalescing; the report of `my_exit()` is exact; nothing
  runs in freed text.
* *character devices*: positions stay in the device, transfers in the buffer, the buffer
  outlives its use; converted text stays converted.
* *EFI monitor*: the load is all-or-nothing; after the unload no handler runs; a handler prints the
  variable it was called for.
* *Morse device*: the code played is Morse code; the speaker does not stay on; the pitch is right.
* *semaphore pair*: units of the semaphore are accounted for; a waiting load is let in.
* *proc nodes*: a reader gets a value once and comes to an end; a signal goes to the process that
  was announced; no access meets a NULL while the processes named live.
* *spinlock example*: it deadlocks as announced, and by the sleeper alone.
* *network device*: a channel that may lose packets and does nothing worse; statistics that add up.
* *timers*: never early, called again and again, stopped by the unloading; a ring for every write.
* *system call hook*: a call of `open()` comes to the original function, whether the hook is being
  put in or taken out.

## 2. Modules and how they correspond to the code

Every definition that stands for code is in the `map` of `PROJECT.json` with its lines. Operators
whose name has a suffix after an underscore and whose comment begins with "Mutant" are not part of
the models: they are wrong variants of the operator that follows them, used to see that a property
would notice such a bug. Each `MC...` module gives constants their values. `ProcNodes` (the modules of
`/proc`, with `MCProc` as its instance), `MCSync` and `MCCallbacks` put several modules that share no
state side by side, with a variable `example` that says which of them runs, so that their states add up
instead of multiplying.

**`Sbd`, `AtomicDisk`.** `AtomicDisk` is what the block layer expects: a disk on which a request
takes effect in one step, when it completes. `Sbd` is `sbd.c`: `sbd_init` / `sbd_init_fails` /
`sbd_exit` with the label `out` (`Unwound`), `RunQueue` (the block layer takes the queue lock and
calls `sbd_request()`), one step per segment (`ServeSegment` with `BeyondEnd`, `TransferOut`,
`TransferIn`), and the path for requests of another type (`SkipNonFs`, then `SpinOnEnded`, because
the `continue` goes round with the same `req`). Each load is given a major number or not;
`register_blkdev()` returns 0 for a given one, so that the unload unregisters nothing and the number
is refused the next time (`MajorFree`). Bytes are counted in chunks of 512. The refinement
mapping is in `Sbd`: the disk is the history variable `media`, and the buffer of a read that is
still being served is hidden.

**`IrqDelayed`.** `my_interrupt()` as the sequence `TopHalf` of single effects on the processor
that takes the interrupt, `t_func()` on one processor at a time, `w_func()` on a worker,
`my_init()` and `my_exit()` as the sequences `InitOrder` and `ExitOrder`. The counters are
`atomic_t`, so that an increment is one step; a work item may run on two processors at once (the
workqueues of some of the kernels the code is written for allow it), a tasklet may not.
History variables record which interrupt
each bottom half has seen.

**`MyDynamic`.** Threads share open files or not. A read or write is `read_or_write` (it copies
the position, as the system call does), `Copy` (any number of bytes, because `copy_*_user()` may
fault), and `StoreBack`; `pread_or_pwrite` passes a position of the caller's. A seek is
`mycdrv_lseek` (compute, `Clamp`) and `mycdrv_lseek_stores`. Loading is the sequence `InitOrder`,
with `Unwound` saying what a failing step gives back. `my_init()` does not look at what
`kmalloc()` returns: a copy with a NULL buffer stops at once or is an `Oops`, after which the
thread never returns.

**`MyUdev`.** `my_write()` is a copy and a conversion, a character at a time (`CopyByte`,
`CopyFaults`, `ConvertLoads`, `ConvertStores`), so that overlapping writers interleave at every
load and store. A character is an identity and a case. Loading is the sequence `InitOrder`, any step of
which fails: `Unwound` is what the error path of that step gives back, and the results of
`class_create()` and `device_create()` are not looked at. `kmalloc()` leaves any characters in the
buffer. The history `only` remembers through which converting nodes each place was written.

**`ProbeLists`.** The loops over `jps[]` and `kps[]`: `RegisterNext`, `RollbackNext`,
`UnregisterNext`, with `IsNull` for the slots of `jps[]` behind the initialisers; `WaitEnds` is
the wait of `unregister_*probe()` for running handlers. `my_init()` returns a positive number when
registering fails, with which the kernel keeps the module loaded: that is modelled.

**`EfiMonitor`** composes `ProbeLists` with what its handlers do. `my_virt_efi_get_variable()` and
`my_virt_efi_set_variable()` are entered (`EfiFire`), clear and fill `efi_name` a character at a
time (`set_efi_name`, `CopyChar`, `NameEnds`, with `CharOf` for the cast to `char`), clear and fill
`vendor_guid` (`set_guid`, `PrintGuid`), print and return (`EfiReturn`), so that handlers on other
processors can overwrite the shared buffers at each of these points; the five loops of `set_guid()`
are one step. `do_final_job` panics, after which nothing happens any more. `GuidText` is the
reference that the loops are compared with.

**`Morse`.** The table `codes`, the filter and the loops of `morse()`, and each `inb()` and
`outb()` of `sound()` and `nosound()` as a step. The PIT is external: it takes the low byte and
then the high byte of a divisor. The history `sent` has one entry per character taken, the signals
played for it so far; `International` is the reference these are compared with. `morse_init()` is the
sequence `InitOrder`, of which only the first two steps are checked (`morse_init_fails`, `Unwound`);
without the class `morse_exit()` follows an error pointer, and the module stays.

The table has codes for digits, punctuation and the word space, and `morse()` a branch for the latter,
but the test `c < 'A'` before the table is used passes over all of these characters. The model has all
three, so that the word space is a branch that no behaviour takes.

**`Sema`.** `up()` hands the semaphore to a waiter or counts it up. `my_open()` tries the
semaphore and does an `up()` in either case (`my_open_gets`, `my_open_fails`, `my_open_ups`).

**`ProcParam`.** A node's value stands for its text; only `strlen` of it matters. `my_proc_read`
ends the file when the offset is greater than the length of the *present* text and moves the
offset behind it otherwise. `my_proc.c` is the same with one node.

**`SigProc`.** Every load and store of `sig_pid` and `sig_tsk` is a step, and so is the lookup between
them: a write to "pid" is `pid_scanned`, `pid_loads`, `pid_finds` and `pid_stores`. Targets may exit,
and each node may be missing, since `my_init()` checks nothing. The histories `overlapped` and
`disturbed` say which writes, and which choices of a process, have met another one; `settled` says
that since the latest choice that was made alone all were.

**`TaskProc`.** Every access looks at `pid_no` (`begins`), loads it again (`loads_pid`), looks the
process up (`finds`), stores it in the shared `p_task` (`stores_task`) and uses what it found (`uses`,
with its own `p_task` or that of a later lookup); then a read or a failed copy `returns`, a write to
"pid" stores `pid_no`, and one to "nr_hashed" adds to `pid_allocated` in a load and a store. Numbers are
unsigned of width `Span`.

**`SpinDead`.** One thread per processor, created in turn up to the first failure, after one lock;
the first one that gets it sleeps in `schedule()`. Only somebody outside the module can wake it.

**`NetDev`, `LossyChannel`.** `LossyChannel` is what the stack may expect: packets travel in lanes,
one per processor, may be lost, and arrive once and in order. `NetDev` is `mynet_drv.c`: the two
increments of a transmission and `netif_rx()` are a step each, on any processor; a full backlog
drops the packet. The refinement mapping takes as a lane the backlog of a processor and the packet
it is transmitting.

**`KernelTimer`, `PeriodicTimer`, `TimerDrv`.** `KernelTimer` is the kernel's part, marked external:
`jiffies`, which wraps (and starts just before it does, as in Linux), a timer that is due in the
arithmetic of `time_after_eq()`, and a softirq that may be late. `PeriodicTimer` sets its timer
again in `ktfun()` and deletes it with `del_timer_sync()`. `TimerDrv` initialises, fills and adds
`my_timer` in three steps of each writer and adds 10 to `len` in two more, so that the timer can ring
in between; disturbing a timer that is set ends a behaviour (`"broken"`).

**`SyscallHook`.** The entry of `open()`, its saved value, and callers that are in `myopen()` or in
the original function while the module comes and goes. `my_exit` puts the entry back, `free_module`
frees the text: a caller that is still in `myopen()`, or in the function it called, is lost. The
history `caught` has those that were there when the entry was put back.

## 3. Runs

| Run | Properties | Bounds |
|---|---|---|
| `Sbd_base` | `LeaksAtMostTheQueue`, `ImplementsAtomicDisk`, `FsRequestsComplete` | 2 clients, 2 sectors, 2 data values, loads with and without a given number |
| `Sbd_lbs` (violation) | `ImplementsAtomicDisk` | 1 client, 4 sectors, blocks of 1024 bytes |
| `Sbd_nonfs` (violation) | `EveryRequestCompletes` | 2 clients, 2 sectors |
| `Irq` | `NoLostInterrupt`, `ReportIsFinal`, `ExitIsClean`, `BottomHalvesFollow`, `ExitEnds` | 2 processors, 3 interrupts |
| `MyDynamic_safe` | `PositionInDevice`, `TransferInBuffer`, `BufferOutlivesUse` | 2 threads, 2 files, buffer of 2, seeks by up to 3 in both directions |
| `MyDynamic_pread` (violation) | `TransferInBuffer` | 1 thread, position one past the end |
| `Udev` | `WritesConverted`, `CaseSettles`, `LeaksOnlyMemory` | 2 threads, minors 0 to 2, buffer of 2, texts "A", "a" and "aA" |
| `Probe` | `AllOrNothing`, `GoneMeansSilent`, `PrintsItsOwn`, `LoadAndUnloadEnd` | 4 jprobe slots (one panics, two format variables, the last is NULL), 2 kprobes, 2 variables |
| `Morse` | `TypeOK`, `PlaysMorse`, `OwnPitch`, `LeavesNothing` | 2 writers; one writes each of the 255 characters and "He 1L" |
| `Sync` | `UnitsAccounted`, `OpenAdmitsModule2`, `SleeperBlocksAll`, `WakingFreesAll` | 3 openers, 4 opens that fail to get the semaphore; 3 processors |
| `Proc` | `ProcTypeOK`, `ReadOnce`, `ReadingEnds`, `SignalsTheNamed`, `NoOopsWhileNamedLive`, `AddsAddUp` | 2 nodes, 1 reader, 5 values of 3 lengths; 3 writers and 1 target; 2 users, 2 tasks in 2 namespaces, 2 additions modulo 4 |
| `Callbacks` | `CallbackTypeOK`, `ImplementsChannel`, `PacketsAccounted`, `UnloadIsSafe`, `NeverEarly`, `FiresAgain`, `RingsForEveryWrite`, `HookIsTransparent` | 2 processors, 4 packets, backlogs of 2; `jiffies` of 16 values, a period of 3, up to 2 late; 2 writers, 3 writes; 3 callers |

Every type invariant is proved (section 5); only those of `Morse`, `Proc` and `Callbacks` are run as well.

What the passing runs show, and why the bounds are enough:

* `Sbd_base`: two clients suffice for a read and a write that are queued together; two sectors for a
  request with two segments, between which the queue lock is held, so that nothing else of the driver
  runs while clients queue requests, and for one that ends exactly at the end of the store. Loads that
  fail at any step, with and without a given number, come before and after. `FsRequestsComplete` is
  conditional: `Sbd_nonfs` shows why.
* `Irq`: three interrupts let a bottom half be pending, running and requested again at once; with
  two processors the unloading runs beside all of them. The report printed by `my_exit()` is exact for
  the interrupts and late for the bottom halves by what was still under way: at most two runs of the
  tasklet, and one work per processor and one more. Deadlock is not checked: the module ends
  unloaded with its bound of interrupts used up.
* `MyDynamic_safe`: a file that both threads share and one that they do not; positions from below
  0 to beyond the end. Deadlock is not checked: after `Oops` the module stops.
* `Udev`: two overlapping writers of up to two characters reach every order of loads and stores, with
  both cases in both places of a buffer that had any contents; each step of `my_init()` fails, and the
  device is opened while the last ones are still to come. Symmetry of the threads is sound: no property
  tells them apart.
* `Probe`: each element of both lists fails in some behaviour, in the first, a middle and the last
  place, and handlers run during every step. The two EFI handlers overlap in every order before
  one of them runs alone; the longer of the two names has a character beyond 255. Deadlock is not
  checked: a system that has panicked stops.
* `Morse`: every character is written, not a sample, with a second writer on the port at every step.
  `PlaysMorse` speaks of letters: no other character reaches the table (section 2). Deadlock is not
  checked: a module whose `cdev_add()` and `class_create()` have failed unnoticed can neither be used
  nor unloaded.
* `Sync`: four surplus `up()`s allow both modules and two openers to hold "the" semaphore at once;
  with three processors one thread sleeps, one spins and one is not yet created. Deadlock is not
  checked: it is what `spindead.c` is for.
* `Proc`: values of the shortest, the longest and one length between them; two of the same length.
  Three writers of `sig_proc.c`, so that a third one comes after a race of two: `SignalsTheNamed` is
  conditional on choices made alone, because two writers of "pid" can leave `sig_pid` and `sig_tsk`
  in disagreement, and says that one choice made alone is enough to end that. Two users of
  `task_proc.c` that overlap at every step while both tasks exit; an addition of 3 modulo 4 wraps.
  Deadlock is not checked: a thread that has oopsed stops.
* `Callbacks`: four packets fill a backlog of two, overflow it and are still taken out in between, on
  two processors, with closing and unloading in between; the timer's expiry wraps in every third period;
  writers of `timer_drv.c` that wait and that do not; three callers of `open()`, one of which is in each
  function when the module goes. `UnloadIsSafe` is about both `mynet_drv.c` and `periodic_timer.c`: what
  is freed is not in use. `RingsForEveryWrite` is conditional on writers that wait for the ring: the
  code breaks the timer otherwise; and it promises each write its own number only if they wait for the
  return too, because the timer may ring before `len` is counted up. `HookIsTransparent` names the
  callers it cannot speak for: those caught in `myopen()`. Deadlock is not checked: an oops or a broken
  timer ends an example.

What the violation runs show (findings in `PROJECT.json`):

* `Sbd_lbs`: `sbd_transfer()` scales the sector number, which always counts units of 512 bytes, by
  `logical_block_size`. With any other block size completed requests do not have their effect.
* `Sbd_nonfs`: after a request of another type the loop ends the same request for ever.
* `MyDynamic_pread`: a position beyond the end makes `maxbytes` negative, which the comparison
  with the unsigned `lbuf` takes as huge.

The driver's int product `nsectors * logical_block_size` is modelled with its width (`IntSpan`);
see the hazards for what happens when it wraps.

## 4. Fairness

* `Sbd`: weak fairness of `RunQueue` (the block layer runs a queue with requests in it) and of
  `sbd_request` (kernel code that holds a spinlock is not preempted for ever). Nothing is assumed
  of the clients.
* `IrqDelayed`: weak fairness of every function that has begun, of raised softirqs and of queued
  work: the kernel runs them. No fairness of `Interrupt` and of `rmmod`.
* `EfiMonitor`: until a handler panics, weak fairness of the loader's next step and of the steps of
  a running handler. A probe that is not armed does not fire any more, so that weak fairness is enough.
* `Sema`: weak fairness of steps inside a kernel function; none of opening, closing, loading,
  unloading or signals.
* `SpinDead`: weak fairness of each thread's steps (runnable threads run, each on its own
  processor). None of `wake_up`: nobody need ever wake the sleeper.
* `PeriodicTimer`: while the module is loaded time goes on, the softirq of a timer that is due runs,
  and code that has begun goes on; nothing is assumed of loading and unloading.
* `ProcParam`: weak fairness of the reader's next read: `ReadingEnds` is about a program that reads
  until the end, such as `cat`. Writers are not constrained.

## 5. Proofs

Eight modules hold proofs; all are checked by TLAPS (SMT, Zenon, and LS4 for the temporal steps).

* `SbdProofs`. `TypeCorrect`, and `Refinement`: under `DefaultGeometry` (blocks of 512 bytes and a
  size that fits an int; without it `Sbd_lbs` is a counterexample) `Spec => ImplementsAtomicDisk`,
  for any number of clients and sectors and for segments of any size. The inductive invariant is
  `TypeOK /\ Agreement`. `Agreement` relates the store to `media`: they agree except on the
  sectors of the write in progress that have been transferred, which hold the request's data; and
  a read in progress has in its buffer what `media` has. It is needed because a partly served
  request makes the two differ, which the abstract disk never sees. The lemmas `LastOfWrite`,
  `LastOfRead` and `NotLast` say that the last segment is the abstract effect and every other one a
  stutter. `NoLeak` is `LeaksAtMostTheQueue` for every sequence of loads, failed loads and
  unloads, with and without a given number; its invariant `LifeInv` ties `major_num`, by which
  `sbd_exit()` goes, to the number that is held.
* `IrqProofs`. `NothingLost`, `Coalesced`, `ReportExact`, `CleanExit`, for any number of processors
  and interrupts. `IInv` adds to the type: where the loader is determines what is registered
  (`LoaderInv`); the runs of each bottom half plus the one that is due do not exceed the
  interrupts (`CountInv`); an interrupt that a bottom half has not seen has left it pending
  (`SeenInv`). `ReportExact` also bounds what the bottom halves still add after the report:
  `LagInv` counts what is pending and running from then on, to which no interrupt can add.
* `MyDynamicProofs`. `PositionsBounded`, `NoUseAfterFree`, `NoLeak`, for any buffer size, threads
  and files, and `TransfersBounded` under the assumption that positions passed by `pread()` and
  `pwrite()` lie inside the device (without it `MyDynamic_pread` is a counterexample). `IInv`
  bounds the position that a thread has copied plus what it transfers (`PosInv`), because a
  position in the file alone does not bound what is stored back later, and says which resources
  are held at each place of the loader (`LifeInv`).
* `ProbeProofs`. `Atomic`, `Silent`, `NoNull`, for lists of any length. `IInv` describes the lists
  during each loop: below the index registered, above it not (`ForwardInv`, `RollbackInv`,
  `UnregisterInv`), and at rest all or none (`RestInv`). `Composition`: the monitor with its handlers
  (`EfiMonitor`) implements `ProbeLists`, so that
  the theorems about the lists carry over (`MonitorLists`). `EfiTypeCorrect` and `OwnPrinted`, for
  any lists, variables and GUIDs, and names that fit into `efi_name` (`MonitorAssumption`; the loop
  itself has no bound): `EfiTypeOK` bounds the index `cnt` by the size of the buffer, which needs that
  assumption. `EfiInv` says that a handler that has met no other is the only one
  (`AloneInv`, first conjunct), and that the buffers then hold exactly the characters copied so far;
  the clearing of the buffer at the start is what establishes this, and `GoneMeansSilent`, taken
  over from the lists, is needed where loading clears the buffers.
* `MyUdevProofs`. `TypeCorrect`, `NothingRegistered`, `SettledCase`, `TextConverted`, for any threads,
  texts and buffer size. `IInv` bounds what a writer still has to copy and convert (`WriteInv`) and says
  what is held at each step of `my_init()`, and that before `cdev_add()` nobody has the device open
  (`LoadInv`). `SettledCase` needs `CaseInv`: a character of the wrong case, in a place written through
  one converting node only, is always still to be converted by somebody (`Pending`), be it only as a
  character that is loaded and not yet stored; and `PendInv`: that somebody writes through that node.
  `TextConverted` needs `AloneInv`: a writer that has met no other is the only one, and then the buffer
  holds the converted text up to where it is and the original after it.
* `SyncProofs`. `SemaUnits`: `UnitsAccounted` for any number of openers; `SemInv` adds that nobody
  waits while the semaphore is free, and that without module 1 the device is closed. The openers at a
  place are counted with the cardinality theorems of the library. `SleeperBlocks`: `SleeperBlocksAll`
  on any number of processors; `SpinInv` adds that the counter is the number of threads that have
  passed the lock and that the holder of the lock is the one past it, so that with a sleeper nobody
  else has passed.
* `CallbackProofs`. `NetImplementsChannel`: `ImplementsChannel` for any finite set of processors and any
  number of packets and size of the backlogs. `NetInv` says that a processor transmits exactly when
  `pc` says so, and that nothing is on its way without a registered device; each action of `NetDev`
  is then shown to be a step of `LossyChannel` or a stutter, with lemmas on the first and the last
  element of a concatenation, because the packet that is being transmitted is the last of its lane.
  `UnloadingIsSafe` follows from the same invariant and `TimerInv`. `TimerIsNeverEarly`:
  `NeverEarly` for every width of `jiffies`; `TimerInv` says that `expires` is ahead of `jiffies` by
  what is left of the period, modulo the width, and `DueIsNotEarly` that `time_after_eq()` then says
  no (it rests on the period being below half of the width, `TimerAssumption`). `OpenIsTransparent`:
  `HookIsTransparent` for any number of callers; `HookInv` adds that `orig_open` is the original
  function before the entry is replaced, and that from the moment the entry is put back everybody in
  the module is in `caught`.
  `StatisticsExact`: `PacketsAccounted`, with `CountInv`. The packets in the backlogs are counted as the
  cardinality of the set `Taken` of places in use, so that the lemmas `OneMore` and `OneLess` about a
  single place replace a sum over the processors; the equations need no device, and that no more packets
  are counted than sent is what bounds the counters. `PatientWritersRing`: `RingsForEveryWrite` for any
  number of writers and writes. `LenInv` says that `len`, and what a writer has loaded of it, is never ahead of
  the writes that are through; `CrowdInv` that it is exact while no write has begun during another one;
  and `PatientInv` that while every write waits for the ring at most one is about to set the timer,
  none while it is set, and the numbers printed and the one in `data` are in order in that sense
  (`NumberOf`).
  `CallbackTypeCorrect`: the type invariants of all four modules.
* `FileProofs`, about `ProcNodes` and `Morse`; `ProcInvariant` and `MorseInvariant` are the inductive
  invariants.
  * `ParameterReadOnce`: `ReadOnce` for any nodes, readers and values. `ParInv` says that a reader whose
    node was not written has had nothing and is at the beginning, or has had the value and is behind it;
    and that nobody reads a module that is not loaded, so that loading disturbs nobody.
  * `NamedIsSignalled`: `SignalsTheNamed` for any writers and targets. `AloneInv` says that a write that
    has met no other is the only one. `ChoiceInv` says that a writer that chooses a process
    undisturbed is the only one, with a task loaded or found for the `sig_pid` that is there (`Sole`), so
    that its last store makes the two agree; and that they agree, or `sig_tsk` is NULL, whenever nobody
    chooses and `settled` holds. Without that condition this is false: two writers of "pid" can leave
    the two different after everybody has returned. `PrintInv` takes it on to the signal.
  * `NamedLiveNoOops`: `NoOopsWhileNamedLive` for any users, processes and namespaces. `LookupInv` says
    that what an access has found, and the shared `p_task` by then, were named; it holds only while
    everything named lives, and `TaskInv` carries it under that condition.
  * `AdditionsAddUp`: `AddsAddUp` modulo every `Span`. `AddInv` says that until an addition meets another
    access or an exit only one access is under way, `pid_allocated` is what the living processes and the
    additions make it, except where a store is due, and that store has the right value ready
    (`AddingInv`, `Settled`). An exit takes one away from both sides modulo `Span`; since the solver
    does not reason about remainders of an unknown modulus, `RemainderOfSum`, `RemaindersAdd` and
    `RemaindersSubtract` reduce them to a case distinction.
  * `AloneInTune` (`OwnPitch`) and `SilentAtTheEnd` (`LeavesNothing`), for any writers and texts, from
    `SpeakerInv`: what is held at the steps of `morse_init()` that can fail, while the gate is open
    somebody sounds, and a writer that has met no other finds the
    PIT between its two `outb()`s as it has left it (`PitchInv`).
  * `EveryTextPlayed`: `PlaysMorse` for any writers and texts, with any interleaving. `PlayInv` ties
    `sent` to what is left of the text (`TakenInv`), and what is left in `c` to the signals of the letter
    that are still to come (`LetterInv`). The table enters through two lemmas: the filter lets exactly
    the letters through (`CharacterIs`; hence `Played`, which the invariant needs for other characters
    too), and the code of each of the 26, lowest bit first, is its
    international one (`CodesAreInternational`).
  * `ProcTypeCorrect` and `MorseTypeCorrect`: the type invariants.

The assumptions on constants are the named `ASSUME`s of the component modules; TLC evaluates
them on every run. Those behind the last two modules: sets of processors and tasks are finite where
they are counted, `NULL` is no process, a `/proc` module has a node, a parameter's text has 2 to 12
characters, minors are those that were registered, and the characters of a text are bytes that are not
0, which ends it.

## 6. Only model-checked

Every invariant, action property and refinement that a passing run checks is stated by a theorem. What
stays with TLC is liveness, because this prover does not reason about fairness and `ENABLED`:
`FsRequestsComplete`, `BottomHalvesFollow`, `ExitEnds`, `LoadAndUnloadEnd`, `OpenAdmitsModule2`,
`WakingFreesAll`, `ReadingEnds` and `FiresAgain`.

## 7. Not modelled

* Code that only prints or lists (`module_basic/`, `pci/`, `io_port/gpio_legacy_led.c`,
  `sysrq/sysrq_task.c`): no state that could go wrong. Generated files (`*.mod.c`, `.*.cmd`): not
  this program's logic.
* `memory/kmalloc_rand.c`, `memory/dedicated_slab.c`, `filesystem/my_sysfs.c`: straight lines of one
  thread, in which each step is checked where it is made.
* `char_dev/mychar.c`: its reads and writes have no bounds at all; its seek is that of `mydynamic.c`.
* `kprobes/kprobe_test.c`, `kprobes/jprobe_test.c`, `debug/kprobe_zap.c`, `debug/zap_jprobe.c`: one
  probe, registered and unregistered, which is the shortest list of `ProbeLists`. What becomes of a
  process that `debug/` puts to sleep inside a probe is up to the kernel.
* `irq/irq_tasklet.c` and `irq/simple_tasklet.c`: the tasklet of `IrqDelayed` without the workqueue.
  `irq/myinterrupt.c`: two loops over the lines with a flag for each, and a handler without state.
* `sbd_getgeo()` returns constants. The contents of `mydynamic.c`'s buffer do not influence control.
  The offset of a read in `sig_proc.c` and `task_proc.c` is handled as in `ProcParam`.
* Behaviour that is undefined, from the point on where it is: unloading `morse_io.c` under a writer
  (`m_fops` has no owner) or `spindead.c` under its threads, signalling a task whose memory was
  freed, a timer that is disturbed while it is set, returning into `myopen()` after it is gone,
  unloading `morse_io.c` or `mydynamic_udev.c` without their class.

## 8. Plan

Done, in this order: `AtomicDisk` and `Sbd` with its proofs; `IrqDelayed`; `MyDynamic`;
`ProbeLists`; `Morse`, `Sema`, `ProcParam`, `SigProc`, `MyUdev`; `EfiMonitor` over `ProbeLists`;
`SpinDead`, `TaskProc`, `NetDev` against `LossyChannel`, the timers, `SyscallHook`; the proofs about
`MyUdev`, `Sema`, `SpinDead`, `NetDev`, `PeriodicTimer` and `SyscallHook`; those about `TimerDrv`, the
statistics of `NetDev`, `ProcParam`, `SigProc`, `TaskProc` and `Morse`.

What is left of the code keeps no state that takes several steps to go wrong (section 7).

Theorems to come: facts that no run states and that say more than the properties do, first of all how
far `pid_allocated` can be off after additions that did meet, and what `efi_name` can hold after handlers
that did.
