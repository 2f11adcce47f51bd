---------------------------- MODULE MCCallbacks ----------------------------
(***************************************************************************)
(* The modules whose functions the kernel calls when packets, timers or    *)
(* system calls come: NetDev, PeriodicTimer, TimerDrv and SyscallHook.     *)
(* They share no state; example says which of them runs, so that the       *)
(* states of one are not multiplied by those of the others.                *)
(***************************************************************************)
EXTENDS NetDev

CONSTANTS
  Wrap, Delay, MaxLate,                 \* of both timers
  Writers, MaxWrites,                   \* of TimerDrv
  Callers                               \* of SyscallHook

VARIABLES
  example,
  jiffies, pending, expires, passed, timerLoaded, timerPc,
  drvJiffies, drvPending, drvExpires, drvPassed, drvLoaded, drvPc, len, sum,
  data, writes, rung, hasty, crowded,
  hookLoader, entry, orig_open, hookPc, failed, caught

Timer == INSTANCE PeriodicTimer WITH loaded <- timerLoaded, pc <- timerPc
Drv   == INSTANCE TimerDrv WITH
           jiffies <- drvJiffies, pending <- drvPending,
           expires <- drvExpires, passed <- drvPassed,
           loaded <- drvLoaded, pc <- drvPc
Hook  == INSTANCE SyscallHook WITH loader <- hookLoader, pc <- hookPc

ASSUME CallbackAssumption ==
  NetAssumption /\ Timer!TimerAssumption /\ Drv!DrvAssumption

timerVars == <<jiffies, pending, expires, passed, timerLoaded, timerPc>>
drvVars   == <<drvJiffies, drvPending, drvExpires, drvPassed, drvLoaded, drvPc,
               len, sum, data, writes, rung, hasty, crowded>>
hookVars  == <<hookLoader, entry, orig_open, hookPc, failed, caught>>

CallbackInit ==
  /\ example \in {"mynet_drv", "periodic_timer", "timer_drv", "mysyscalls"}
  /\ Init /\ Timer!Init /\ Drv!Init /\ Hook!Init

CallbackNext ==
  \/ /\ example = "mynet_drv" /\ Next
     /\ UNCHANGED <<example, timerVars, drvVars, hookVars>>
  \/ /\ example = "periodic_timer" /\ Timer!Next
     /\ UNCHANGED <<example, vars, drvVars, hookVars>>
  \/ /\ example = "timer_drv" /\ Drv!Next
     /\ UNCHANGED <<example, vars, timerVars, hookVars>>
  \/ /\ example = "mysyscalls" /\ Hook!Next
     /\ UNCHANGED <<example, vars, timerVars, drvVars>>

CallbackSpec ==
  /\ CallbackInit
  /\ [][CallbackNext]_<<example, vars, timerVars, drvVars, hookVars>>
  /\ Timer!Fairness

\* The type invariants of the modules, for the values this run reaches.
CallbackTypeOK == TypeOK /\ Timer!TypeOK /\ Drv!TypeOK /\ Hook!TypeOK

\* my_exit() of mynet_drv.c frees a device nothing refers to, and after
\* cleanup_module() of periodic_timer.c ktfun() is neither set nor running.
UnloadIsSafe == FreedIsUnused /\ Timer!UnloadStopsTimer

\* ktfun() is not called before its period has passed; see PeriodicTimer.
NeverEarly == Timer!NeverEarly

\* ktfun() is called again and again while the module is loaded; see
\* PeriodicTimer.
FiresAgain == Timer!FiresAgain

\* my_timer_function() of timer_drv.c comes for what was written; see
\* TimerDrv.
RingsForEveryWrite == Drv!RingsForEveryWrite

\* open() comes to the original function, but for callers that myopen() still
\* had when it was unloaded; see SyscallHook.
HookIsTransparent == Hook!HookIsTransparent
=============================================================================
