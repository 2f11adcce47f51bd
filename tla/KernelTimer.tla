---------------------------- MODULE KernelTimer ----------------------------
(***************************************************************************)
(* The kernel's clock and one of its timers, as the modules of timer/ use  *)
(* them.  jiffies is an unsigned long that wraps; a timer is due from      *)
(* expires on, in the arithmetic of time_after_eq(), and the softirq may   *)
(* come late.  Both are external to the repository.                        *)
(***************************************************************************)
EXTENDS Naturals

CONSTANTS
  Wrap,        \* number of values of an unsigned long
  Delay,       \* how far ahead the module sets its timer: 2 * HZ, HZ
  MaxLate      \* bound: jiffies by which the softirq is late

TimerAssumption ==
  /\ Wrap \in Nat /\ Delay \in Nat \ {0} /\ MaxLate \in Nat
  /\ Delay + MaxLate < Wrap \div 2

VARIABLES
  jiffies,
  pending,     \* the timer is on a list of the kernel
  expires,     \* timer.expires
  passed       \* history: jiffies since the timer was set

clock == <<jiffies, pending, expires, passed>>

ClockTypeOK ==
  /\ jiffies \in 0 .. Wrap - 1 /\ pending \in BOOLEAN
  /\ expires \in 0 .. Wrap - 1 /\ passed \in 0 .. Delay

\* Linux starts with jiffies shortly before it wraps.
ClockInit ==
  /\ jiffies = Wrap - 1 /\ pending = FALSE
  /\ expires = 0 /\ passed = 0

time_after_eq(a, b) == (a + Wrap - b) % Wrap < Wrap \div 2

Due == pending /\ time_after_eq(jiffies, expires)

Late == Due /\ (jiffies + Wrap - expires) % Wrap >= MaxLate

Tick ==
  /\ ~Late
  /\ jiffies' = (jiffies + 1) % Wrap
  /\ passed' = IF passed < Delay THEN passed + 1 ELSE passed
  /\ UNCHANGED <<pending, expires>>
=============================================================================
