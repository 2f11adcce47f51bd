----------------------------- MODULE EfiMonitor -----------------------------
(***************************************************************************)
(* The whole of kprobes/efi_reboot_monitor.c: the probe lists of           *)
(* ProbeLists, and what their handlers do.                                 *)
(*                                                                         *)
(* The handlers of virt_efi_get_variable() and virt_efi_set_variable()     *)
(* format the name and the GUID of the variable into the buffers efi_name  *)
(* and vendor_guid, which they share, and print them.  The handlers of the *)
(* native_machine_*() functions panic: the system stops.  The others only  *)
(* print.                                                                  *)
(*                                                                         *)
(* A name is a sequence of 16-bit characters without its final 0.  A GUID  *)
(* is an identity g with the bytes <<g, 0>> to <<g, 15>>; what is printed  *)
(* of a byte are its two digits.  The loops that print a GUID are one      *)
(* step.  A handler runs once at a time per probe.                         *)
(***************************************************************************)
EXTENDS ProbeLists, Sequences

CONSTANTS
  EfiJp,        \* slots of jps[] of the two handlers for EFI variables
  FinalJp,      \* slots of jps[] of the handlers that panic
  NAME_SIZE,    \* size of efi_name
  EfiVars,      \* the variables,
  Name,         \* the name of each
  Guids,        \* and its GUID
  Guid,
  NoVar         \* not a variable

Uchars == 1 .. 65535      \* efi_char16_t, except for the 0 that ends a name

ASSUME MonitorAssumption ==
  /\ EfiJp \subseteq 0 .. LastJp - 1
  /\ FinalJp \subseteq (0 .. LastJp - 1) \ EfiJp
  /\ NAME_SIZE \in Nat \ {0}
  /\ NoVar \notin EfiVars
  /\ Name \in [EfiVars -> Seq(Uchars)]
  /\ Guid \in [EfiVars -> Guids]
  /\ \A v \in EfiVars : Len(Name[v]) < NAME_SIZE

VARIABLES
  panicked,     \* a handler has called panic()
  efi_name,     \* the buffers
  vendor_guid,
  hpc,          \* where the handlers for EFI variables are
  var,          \* the variable each of them was called for
  cnt,          \* their local variables
  crowded       \* history: handlers that have run at the same time

bufVars == <<efi_name, vendor_guid>>
efiVars == <<bufVars, hpc, var, cnt, crowded>>
allVars == <<vars, panicked, efiVars>>

EfiProbes   == {<<"j", n>> : n \in EfiJp}
FinalProbes == {<<"j", n>> : n \in FinalJp}

---------------------------------------------------------------------------
\* for (i = first; i >= last; i--), and i++: the bytes in their order.
Down(first, last) == [k \in 1 .. first - last + 1 |-> first - k + 1]
Up(first, last)   == [k \in 1 .. last - first + 1 |-> first + k - 1]

\* The five loops of set_guid(), between which it puts a '-'.
GuidLoops == <<Down(3, 0), Down(5, 4), Down(7, 6), Up(8, 9), Up(10, 15)>>

Groups == 1 .. 5

\* What the loops print of a GUID.
Printed(g) ==
  [n \in Groups |-> [k \in 1 .. Len(GuidLoops[n]) |-> <<g, GuidLoops[n][k]>>]]

NoName == [k \in 0 .. NAME_SIZE - 1 |-> 0]
NoGuid == [n \in Groups |-> <<>>]

EfiTypeOK ==
  /\ TypeOK
  /\ panicked \in BOOLEAN
  /\ efi_name \in [0 .. NAME_SIZE - 1 -> 0 .. 255]
  /\ vendor_guid \in {NoGuid} \cup {Printed(g) : g \in Guids}
  /\ hpc \in [EfiProbes -> {"idle", "name0", "name", "guid0", "guid", "print"}]
  /\ var \in [EfiProbes -> EfiVars \cup {NoVar}]
  /\ cnt \in [EfiProbes -> 0 .. NAME_SIZE - 1]      \* an index of efi_name
  /\ crowded \subseteq EfiProbes

EfiInit ==
  /\ Init
  /\ panicked = FALSE
  /\ efi_name = NoName /\ vendor_guid = NoGuid
  /\ hpc = [p \in EfiProbes |-> "idle"]
  /\ var = [p \in EfiProbes |-> NoVar]
  /\ cnt = [p \in EfiProbes |-> 0]
  /\ crowded = {}

---------------------------------------------------------------------------
\* The module is loaded with empty buffers.
Load ==
  /\ insmod
  /\ efi_name' = NoName /\ vendor_guid' = NoGuid
  /\ UNCHANGED <<panicked, hpc, var, cnt, crowded>>

Lists ==
  /\ ModuleStep \/ my_exit
  /\ UNCHANGED <<panicked, efiVars>>

Others(p) == (running \cap EfiProbes) \ {p}

\* my_virt_efi_get_variable() or my_virt_efi_set_variable() is entered.
EfiFire(p) ==
  /\ Fire(p)
  /\ hpc' = [hpc EXCEPT ![p] = "name0"]
  /\ \E v \in EfiVars : var' = [var EXCEPT ![p] = v]
  /\ crowded' = IF Others(p) = {} THEN crowded
                                  ELSE crowded \cup Others(p) \cup {p}
  /\ UNCHANGED <<panicked, bufVars, cnt>>

\* Mutant: efi_name is not cleared.
set_efi_name_Dirty(p) ==
  /\ hpc[p] = "name0"
  /\ hpc' = [hpc EXCEPT ![p] = "name"]
  /\ cnt' = [cnt EXCEPT ![p] = 0]
  /\ UNCHANGED <<vars, panicked, bufVars, var, crowded>>

\* set_efi_name(): memset(), ...
set_efi_name(p) ==
  /\ hpc[p] = "name0"
  /\ efi_name' = NoName
  /\ hpc' = [hpc EXCEPT ![p] = "name"]
  /\ cnt' = [cnt EXCEPT ![p] = 0]
  /\ UNCHANGED <<vars, panicked, vendor_guid, var, crowded>>

\* (char)uchar
CharOf(uchar) == uchar % 256

\* ... and the loop: one character, ...
CopyChar(p) ==
  /\ hpc[p] = "name" /\ cnt[p] < Len(Name[var[p]])
  /\ efi_name' = [efi_name EXCEPT ![cnt[p]] = CharOf(Name[var[p]][cnt[p] + 1])]
  /\ cnt' = [cnt EXCEPT ![p] = @ + 1]
  /\ UNCHANGED <<vars, panicked, vendor_guid, hpc, var, crowded>>

\* ... or its end.
NameEnds(p) ==
  /\ hpc[p] = "name" /\ cnt[p] = Len(Name[var[p]])
  /\ hpc' = [hpc EXCEPT ![p] = "guid0"]
  /\ cnt' = [cnt EXCEPT ![p] = 0]
  /\ UNCHANGED <<vars, panicked, bufVars, var, crowded>>

\* set_guid(): memset(), ...
set_guid(p) ==
  /\ hpc[p] = "guid0"
  /\ vendor_guid' = NoGuid
  /\ hpc' = [hpc EXCEPT ![p] = "guid"]
  /\ UNCHANGED <<vars, panicked, efi_name, var, cnt, crowded>>

\* ... and the loops.
PrintGuid(p) ==
  /\ hpc[p] = "guid"
  /\ vendor_guid' = Printed(Guid[var[p]])
  /\ hpc' = [hpc EXCEPT ![p] = "print"]
  /\ UNCHANGED <<vars, panicked, efi_name, var, cnt, crowded>>

\* printk("... name : %s-%s"), and jprobe_return().
EfiReturn(p) ==
  /\ hpc[p] = "print"
  /\ HandlerReturns(p)
  /\ hpc' = [hpc EXCEPT ![p] = "idle"]
  /\ var' = [var EXCEPT ![p] = NoVar]
  /\ crowded' = crowded \ {p}
  /\ UNCHANGED <<panicked, bufVars, cnt>>

\* The handlers that only print, and the entry of those that panic.
OtherFire(p) == Fire(p) /\ UNCHANGED <<panicked, efiVars>>

OtherReturn(p) == HandlerReturns(p) /\ UNCHANGED <<panicked, efiVars>>

\* do_final_job()
do_final_job(p) ==
  /\ p \in running
  /\ panicked' = TRUE
  /\ UNCHANGED <<vars, efiVars>>

---------------------------------------------------------------------------
EfiHandler(p) ==
  \/ set_efi_name(p) \/ CopyChar(p) \/ NameEnds(p)
  \/ set_guid(p) \/ PrintGuid(p) \/ EfiReturn(p)

EfiNext ==
  /\ ~panicked
  /\ \/ Load \/ Lists
     \/ \E p \in EfiProbes : EfiFire(p) \/ EfiHandler(p)
     \/ \E p \in Probes \ EfiProbes : OtherFire(p)
     \/ \E p \in Probes \ (EfiProbes \cup FinalProbes) : OtherReturn(p)
     \/ \E p \in FinalProbes : do_final_job(p)

EfiSpec == EfiInit /\ [][EfiNext]_allVars

\* As long as the system runs, insmod and rmmod go on and handlers return.
Fairness ==
  /\ WF_allVars(~panicked /\ ModuleStep /\ UNCHANGED <<panicked, efiVars>>)
  /\ \A p \in EfiProbes : WF_allVars(~panicked /\ EfiHandler(p))
  /\ \A p \in Probes \ (EfiProbes \cup FinalProbes) :
       WF_allVars(~panicked /\ OtherReturn(p))
  /\ \A p \in FinalProbes : WF_allVars(~panicked /\ do_final_job(p))

FairSpec == EfiSpec /\ Fairness

---------------------------------------------------------------------------
\* A field of a GUID as it is written: a little-endian number, its bytes
\* most significant first, or bytes in their order.
LittleEndian(first, size) == [k \in 1 .. size |-> first + size - k]
InOrder(first, size)      == [k \in 1 .. size |-> first + k - 1]

GuidFields ==
  <<LittleEndian(0, 4), LittleEndian(4, 2), LittleEndian(6, 2),
    InOrder(8, 2), InOrder(10, 6)>>

GuidText(g) ==
  [n \in Groups |->
     [k \in 1 .. Len(GuidFields[n]) |-> <<g, GuidFields[n][k]>>]]

\* The buffer efi_name holds the C string s.
HoldsString(s) ==
  /\ \A k \in 1 .. Len(s) : efi_name[k - 1] = s[k]
  /\ efi_name[Len(s)] = 0

EightBit(s) == \A k \in 1 .. Len(s) : s[k] < 256

(***************************************************************************)
(* A handler that has run alone prints the GUID of its own variable, in    *)
(* the text form of GUIDs, and the variable's name, if that has no         *)
(* character beyond 255: nothing of what earlier handlers have left in     *)
(* efi_name and vendor_guid shows, also when they had longer names or had  *)
(* mixed up the buffers.                                                   *)
(***************************************************************************)
PrintsItsOwn ==
  \A p \in EfiProbes \ crowded :
    hpc[p] = "print" =>
      /\ vendor_guid = GuidText(Guid[var[p]])
      /\ EightBit(Name[var[p]]) => HoldsString(Name[var[p]])

(***************************************************************************)
(* insmod and rmmod come to an end, whatever fails and fires meanwhile,    *)
(* unless a handler panics.                                                *)
(***************************************************************************)
LoadAndUnloadEnd ==
  /\ pc = "register" ~> (pc = "live" \/ panicked)
  /\ pc = "unregister" ~> (pc \in {"live", "out"} \/ panicked)
=============================================================================
