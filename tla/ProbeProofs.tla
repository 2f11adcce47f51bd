----------------------------- MODULE ProbeProofs -----------------------------
(***************************************************************************)
(* Proofs about the lists of probes, for lists of any length, and about    *)
(* the EFI and reboot monitor, which is these lists with handlers.         *)
(***************************************************************************)
EXTENDS EfiMonitor, TLAPS

USE ListAssumption

(***************************************************************************)
(* The inductive invariant: which probes are registered while the loops    *)
(* are under way.  Forwards, those before the index; rolling back, those   *)
(* up to the index; unregistering, none before it.  The probe at hand is   *)
(* already disarmed while its handlers are being waited for.               *)
(***************************************************************************)
Done(l, n) == waiting /\ Slot = <<l, n>>

ForwardInv ==
  pc = "register" =>
    /\ at >= 0
    /\ \A n \in 0 .. LastJp - 1 : <<"j", n>> \in reg <=> list = "k" \/ n < at
    /\ \A n \in 0 .. NUMKP - 1 : <<"k", n>> \in reg <=> list = "k" /\ n < at

RollbackInv ==
  pc = "rollback" =>
    /\ list = "j" => at < LastJp
    /\ list = "k" => at < NUMKP
    /\ \A n \in 0 .. LastJp - 1 :
         <<"j", n>> \in reg <=> list = "k" \/ (n <= at /\ ~Done("j", n))
    /\ \A n \in 0 .. NUMKP - 1 :
         <<"k", n>> \in reg <=> list = "k" /\ n <= at /\ ~Done("k", n)

UnregisterInv ==
  pc = "unregister" =>
    /\ at >= 0
    /\ \A n \in 0 .. LastJp - 1 :
         <<"j", n>> \in reg => list = "k" \/ (n >= at /\ ~Done("j", n))
    /\ \A n \in 0 .. NUMKP - 1 :
         <<"k", n>> \in reg => list = "k" /\ n >= at /\ ~Done("k", n)

RestInv ==
  /\ pc # "oops"
  /\ reg \subseteq addr
  /\ pc = "out" => reg = {}
  /\ pc = "live" => reg = IF ret = 0 THEN Probes ELSE {}
  /\ waiting => pc \in {"rollback", "unregister"} /\ Slot \in Probes
  /\ running \subseteq reg \cup {p \in {Slot} : waiting}

IInv == TypeOK /\ ForwardInv /\ RollbackInv /\ UnregisterInv /\ RestInv

LEMMA ProbeCases ==
  /\ \A p : p \in Probes <=> \/ \E n \in 0 .. LastJp - 1 : p = <<"j", n>>
                             \/ \E n \in 0 .. NUMKP - 1 : p = <<"k", n>>
  /\ \A n \in Int : <<"j", n>> \in Probes <=> 0 <= n /\ n < LastJp
  /\ \A n \in Int : <<"k", n>> \in Probes <=> 0 <= n /\ n < NUMKP
  BY DEF Probes, Jprobes, Kprobes

LEMMA Sizes == Size("j") = NUMJP /\ Size("k") = NUMKP
  BY DEF Size

LEMMA InitIInv == Init => IInv
  <1> SUFFICES ASSUME Init PROVE IInv
    OBVIOUS
  <1>1. waiting \in BOOLEAN /\ exiting \in BOOLEAN
    BY Zenon DEF Init
  <1>2. TypeOK
    BY <1>1, Sizes DEF Init, TypeOK
  <1> QED
    BY <1>2 DEF Init, IInv, ForwardInv, RollbackInv, UnregisterInv, RestInv

LEMMA InsmodStep == ASSUME IInv, insmod PROVE IInv'
  <1> USE DEF insmod
  <1>1. ~waiting /\ reg = {} /\ running = {}
    BY DEF IInv, RestInv
  <1>2. TypeOK'
    BY Sizes DEF IInv, TypeOK
  <1>3. ForwardInv'
    BY <1>1 DEF ForwardInv
  <1>4. RollbackInv' /\ UnregisterInv'
    BY DEF RollbackInv, UnregisterInv
  <1>5. RestInv'
    BY <1>1 DEF RestInv
  <1> QED
    BY <1>2, <1>3, <1>4, <1>5 DEF IInv

LEMMA RegisterNextStep == ASSUME IInv, RegisterNext PROVE IInv'
  <1> USE DEF InList
  <1>1. /\ pc = "register" /\ at \in Int /\ at >= 0 /\ at < Size(list)
        /\ list \in {"j", "k"} /\ ~waiting /\ ~waiting'
        /\ UNCHANGED <<list, waiting, exiting, ret, running>>
    BY DEF RegisterNext, IInv, TypeOK, ForwardInv, RestInv
  <1>2. CASE IsNull /\ at' = at + 1 /\ UNCHANGED <<pc, reg, addr>>
    <2>1. list = "j" /\ at >= LastJp
      BY <1>1, <1>2, Sizes, ProbeCases DEF IsNull, Slot
    <2>2. TypeOK'
      BY <1>1, <1>2, <2>1, Sizes DEF IInv, TypeOK
    <2>3. ForwardInv'
      BY <1>1, <1>2, <2>1 DEF IInv, ForwardInv
    <2>4. RollbackInv' /\ UnregisterInv'
      BY <1>1, <1>2 DEF RollbackInv, UnregisterInv
    <2>5. RestInv'
      BY <1>1, <1>2 DEF IInv, RestInv
    <2> QED
      BY <2>2, <2>3, <2>4, <2>5 DEF IInv
  <1>3. CASE /\ ~IsNull /\ reg' = reg \cup {Slot} /\ addr' = addr \cup {Slot}
             /\ at' = at + 1 /\ UNCHANGED pc
    <2>1. Slot \in Probes
      BY <1>3 DEF IsNull
    <2>2. TypeOK'
      BY <1>1, <1>3, <2>1, Sizes DEF IInv, TypeOK
    <2>3. ForwardInv'
      <3>1. CASE list = "j"
        BY <1>1, <1>3, <3>1 DEF IInv, ForwardInv, Slot
      <3>2. CASE list = "k"
        BY <1>1, <1>3, <3>2 DEF IInv, ForwardInv, Slot
      <3> QED
        BY <1>1, <3>1, <3>2
    <2>4. RollbackInv' /\ UnregisterInv'
      BY <1>1, <1>3 DEF RollbackInv, UnregisterInv
    <2>5. RestInv'
      BY <1>1, <1>3 DEF IInv, RestInv
    <2> QED
      BY <2>2, <2>3, <2>4, <2>5 DEF IInv
  <1>4. CASE /\ ~IsNull /\ addr' \in {addr, addr \cup {Slot}}
             /\ pc' = "rollback" /\ at' = at - 1 /\ UNCHANGED reg
    <2>1. /\ Slot \in Probes
          /\ list = "j" => at < LastJp
          /\ list = "k" => at < NUMKP
      BY <1>1, <1>4, ProbeCases DEF IsNull, Slot
    <2>2. TypeOK'
      BY <1>1, <1>4, <2>1, Sizes DEF IInv, TypeOK
    <2>3. RollbackInv'
      BY <1>1, <1>4, <2>1 DEF IInv, ForwardInv, RollbackInv, Done
    <2>4. ForwardInv' /\ UnregisterInv'
      BY <1>1, <1>4 DEF ForwardInv, UnregisterInv
    <2>5. RestInv'
      BY <1>1, <1>4 DEF IInv, RestInv
    <2> QED
      BY <2>2, <2>3, <2>4, <2>5 DEF IInv
  <1> QED
    BY <1>2, <1>3, <1>4 DEF RegisterNext, RollbackFrom

LEMMA RegisterEndsStep == ASSUME IInv, RegisterEnds PROVE IInv'
  <1> USE DEF InList
  <1>1. /\ pc = "register" /\ at \in Int /\ at >= Size(list)
        /\ list \in {"j", "k"} /\ ~waiting
        /\ UNCHANGED <<waiting, exiting, reg, addr, running>>
    BY Sizes DEF RegisterEnds, IInv, TypeOK, RestInv
  <1>2. CASE list = "j" /\ list' = "k" /\ at' = 0 /\ UNCHANGED <<pc, ret>>
    <2>1. TypeOK'
      BY <1>1, <1>2, Sizes DEF IInv, TypeOK
    <2>2. ForwardInv'
      BY <1>1, <1>2, Sizes DEF IInv, ForwardInv
    <2>3. RollbackInv' /\ UnregisterInv' /\ RestInv'
      BY <1>1, <1>2 DEF IInv, RollbackInv, UnregisterInv, RestInv
    <2> QED
      BY <2>1, <2>2, <2>3 DEF IInv
  <1>3. CASE list = "k" /\ pc' = "live" /\ ret' = 0 /\ UNCHANGED <<list, at>>
    <2>1. TypeOK'
      BY <1>1, <1>3 DEF IInv, TypeOK
    <2>2. reg = Probes
      BY <1>1, <1>3, Sizes, ProbeCases DEF IInv, TypeOK, ForwardInv
    <2>3. RestInv'
      BY <1>1, <1>3, <2>2 DEF IInv, RestInv
    <2>4. ForwardInv' /\ RollbackInv' /\ UnregisterInv'
      BY <1>3 DEF ForwardInv, RollbackInv, UnregisterInv
    <2> QED
      BY <2>1, <2>3, <2>4 DEF IInv
  <1> QED
    BY <1>2, <1>3 DEF RegisterEnds

LEMMA RollbackNextStep == ASSUME IInv, RollbackNext PROVE IInv'
  <1> USE DEF RollsBack
  <1>1. /\ pc = "rollback" /\ at \in Int /\ at >= 0 /\ ~waiting
        /\ list \in {"j", "k"}
        /\ UNCHANGED <<list, at, exiting, ret, addr, running>>
        /\ reg' = reg \ {Slot}
    BY DEF RollbackNext, IInv, TypeOK
  <1>2. Slot \in Probes
    BY <1>1, ProbeCases DEF IInv, RollbackInv, Slot
  <1>3. pc' = pc /\ waiting' = TRUE
    BY <1>2 DEF RollbackNext, IsNull
  <1>4. Slot \in reg /\ Slot' = Slot
    BY <1>1, <1>2, ProbeCases DEF IInv, RollbackInv, Slot, Done
  <1>5. TypeOK'
    <2>1. waiting' \in BOOLEAN
      BY <1>3, Zenon
    <2> QED
      BY <1>1, <1>3, <2>1 DEF IInv, TypeOK
  <1>6. RollbackInv'
    <2>1. CASE list = "j"
      BY <1>1, <1>3, <1>4, <2>1 DEF IInv, RollbackInv, Done, Slot
    <2>2. CASE list = "k"
      BY <1>1, <1>3, <1>4, <2>2 DEF IInv, RollbackInv, Done, Slot
    <2> QED
      BY <1>1, <2>1, <2>2
  <1>7. ForwardInv' /\ UnregisterInv'
    BY <1>1, <1>3 DEF ForwardInv, UnregisterInv
  <1>8. RestInv'
    BY <1>1, <1>2, <1>3, <1>4 DEF IInv, RestInv
  <1> QED
    BY <1>5, <1>6, <1>7, <1>8 DEF IInv

LEMMA RollbackEndsStep == ASSUME IInv, RollbackEnds PROVE IInv'
  <1> USE DEF RollsBack
  <1>1. /\ pc = "rollback" /\ at \in Int /\ at < 0 /\ ~waiting
        /\ list \in {"j", "k"}
        /\ UNCHANGED <<waiting, reg, addr, running>>
    BY DEF RollbackEnds, IInv, TypeOK
  <1>2. CASE list = "j" /\ pc' = "live" /\ ret' = 1 /\ UNCHANGED <<list, at, exiting>>
    <2>1. TypeOK'
      BY <1>1, <1>2 DEF IInv, TypeOK
    <2>2. reg = {}
      BY <1>1, <1>2, ProbeCases DEF IInv, TypeOK, RollbackInv
    <2>3. RestInv'
      BY <1>1, <1>2, <2>2 DEF IInv, RestInv
    <2>4. ForwardInv' /\ RollbackInv' /\ UnregisterInv'
      BY <1>2 DEF ForwardInv, RollbackInv, UnregisterInv
    <2> QED
      BY <2>1, <2>3, <2>4 DEF IInv
  <1>3. CASE /\ list = "k" /\ pc' = "unregister" /\ list' = "j" /\ at' = 0
             /\ exiting' = FALSE /\ UNCHANGED ret
    <2>1. TypeOK'
      <3>1. exiting' \in BOOLEAN
        BY <1>3, Zenon
      <3> QED
        BY <1>1, <1>3, <3>1, Sizes DEF IInv, TypeOK
    <2>2. UnregisterInv'
      BY <1>1, <1>3 DEF IInv, RollbackInv, UnregisterInv, Done
    <2>3. ForwardInv' /\ RollbackInv' /\ RestInv'
      BY <1>1, <1>3 DEF IInv, ForwardInv, RollbackInv, RestInv
    <2> QED
      BY <2>1, <2>2, <2>3 DEF IInv
  <1> QED
    BY <1>2, <1>3 DEF RollbackEnds

LEMMA UnregisterNextStep == ASSUME IInv, UnregisterNext PROVE IInv'
  <1> USE DEF InList
  <1>1. /\ pc = "unregister" /\ at \in Int /\ at >= 0 /\ at < Size(list)
        /\ ~waiting /\ list \in {"j", "k"}
        /\ UNCHANGED <<pc, list, exiting, ret, running>>
    BY DEF UnregisterNext, IInv, TypeOK, UnregisterInv
  <1>2. ASSUME Slot \notin reg, reg' = reg, at' = at + 1, waiting' = waiting,
               addr' \in {addr, addr \ {Slot}}
        PROVE  IInv'
    <2>1. TypeOK'
      <3>1. at' \in -1 .. Size(list)
        BY <1>1, <1>2, Sizes
      <3> QED
        BY <1>1, <1>2, <3>1 DEF IInv, TypeOK, Size
    <2>2. UnregisterInv'
      <3>1. CASE list = "j"
        BY <1>1, <1>2, <3>1 DEF IInv, UnregisterInv, Done, Slot
      <3>2. CASE list = "k"
        BY <1>1, <1>2, <3>2 DEF IInv, UnregisterInv, Done, Slot
      <3> QED
        BY <1>1, <3>1, <3>2
    <2>3. ForwardInv' /\ RollbackInv' /\ RestInv'
      BY <1>1, <1>2 DEF IInv, ForwardInv, RollbackInv, RestInv
    <2> QED
      BY <2>1, <2>2, <2>3 DEF IInv
  <1>3. CASE Skips /\ at' = at + 1 /\ UNCHANGED <<reg, addr, waiting>>
    <2>1. Slot \notin reg
      BY <1>3 DEF Skips, IsNull, IInv, TypeOK, RestInv
    <2> QED
      BY <1>2, <1>3, <2>1
  <1>4. CASE /\ ~Skips /\ Slot \notin reg /\ addr' = addr \ {Slot} /\ at' = at + 1
             /\ UNCHANGED <<reg, waiting>>
    BY <1>2, <1>4
  <1>5. CASE /\ ~Skips /\ Slot \in reg /\ reg' = reg \ {Slot} /\ waiting' = TRUE
             /\ UNCHANGED <<at, addr>>
    <2>1. Slot \in Probes /\ Slot' = Slot
      BY <1>1, <1>5 DEF Skips, IsNull, Slot
    <2>2. TypeOK'
      <3>1. waiting' \in BOOLEAN
        BY <1>5, Zenon
      <3> QED
        BY <1>1, <1>5, <3>1 DEF IInv, TypeOK
    <2>3. UnregisterInv'
      BY <1>1, <1>5, <2>1 DEF IInv, UnregisterInv, Done, Slot
    <2>4. ForwardInv' /\ RollbackInv'
      BY <1>1 DEF ForwardInv, RollbackInv
    <2>5. RestInv'
      BY <1>1, <1>5, <2>1 DEF IInv, RestInv
    <2> QED
      BY <2>2, <2>3, <2>4, <2>5 DEF IInv
  <1> QED
    BY <1>3, <1>4, <1>5 DEF UnregisterNext

LEMMA WaitEndsStep == ASSUME IInv, WaitEnds PROVE IInv'
  <1>1. /\ waiting /\ waiting' = FALSE /\ Slot \notin running /\ at \in Int
        /\ at' = IF pc = "rollback" THEN at - 1 ELSE at + 1
        /\ UNCHANGED <<pc, list, exiting, ret, reg, addr, running>>
        /\ list \in {"j", "k"}
    BY DEF WaitEnds, IInv, TypeOK
  <1>2. /\ pc \in {"rollback", "unregister"} /\ Slot \in Probes
        /\ ~waiting'
    BY <1>1 DEF IInv, RestInv
  <1>3. at >= 0 /\ at < Size(list)
    BY <1>1, <1>2, ProbeCases, Sizes DEF Slot
  <1>4. TypeOK'
    <2>1. waiting' \in BOOLEAN
      BY <1>1, Zenon
    <2>2. at' \in -1 .. Size(list)
      BY <1>1, <1>3, Sizes
    <2> QED
      BY <1>1, <2>1, <2>2 DEF IInv, TypeOK, Size
  <1>5. RestInv'
    BY <1>1, <1>2 DEF IInv, RestInv
  <1>6. CASE pc = "rollback"
    <2>1. RollbackInv'
      <3>1. CASE list = "j"
        BY <1>1, <1>2, <1>6, <3>1 DEF IInv, RollbackInv, Done, Slot
      <3>2. CASE list = "k"
        BY <1>1, <1>2, <1>6, <3>2 DEF IInv, RollbackInv, Done, Slot
      <3> QED
        BY <1>1, <3>1, <3>2
    <2> QED
      BY <1>1, <1>4, <1>5, <1>6, <2>1 DEF IInv, ForwardInv, UnregisterInv
  <1>7. CASE pc = "unregister"
    <2>1. UnregisterInv'
      <3>1. CASE list = "j"
        BY <1>1, <1>2, <1>3, <1>7, <3>1 DEF IInv, UnregisterInv, Done, Slot
      <3>2. CASE list = "k"
        BY <1>1, <1>2, <1>3, <1>7, <3>2 DEF IInv, UnregisterInv, Done, Slot
      <3> QED
        BY <1>1, <3>1, <3>2
    <2> QED
      BY <1>1, <1>4, <1>5, <1>7, <2>1 DEF IInv, ForwardInv, RollbackInv
  <1> QED
    BY <1>2, <1>6, <1>7

LEMMA UnregisterEndsStep == ASSUME IInv, UnregisterEnds PROVE IInv'
  <1> USE DEF InList
  <1>1. /\ pc = "unregister" /\ at \in Int /\ at >= Size(list) /\ ~waiting
        /\ list \in {"j", "k"}
        /\ UNCHANGED <<waiting, exiting, reg, addr, running>>
    BY Sizes DEF UnregisterEnds, IInv, TypeOK
  <1>2. CASE list = "k" /\ list' = "j" /\ at' = 0 /\ UNCHANGED <<pc, ret>>
    <2>1. TypeOK'
      BY <1>1, <1>2, Sizes DEF IInv, TypeOK
    <2>2. UnregisterInv'
      BY <1>1, <1>2, Sizes DEF IInv, UnregisterInv, Done
    <2>3. ForwardInv' /\ RollbackInv' /\ RestInv'
      BY <1>1, <1>2 DEF IInv, ForwardInv, RollbackInv, RestInv
    <2> QED
      BY <2>1, <2>2, <2>3 DEF IInv
  <1>3. CASE /\ list = "j" /\ UNCHANGED <<list, at>>
             /\ \/ pc' = "out" /\ UNCHANGED ret
                \/ pc' = "live" /\ ret' = 1
    <2>1. TypeOK'
      BY <1>1, <1>3 DEF IInv, TypeOK
    <2>2. reg = {}
      BY <1>1, <1>3, Sizes, ProbeCases DEF IInv, TypeOK, UnregisterInv
    <2>3. RestInv'
      BY <1>1, <1>3, <2>2 DEF IInv, RestInv
    <2>4. ForwardInv' /\ RollbackInv' /\ UnregisterInv'
      BY <1>3 DEF ForwardInv, RollbackInv, UnregisterInv
    <2> QED
      BY <2>1, <2>3, <2>4 DEF IInv
  <1> QED
    BY <1>2, <1>3 DEF UnregisterEnds

LEMMA ExitStep == ASSUME IInv, my_exit PROVE IInv'
  <1>1. /\ pc = "live" /\ pc' = "unregister" /\ list' = "k" /\ at' = 0
        /\ exiting' = TRUE /\ UNCHANGED <<waiting, ret, reg, addr, running>>
        /\ ~waiting
    BY DEF my_exit, IInv, RestInv
  <1>2. TypeOK'
    <2>1. exiting' \in BOOLEAN
      BY <1>1, Zenon
    <2> QED
      BY <1>1, <2>1, Sizes DEF IInv, TypeOK
  <1>3. UnregisterInv'
    BY <1>1 DEF UnregisterInv, Done
  <1>4. ForwardInv' /\ RollbackInv' /\ RestInv'
    BY <1>1 DEF IInv, ForwardInv, RollbackInv, RestInv
  <1> QED
    BY <1>2, <1>3, <1>4 DEF IInv

LEMMA HandlerStep ==
  ASSUME IInv, NEW p \in Probes, Fire(p) \/ HandlerReturns(p) PROVE IInv'
  <1>1. /\ UNCHANGED <<pc, list, at, waiting, exiting, ret, reg, addr>>
        /\ running' \subseteq running \cup {q \in {p} : p \in reg}
    BY DEF Fire, HandlerReturns
  <1>2. Slot' = Slot
    BY <1>1 DEF Slot
  <1>3. TypeOK'
    BY <1>1 DEF IInv, TypeOK
  <1>4. ForwardInv' /\ RollbackInv' /\ UnregisterInv'
    BY <1>1, <1>2 DEF IInv, ForwardInv, RollbackInv, UnregisterInv, Done
  <1>5. RestInv'
    BY <1>1, <1>2 DEF IInv, RestInv
  <1> QED
    BY <1>3, <1>4, <1>5 DEF IInv

LEMMA NextIInv == IInv /\ [Next]_vars => IInv'
  <1> SUFFICES ASSUME IInv, [Next]_vars PROVE IInv'
    OBVIOUS
  <1>1. CASE UNCHANGED vars
    BY <1>1 DEF vars, IInv, TypeOK, ForwardInv, RollbackInv, UnregisterInv,
                RestInv, Done, Slot
  <1> QED
    BY <1>1, InsmodStep, RegisterNextStep, RegisterEndsStep, RollbackNextStep,
       RollbackEndsStep, UnregisterNextStep, WaitEndsStep, UnregisterEndsStep,
       ExitStep, HandlerStep DEF Next, ModuleStep

THEOREM Inductive == Spec => []IInv
  BY InitIInv, NextIInv, PTL DEF Spec

\* Every variable keeps its type: no loop leaves its list.
THEOREM TypeCorrect == Spec => []TypeOK
  BY Inductive, PTL DEF IInv

\* my_init() registers all probes or none, for lists of any length.
THEOREM Atomic == Spec => []AllOrNothing
  <1>1. IInv => AllOrNothing
    BY DEF IInv, RestInv, AllOrNothing
  <1> QED
    BY <1>1, Inductive, PTL

\* An unloaded module has no probe left and no handler running.
THEOREM Silent == Spec => []GoneMeansSilent
  <1>1. IInv => GoneMeansSilent
    BY DEF IInv, RestInv, GoneMeansSilent
  <1> QED
    BY <1>1, Inductive, PTL

\* The rollback loops need no test for NULL.
THEOREM NoNull == Spec => []RollbackMeetsNoNull
  <1>1. IInv => RollbackMeetsNoNull
    BY DEF IInv, RestInv, RollbackMeetsNoNull
  <1> QED
    BY <1>1, Inductive, PTL

---------------------------------------------------------------------------
(***************************************************************************)
(* The monitor is the probe lists with handlers, so that what is shown of  *)
(* the lists holds of it, and a handler that runs alone prints what        *)
(* belongs to its own variable.                                            *)
(***************************************************************************)
LEMMA EfiAreProbes ==
  /\ EfiProbes \subseteq Probes
  /\ FinalProbes \subseteq Probes
<1>1. ASSUME NEW n \in 0 .. LastJp - 1 PROVE <<"j", n>> \in Probes
  BY DEF Probes, Jprobes
<1> QED BY <1>1, MonitorAssumption DEF EfiProbes, FinalProbes

(***************************************************************************)
(* Every step of the monitor is a step of its probe lists or leaves them   *)
(* alone: the handlers add behaviour to ProbeLists and change none of it.  *)
(***************************************************************************)
THEOREM Composition == EfiSpec => Spec
<1>1. EfiInit => Init
  BY DEF EfiInit
<1>2. [EfiNext]_allVars => [Next]_vars
  <2> SUFFICES ASSUME EfiNext PROVE Next \/ UNCHANGED vars
    BY DEF allVars
  <2>1. CASE Load
    BY <2>1 DEF Load, Next
  <2>2. CASE Lists
    BY <2>2 DEF Lists, Next
  <2>3. ASSUME NEW p \in EfiProbes, EfiFire(p) PROVE Next
    BY <2>3, EfiAreProbes DEF EfiFire, Next
  <2>4. ASSUME NEW p \in EfiProbes, EfiHandler(p) PROVE Next \/ UNCHANGED vars
    <3>1. CASE EfiReturn(p)
      BY <3>1, EfiAreProbes DEF EfiReturn, Next
    <3>2. CASE ~EfiReturn(p)
      BY <2>4, <3>2 DEF EfiHandler, set_efi_name, CopyChar, NameEnds,
                        set_guid, PrintGuid
    <3> QED BY <3>1, <3>2
  <2>5. ASSUME NEW p \in Probes, OtherFire(p) \/ OtherReturn(p) PROVE Next
    BY <2>5 DEF OtherFire, OtherReturn, Next
  <2>6. ASSUME NEW p \in FinalProbes, do_final_job(p) PROVE UNCHANGED vars
    BY <2>6 DEF do_final_job
  <2> QED BY <2>1, <2>2, <2>3, <2>4, <2>5, <2>6 DEF EfiNext
<1> QED BY <1>1, <1>2, PTL DEF EfiSpec, Spec

(***************************************************************************)
(* The guarantees of the probe lists hold of the monitor: loading is all   *)
(* or nothing, and once the module is out nothing of it runs, whatever the *)
(* handlers do.                                                            *)
(***************************************************************************)
THEOREM MonitorLists == EfiSpec => [](AllOrNothing /\ GoneMeansSilent)
  BY Composition, Atomic, Silent, PTL

---------------------------------------------------------------------------
\* The first n characters of the name of p are in efi_name, and nothing else.
NameSoFar(p, n) ==
  \A k \in 0 .. NAME_SIZE - 1 :
    efi_name[k] = IF k < n THEN CharOf(Name[var[p]][k + 1]) ELSE 0

(***************************************************************************)
(* The inductive invariant: a handler that has met no other has the        *)
(* buffers to itself, and they hold exactly what it has put there.         *)
(***************************************************************************)
HandlerInv ==
  \A p \in EfiProbes :
    /\ hpc[p] # "idle" <=> p \in running
    /\ hpc[p] # "idle" => var[p] \in EfiVars
    /\ hpc[p] = "name" => cnt[p] <= Len(Name[var[p]])

AloneInv ==
  \A p \in EfiProbes \ crowded :
    /\ p \in running => \A q \in EfiProbes : q \in running => q = p
    /\ hpc[p] = "name" => NameSoFar(p, cnt[p])
    /\ hpc[p] \in {"guid0", "guid", "print"} => NameSoFar(p, Len(Name[var[p]]))
    /\ hpc[p] = "print" => vendor_guid = Printed(Guid[var[p]])

EfiInv == EfiTypeOK /\ HandlerInv /\ AloneInv

\* The loops of set_guid() print the fields of a GUID as they are written.
LEMMA LoopsAreFields == GuidLoops = GuidFields
<1>1. Down(3, 0) = LittleEndian(0, 4)
  BY DEF Down, LittleEndian
<1>2. Down(5, 4) = LittleEndian(4, 2)
  BY DEF Down, LittleEndian
<1>3. Down(7, 6) = LittleEndian(6, 2)
  BY DEF Down, LittleEndian
<1>4. Up(8, 9) = InOrder(8, 2) /\ Up(10, 15) = InOrder(10, 6)
  BY DEF Up, InOrder
<1> QED BY <1>1, <1>2, <1>3, <1>4 DEF GuidLoops, GuidFields

LEMMA PrintedIsText == ASSUME NEW g PROVE Printed(g) = GuidText(g)
  BY LoopsAreFields DEF Printed, GuidText

\* (char)uchar is a char, and an eight-bit character comes through unchanged.
LEMMA CharFacts ==
  ASSUME NEW u \in Uchars
  PROVE  CharOf(u) \in 0 .. 255 /\ (u < 256 => CharOf(u) = u)
<1>1. u \in Nat
  BY DEF Uchars
<1>2. u % 256 \in 0 .. 255
  BY <1>1
<1>3. u < 256 => u % 256 = u
  BY <1>1
<1> QED BY <1>2, <1>3 DEF CharOf

\* What is known of a variable and of the characters of its name.
LEMMA VarFacts ==
  ASSUME NEW v \in EfiVars
  PROVE  /\ Name[v] \in Seq(Uchars)
         /\ Guid[v] \in Guids
         /\ Len(Name[v]) \in 0 .. NAME_SIZE - 1
         /\ \A k \in 1 .. Len(Name[v]) : CharOf(Name[v][k]) \in 0 .. 255
<1>1. Name[v] \in Seq(Uchars) /\ Guid[v] \in Guids
  BY MonitorAssumption
<1>2. Len(Name[v]) \in 0 .. NAME_SIZE - 1
  BY <1>1, MonitorAssumption
<1>3. ASSUME NEW k \in 1 .. Len(Name[v]) PROVE CharOf(Name[v][k]) \in 0 .. 255
  <2>1. Name[v][k] \in Uchars
    BY <1>1
  <2> QED BY <2>1, CharFacts
<1> QED BY <1>1, <1>2, <1>3

LEMMA InitEfiInv == EfiInit => EfiInv
<1> SUFFICES ASSUME EfiInit PROVE EfiInv
  OBVIOUS
<1>1. TypeOK
  BY InitIInv DEF EfiInit, IInv
<1>2. EfiTypeOK
  <2>1. panicked \in BOOLEAN
    BY Zenon DEF EfiInit
  <2>2. efi_name \in [0 .. NAME_SIZE - 1 -> 0 .. 255]
    BY DEF EfiInit, NoName
  <2>3. vendor_guid \in {NoGuid} \cup {Printed(g) : g \in Guids}
    BY DEF EfiInit
  <2>4. /\ hpc \in [EfiProbes -> {"idle", "name0", "name", "guid0", "guid", "print"}]
        /\ var \in [EfiProbes -> EfiVars \cup {NoVar}]
        /\ cnt \in [EfiProbes -> 0 .. NAME_SIZE - 1]
        /\ crowded \subseteq EfiProbes
    BY MonitorAssumption DEF EfiInit
  <2> QED BY <1>1, <2>1, <2>2, <2>3, <2>4 DEF EfiTypeOK
<1>3. HandlerInv /\ AloneInv
  BY DEF EfiInit, Init, HandlerInv, AloneInv
<1> QED BY <1>2, <1>3 DEF EfiInv

---------------------------------------------------------------------------
\* While one handler runs, another one is idle or has met it.
LEMMA AloneOrIdle ==
  ASSUME EfiInv, NEW p \in EfiProbes, hpc[p] # "idle",
         NEW q \in EfiProbes \ crowded, q # p
  PROVE  hpc[q] = "idle"
  BY DEF EfiInv, HandlerInv, AloneInv

\* Loading: no handler runs while the module is out.
LEMMA LoadStep == ASSUME EfiInv, TypeOK', GoneMeansSilent, Load PROVE EfiInv'
<1>1. /\ efi_name' = NoName /\ vendor_guid' = NoGuid
      /\ UNCHANGED <<panicked, hpc, var, cnt, crowded>>
      /\ running = {} /\ running' = {}
  BY DEF Load, insmod, GoneMeansSilent
<1>2. EfiTypeOK'
  <2>1. efi_name' \in [0 .. NAME_SIZE - 1 -> 0 .. 255]
    BY <1>1 DEF NoName
  <2> QED BY <1>1, <2>1 DEF EfiInv, EfiTypeOK
<1>3. HandlerInv'
  BY <1>1 DEF EfiInv, HandlerInv
<1>4. AloneInv'
  BY <1>1, <1>3 DEF EfiInv, HandlerInv, AloneInv
<1> QED BY <1>2, <1>3, <1>4 DEF EfiInv

\* Steps that leave the handlers for EFI variables and the buffers alone.
LEMMA QuietStep ==
  ASSUME EfiInv, TypeOK', UNCHANGED efiVars, panicked' \in BOOLEAN,
         \A p \in EfiProbes : p \in running' <=> p \in running
  PROVE  EfiInv'
<1> USE DEF efiVars, bufVars
<1>1. EfiTypeOK'
  BY DEF EfiInv, EfiTypeOK
<1>2. HandlerInv'
  BY DEF EfiInv, HandlerInv
<1>3. AloneInv'
  BY DEF EfiInv, AloneInv, NameSoFar
<1> QED BY <1>1, <1>2, <1>3 DEF EfiInv

LEMMA FireStep ==
  ASSUME EfiInv, TypeOK', NEW p \in EfiProbes, EfiFire(p) PROVE EfiInv'
<1>1. /\ p \notin running /\ running' = running \cup {p}
      /\ hpc' = [hpc EXCEPT ![p] = "name0"]
      /\ crowded' = IF Others(p) = {} THEN crowded
                                      ELSE crowded \cup Others(p) \cup {p}
      /\ UNCHANGED <<panicked, efi_name, vendor_guid, cnt>>
  BY DEF EfiFire, Fire, bufVars
<1>2. PICK v \in EfiVars : var' = [var EXCEPT ![p] = v]
  BY DEF EfiFire
<1>3. EfiTypeOK'
  BY <1>1, <1>2 DEF EfiInv, EfiTypeOK, Others
<1>4. HandlerInv'
  BY <1>1, <1>2 DEF EfiInv, EfiTypeOK, HandlerInv
<1>5. ASSUME NEW q \in EfiProbes \ crowded', q # p
      PROVE  hpc'[q] = "idle" /\ q \notin running'
  BY <1>1, <1>5 DEF EfiInv, EfiTypeOK, HandlerInv, Others
<1>6. AloneInv'
  <2>1. hpc'[p] = "name0"
    BY <1>1 DEF EfiInv, EfiTypeOK
  <2>2. ASSUME p \notin crowded', NEW q \in EfiProbes, q \in running'
        PROVE  q = p
    BY <1>1, <2>2 DEF Others
  <2> QED BY <1>5, <2>1, <2>2 DEF AloneInv
<1> QED BY <1>3, <1>4, <1>6 DEF EfiInv

LEMMA NameStep ==
  ASSUME EfiInv, TypeOK', NEW p \in EfiProbes, set_efi_name(p) PROVE EfiInv'
<1>1. /\ hpc[p] = "name0" /\ efi_name' = NoName
      /\ hpc' = [hpc EXCEPT ![p] = "name"] /\ cnt' = [cnt EXCEPT ![p] = 0]
      /\ UNCHANGED <<running, panicked, vendor_guid, var, crowded>>
  BY DEF set_efi_name, vars
<1>2. var[p] \in EfiVars /\ hpc'[p] = "name" /\ cnt'[p] = 0
  BY <1>1 DEF EfiInv, EfiTypeOK, HandlerInv
<1>3. EfiTypeOK'
  <2>1. efi_name' \in [0 .. NAME_SIZE - 1 -> 0 .. 255]
    BY <1>1 DEF NoName
  <2>2. cnt' \in [EfiProbes -> 0 .. NAME_SIZE - 1]
    BY <1>1, MonitorAssumption DEF EfiInv, EfiTypeOK
  <2> QED BY <1>1, <2>1, <2>2 DEF EfiInv, EfiTypeOK
<1>4. HandlerInv'
  BY <1>1, <1>2, VarFacts DEF EfiInv, EfiTypeOK, HandlerInv
<1>5. AloneInv'
  <2>1. ASSUME NEW q \in EfiProbes \ crowded, q # p PROVE hpc'[q] = "idle"
    BY <1>1, <2>1, AloneOrIdle DEF EfiInv, EfiTypeOK
  <2>2. NameSoFar(p, cnt[p])'
    BY <1>1, <1>2 DEF NameSoFar, NoName
  <2> QED BY <1>1, <1>2, <1>4, <2>1, <2>2 DEF EfiInv, HandlerInv, AloneInv
<1> QED BY <1>3, <1>4, <1>5 DEF EfiInv

LEMMA CopyStep ==
  ASSUME EfiInv, TypeOK', NEW p \in EfiProbes, CopyChar(p) PROVE EfiInv'
<1> DEFINE n == cnt[p]
<1> DEFINE c == CharOf(Name[var[p]][n + 1])
<1>1. /\ hpc[p] = "name" /\ n < Len(Name[var[p]])
      /\ efi_name' = [efi_name EXCEPT ![n] = c]
      /\ cnt' = [cnt EXCEPT ![p] = n + 1]
      /\ UNCHANGED <<running, panicked, vendor_guid, hpc, var, crowded>>
  BY DEF CopyChar, vars
<1>2. /\ var[p] \in EfiVars /\ n \in Nat /\ cnt'[p] = n + 1
      /\ efi_name \in [0 .. NAME_SIZE - 1 -> 0 .. 255]
  BY <1>1 DEF EfiInv, EfiTypeOK, HandlerInv
<1>3. /\ Len(Name[var[p]]) \in 0 .. NAME_SIZE - 1
      /\ n \in 0 .. NAME_SIZE - 1 /\ c \in 0 .. 255
  <2>1. Len(Name[var[p]]) \in 0 .. NAME_SIZE - 1
    BY <1>2, VarFacts
  <2>2. n \in 0 .. NAME_SIZE - 1 /\ n + 1 \in 1 .. Len(Name[var[p]])
    BY <1>1, <1>2, <2>1, MonitorAssumption
  <2>3. c \in 0 .. 255
    BY <1>2, <2>2, VarFacts
  <2> QED BY <2>1, <2>2, <2>3
<1> HIDE DEF n, c
<1>4. EfiTypeOK'
  <2>1. efi_name' \in [0 .. NAME_SIZE - 1 -> 0 .. 255]
    BY <1>1, <1>2, <1>3
  <2>2. n + 1 \in 0 .. NAME_SIZE - 1
    BY <1>1, <1>2, <1>3, MonitorAssumption
  <2>3. cnt' \in [EfiProbes -> 0 .. NAME_SIZE - 1]
    BY <1>1, <2>2 DEF EfiInv, EfiTypeOK
  <2> QED BY <1>1, <2>1, <2>3 DEF EfiInv, EfiTypeOK
<1>5. HandlerInv'
  <2>1. cnt'[p] <= Len(Name[var[p]])
    BY <1>1, <1>2, <1>3
  <2>2. ASSUME NEW q \in EfiProbes, q # p PROVE cnt'[q] = cnt[q]
    BY <1>1, <2>2 DEF EfiInv, EfiTypeOK
  <2> QED BY <1>1, <2>1, <2>2 DEF EfiInv, HandlerInv
<1>6. AloneInv'
  <2>1. ASSUME NEW q \in EfiProbes \ crowded, q # p PROVE hpc[q] = "idle"
    BY <1>1, <2>1, AloneOrIdle
  <2>2. ASSUME p \notin crowded PROVE NameSoFar(p, cnt[p])'
    <3>1. NameSoFar(p, n)
      BY <1>1, <2>2 DEF EfiInv, AloneInv, n
    <3>2. ASSUME NEW k \in 0 .. NAME_SIZE - 1
          PROVE  efi_name'[k] = IF k < n + 1 THEN CharOf(Name[var[p]][k + 1])
                                             ELSE 0
      <4>1. CASE k = n
        BY <1>1, <1>2, <1>3, <4>1 DEF c
      <4>2. CASE k # n
        <5>1. efi_name'[k] = efi_name[k]
          BY <1>1, <1>2, <1>3, <4>2
        <5>2. k < n + 1 <=> k < n
          BY <1>2, <1>3, <4>2
        <5> QED BY <3>1, <5>1, <5>2 DEF NameSoFar
      <4> QED BY <4>1, <4>2
    <3> QED BY <1>1, <1>2, <3>2 DEF NameSoFar
  <2> QED BY <1>1, <2>1, <2>2 DEF EfiInv, AloneInv
<1> QED BY <1>4, <1>5, <1>6 DEF EfiInv

LEMMA NameEndsStep ==
  ASSUME EfiInv, TypeOK', NEW p \in EfiProbes, NameEnds(p) PROVE EfiInv'
<1>1. /\ hpc[p] = "name" /\ cnt[p] = Len(Name[var[p]])
      /\ hpc' = [hpc EXCEPT ![p] = "guid0"] /\ cnt' = [cnt EXCEPT ![p] = 0]
      /\ UNCHANGED <<running, panicked, efi_name, vendor_guid, var, crowded>>
  BY DEF NameEnds, vars, bufVars
<1>2. EfiTypeOK'
  <2>1. cnt' \in [EfiProbes -> 0 .. NAME_SIZE - 1]
    BY <1>1, MonitorAssumption DEF EfiInv, EfiTypeOK
  <2> QED BY <1>1, <2>1 DEF EfiInv, EfiTypeOK
<1>3. HandlerInv'
  BY <1>1 DEF EfiInv, EfiTypeOK, HandlerInv
<1>4. AloneInv'
  <2>1. ASSUME NEW q \in EfiProbes \ crowded, q # p PROVE hpc'[q] = "idle"
    BY <1>1, <2>1, AloneOrIdle DEF EfiInv, EfiTypeOK
  <2>2. hpc'[p] = "guid0"
    BY <1>1 DEF EfiInv, EfiTypeOK
  <2>3. p \notin crowded => NameSoFar(p, Len(Name[var[p]]))'
    BY <1>1 DEF EfiInv, AloneInv, NameSoFar
  <2> QED BY <1>1, <1>3, <2>1, <2>2, <2>3 DEF EfiInv, HandlerInv, AloneInv
<1> QED BY <1>2, <1>3, <1>4 DEF EfiInv

LEMMA GuidStep ==
  ASSUME EfiInv, TypeOK', NEW p \in EfiProbes, set_guid(p) \/ PrintGuid(p)
  PROVE  EfiInv'
<1>1. /\ \/ /\ hpc[p] = "guid0" /\ hpc' = [hpc EXCEPT ![p] = "guid"]
            /\ vendor_guid' = NoGuid
         \/ /\ hpc[p] = "guid" /\ hpc' = [hpc EXCEPT ![p] = "print"]
            /\ vendor_guid' = Printed(Guid[var[p]])
      /\ UNCHANGED <<running, panicked, efi_name, var, cnt, crowded>>
  BY DEF set_guid, PrintGuid, vars
<1>2. Guid[var[p]] \in Guids
  BY <1>1, VarFacts DEF EfiInv, HandlerInv
<1>3. EfiTypeOK'
  <2>1. hpc' \in [EfiProbes -> {"idle", "name0", "name", "guid0", "guid", "print"}]
    BY <1>1 DEF EfiInv, EfiTypeOK
  <2> QED BY <1>1, <1>2, <2>1 DEF EfiInv, EfiTypeOK
<1>4. HandlerInv'
  BY <1>1 DEF EfiInv, EfiTypeOK, HandlerInv
<1>5. AloneInv'
  <2>1. ASSUME NEW q \in EfiProbes \ crowded, q # p PROVE hpc'[q] = "idle"
    BY <1>1, <2>1, AloneOrIdle DEF EfiInv, EfiTypeOK
  <2>2. /\ hpc'[p] \in {"guid", "print"}
        /\ hpc'[p] = "print" => vendor_guid' = Printed(Guid[var[p]])
    BY <1>1 DEF EfiInv, EfiTypeOK
  <2>3. p \notin crowded => NameSoFar(p, Len(Name[var[p]]))'
    BY <1>1 DEF EfiInv, AloneInv, NameSoFar
  <2> QED BY <1>1, <1>4, <2>1, <2>2, <2>3 DEF EfiInv, HandlerInv, AloneInv
<1> QED BY <1>3, <1>4, <1>5 DEF EfiInv

LEMMA ReturnStep ==
  ASSUME EfiInv, TypeOK', NEW p \in EfiProbes, EfiReturn(p) PROVE EfiInv'
<1>1. /\ hpc[p] = "print" /\ running' = running \ {p}
      /\ hpc' = [hpc EXCEPT ![p] = "idle"]
      /\ var' = [var EXCEPT ![p] = NoVar]
      /\ crowded' = crowded \ {p}
      /\ UNCHANGED <<panicked, efi_name, vendor_guid, cnt>>
  BY DEF EfiReturn, HandlerReturns, bufVars
<1>2. EfiTypeOK'
  BY <1>1 DEF EfiInv, EfiTypeOK
<1>3. HandlerInv'
  BY <1>1 DEF EfiInv, EfiTypeOK, HandlerInv
<1>4. AloneInv'
  <2>1. ASSUME NEW q \in EfiProbes \ crowded', q # p PROVE hpc'[q] = "idle"
    BY <1>1, <2>1, AloneOrIdle DEF EfiInv, EfiTypeOK
  <2>2. hpc'[p] = "idle"
    BY <1>1 DEF EfiInv, EfiTypeOK
  <2> QED BY <1>3, <2>1, <2>2 DEF HandlerInv, AloneInv
<1> QED BY <1>2, <1>3, <1>4 DEF EfiInv

LEMMA NextEfiInv ==
  EfiInv /\ GoneMeansSilent /\ TypeOK' /\ [EfiNext]_allVars => EfiInv'
<1> SUFFICES ASSUME EfiInv, GoneMeansSilent, TypeOK', [EfiNext]_allVars
             PROVE  EfiInv'
  OBVIOUS
<1>1. CASE UNCHANGED allVars
  <2>1. UNCHANGED <<efiVars, panicked, running>>
    BY <1>1 DEF allVars, vars
  <2> QED BY <2>1, QuietStep DEF EfiInv, EfiTypeOK
<1>2. CASE Load
  BY <1>2, LoadStep
<1>3. CASE Lists
  <2>1. UNCHANGED <<efiVars, panicked, running>>
    BY <1>3 DEF Lists, ModuleStep, my_exit, RegisterNext, RegisterEnds,
                RollbackNext, RollbackEnds, UnregisterNext, WaitEnds,
                UnregisterEnds
  <2> QED BY <2>1, QuietStep DEF EfiInv, EfiTypeOK
<1>4. ASSUME NEW p \in EfiProbes, EfiFire(p) \/ EfiHandler(p) PROVE EfiInv'
  BY <1>4, FireStep, NameStep, CopyStep, NameEndsStep, GuidStep, ReturnStep
     DEF EfiHandler
<1>5. ASSUME NEW p \in Probes \ EfiProbes, OtherFire(p) \/ OtherReturn(p)
      PROVE  EfiInv'
  <2>1. /\ UNCHANGED <<efiVars, panicked>>
        /\ \A q \in EfiProbes : q \in running' <=> q \in running
    BY <1>5 DEF OtherFire, OtherReturn, Fire, HandlerReturns
  <2> QED BY <2>1, QuietStep DEF EfiInv, EfiTypeOK
<1>6. ASSUME NEW p \in FinalProbes, do_final_job(p) PROVE EfiInv'
  <2>1. UNCHANGED <<efiVars, running>> /\ panicked' = TRUE
    BY <1>6 DEF do_final_job, vars
  <2>2. panicked' \in BOOLEAN
    BY <2>1, Zenon
  <2> QED BY <2>1, <2>2, QuietStep
<1> QED BY <1>1, <1>2, <1>3, <1>4, <1>5, <1>6 DEF EfiNext

THEOREM EfiInductive == EfiSpec => []EfiInv
<1>1. EfiSpec => [](TypeOK /\ GoneMeansSilent)
  BY Composition, TypeCorrect, Silent, PTL
<1> QED BY <1>1, InitEfiInv, NextEfiInv, PTL DEF EfiSpec

(***************************************************************************)
(* Every variable keeps its type: no loop leaves its list, the characters  *)
(* put into efi_name are chars, and as names are shorter than efi_name the *)
(* index of set_efi_name() stays inside it, also when handlers overlap.    *)
(***************************************************************************)
THEOREM EfiTypeCorrect == EfiSpec => []EfiTypeOK
  BY EfiInductive, PTL DEF EfiInv

(***************************************************************************)
(* A handler of the EFI monitor that has met no other prints the GUID and  *)
(* the name of its own variable, for any lists, variables and names that   *)
(* fit into the buffer.                                                    *)
(***************************************************************************)
THEOREM OwnPrinted == EfiSpec => []PrintsItsOwn
<1>1. EfiInv => PrintsItsOwn
  <2> SUFFICES ASSUME EfiInv, NEW p \in EfiProbes \ crowded, hpc[p] = "print"
               PROVE  /\ vendor_guid = GuidText(Guid[var[p]])
                      /\ EightBit(Name[var[p]]) => HoldsString(Name[var[p]])
    BY DEF PrintsItsOwn
  <2>1. vendor_guid = GuidText(Guid[var[p]])
    BY PrintedIsText DEF EfiInv, AloneInv
  <2> DEFINE s == Name[var[p]]
  <2>2. s \in Seq(Uchars) /\ Len(s) \in 0 .. NAME_SIZE - 1
    BY VarFacts DEF EfiInv, HandlerInv
  <2>3. NameSoFar(p, Len(s))
    BY DEF EfiInv, AloneInv
  <2>4. ASSUME EightBit(s), NEW k \in 1 .. Len(s) PROVE efi_name[k - 1] = s[k]
    <3>1. s[k] \in Uchars /\ s[k] < 256
      BY <2>2, <2>4 DEF EightBit
    <3>2. k - 1 \in 0 .. NAME_SIZE - 1 /\ k - 1 < Len(s) /\ (k - 1) + 1 = k
      BY <2>2, MonitorAssumption
    <3>3. efi_name[k - 1] = CharOf(s[k])
      BY <2>3, <3>2 DEF NameSoFar
    <3> QED BY <3>1, <3>3, CharFacts
  <2>5. efi_name[Len(s)] = 0
    BY <2>2, <2>3 DEF NameSoFar
  <2> QED BY <2>1, <2>4, <2>5 DEF HoldsString
<1> QED BY <1>1, EfiInductive, PTL
=============================================================================
