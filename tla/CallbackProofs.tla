--------------------------- MODULE CallbackProofs ---------------------------
(***************************************************************************)
(* Proofs about the modules the kernel calls back, for every number of     *)
(* processors, packets and callers, every size of a backlog, and every     *)
(* width of jiffies: the network device implements LossyChannel, unloading *)
(* is safe, the periodic timer is never early, and myopen() is             *)
(* transparent.                                                            *)
(***************************************************************************)
EXTENDS MCCallbacks, SequenceTheorems, FiniteSetTheorems, TLAPS

---------------------------------------------------------------------------
(***************************************************************************)
(* NetDev.  A processor is in my_hard_start_xmit() exactly when pc says    *)
(* that somebody is, and without a registered device there is nothing on   *)
(* its way.                                                                *)
(***************************************************************************)
NetInv ==
  /\ started \in BOOLEAN
  /\ backlog \in [Cpus -> Seq(Nat)]
  /\ sent \in Nat
  /\ arrived \in [Cpus -> Nat]
  /\ xmit \in Cpus \cup {NoCpu}
  /\ pc \in {"idle", "counted", "received"}
  /\ pc = "idle" <=> xmit = NoCpu
  /\ dev # "registered" => ~started /\ pc = "idle" /\ backlog = Empty

LEMMA EmptyType == Empty \in [Cpus -> Seq(Nat)]
  BY EmptySeq DEF Empty

LEMMA NetInit == ASSUME Init PROVE NetInv
  BY EmptyType DEF Init, NetInv

LEMMA NetStep == ASSUME NetAssumption, NetInv, [Next]_vars PROVE NetInv'
  <1> USE DEF NetInv
  <1> Empty' = Empty
    BY DEF Empty
  <1>1. CASE my_init \/ my_init_oops \/ my_open \/ my_close \/ free_netdev
    <2>1. /\ UNCHANGED <<backlog, xmit, pc, sent, arrived>>
          /\ \/ dev = "registered" /\ dev' = dev /\ started' \in BOOLEAN
             \/ dev # "registered" /\ UNCHANGED started
      BY <1>1 DEF my_init, my_init_oops, my_open, my_close, free_netdev
    <2> QED
      BY <2>1
  <1>2. CASE unregister_netdev
    BY <1>2, EmptyType DEF unregister_netdev
  <1>3. CASE my_rx
    BY <1>3 DEF my_rx
  <1>4. CASE netif_rx
    <2>1. xmit \in Cpus /\ xmit' = NoCpu /\ pc' = "idle" /\ dev = "registered"
      BY <1>4 DEF netif_rx
    <2>2. Append(backlog[xmit], sent) \in Seq(Nat)
      BY <2>1
    <2>3. backlog' \in [Cpus -> Seq(Nat)]
      BY <1>4, <2>1, <2>2 DEF netif_rx
    <2> QED
      BY <1>4, <2>1, <2>3 DEF netif_rx
  <1>5. ASSUME NEW c \in Cpus, my_hard_start_xmit(c) PROVE NetInv'
    BY <1>5 DEF my_hard_start_xmit, NetAssumption
  <1>6. ASSUME NEW c \in Cpus, net_rx_action(c) PROVE NetInv'
    <2>1. /\ backlog[c] \in Seq(Nat) /\ backlog[c] # <<>>
          /\ dev = "registered"
      BY <1>6 DEF net_rx_action, Empty
    <2>2. Head(backlog[c]) \in Nat /\ Tail(backlog[c]) \in Seq(Nat)
      BY <2>1
    <2>3. backlog' \in [Cpus -> Seq(Nat)] /\ arrived' \in [Cpus -> Nat]
      BY <1>6, <2>2 DEF net_rx_action
    <2> QED
      BY <1>6, <2>1, <2>3 DEF net_rx_action
  <1>7. CASE UNCHANGED vars
    BY <1>7 DEF vars
  <1> QED
    BY <1>1, <1>2, <1>3, <1>4, <1>5, <1>6, <1>7 DEF Next

---------------------------------------------------------------------------
(***************************************************************************)
(* What happens to one lane.  The packet in my_hard_start_xmit() is the    *)
(* last of its lane, behind the backlog of its processor.                  *)
(***************************************************************************)
Lane == [c \in Cpus |-> OnItsWay(c)]

LEMMA Concat ==
  ASSUME NEW s \in Seq(Nat), NEW e \in Nat
  PROVE  /\ s \o <<>> = s
         /\ s \o <<e>> = Append(s, e)
         /\ s \o <<e>> \in Seq(Nat) /\ s \o <<e>> # <<>>
         /\ SubSeq(s \o <<e>>, 1, Len(s \o <<e>>) - 1) = s
  <1>1. s \o <<>> = s /\ s \o <<e>> = Append(s, e) /\ Append(s, e) \in Seq(Nat)
    BY ConcatEmptySeq, AppendIsConcat
  <1>2. Len(Append(s, e)) = Len(s) + 1
    OBVIOUS
  <1>3. SubSeq(Append(s, e), 1, Len(s)) = s
    OBVIOUS
  <1>4. Append(s, e) # <<>> /\ Len(s) \in Nat
    BY <1>2
  <1>5. Len(Append(s, e)) - 1 = Len(s)
    BY <1>2, <1>4
  <1> QED
    BY <1>1, <1>3, <1>4, <1>5

LEMMA ConcatHead ==
  ASSUME NEW s \in Seq(Nat), s # <<>>, NEW t \in Seq(Nat)
  PROVE  /\ s \o t # <<>>
         /\ Head(s \o t) = Head(s)
         /\ Tail(s \o t) = Tail(s) \o t
  <1>1. /\ s \o t \in Seq(Nat) /\ Len(s) \in Nat /\ Len(s) > 0 /\ Len(t) \in Nat
        /\ Len(s \o t) = Len(s) + Len(t)
        /\ \A i \in 1 .. Len(s) + Len(t) :
             (s \o t)[i] = IF i <= Len(s) THEN s[i] ELSE t[i - Len(s)]
    BY ConcatProperties
  <1>2. s \o t # <<>> /\ Head(s \o t) = Head(s)
    BY <1>1
  <1>3. /\ Tail(s) \in Seq(Nat) /\ Len(Tail(s)) = Len(s) - 1
        /\ \A i \in 1 .. Len(s) - 1 : Tail(s)[i] = s[i + 1]
    BY <1>1
  <1>4. /\ Tail(s \o t) \in Seq(Nat)
        /\ Len(Tail(s \o t)) = Len(s) + Len(t) - 1
        /\ \A i \in 1 .. Len(s) + Len(t) - 1 : Tail(s \o t)[i] = (s \o t)[i + 1]
    BY <1>1, <1>2
  <1>5. /\ Tail(s) \o t \in Seq(Nat)
        /\ Len(Tail(s) \o t) = Len(s) - 1 + Len(t)
        /\ \A i \in 1 .. Len(s) - 1 + Len(t) :
             (Tail(s) \o t)[i] = IF i <= Len(s) - 1 THEN Tail(s)[i]
                                                  ELSE t[i - (Len(s) - 1)]
    BY <1>3, ConcatProperties
  <1>6. ASSUME NEW i \in 1 .. Len(s) + Len(t) - 1
        PROVE  Tail(s \o t)[i] = (Tail(s) \o t)[i]
    <2>1. i + 1 \in 1 .. Len(s) + Len(t) /\ i \in Nat
      BY <1>1
    <2>2. CASE i <= Len(s) - 1
      BY <1>1, <1>3, <1>4, <1>5, <2>1, <2>2
    <2>3. CASE i > Len(s) - 1
      <3>1. i + 1 - Len(s) = i - (Len(s) - 1)
        BY <1>1, <2>1
      <3> QED
        BY <1>1, <1>4, <1>5, <2>1, <2>3, <3>1
    <2> QED
      BY <1>1, <2>1, <2>2, <2>3
  <1>7. Len(Tail(s \o t)) = Len(Tail(s) \o t)
    BY <1>1, <1>4, <1>5
  <1>8. Tail(s \o t) = Tail(s) \o t
    BY <1>4, <1>5, <1>6, <1>7, SeqEqual
  <1> QED
    BY <1>2, <1>8

LEMMA LaneIs ==
  ASSUME NetAssumption, NetInv, NEW c \in Cpus
  PROVE  /\ Lane[c] = backlog[c] \o (IF xmit = c THEN <<sent>> ELSE <<>>)
         /\ backlog[c] \in Seq(Nat)
         /\ xmit # c => Lane[c] = backlog[c]
         /\ xmit = c => Lane[c] = Append(backlog[c], sent)
  <1>1. backlog[c] \in Seq(Nat) /\ sent \in Nat
    BY DEF NetInv
  <1> QED
    BY <1>1, Concat DEF Lane, OnItsWay


---------------------------------------------------------------------------
\* The backlogs, the sender and its packet determine the lanes.
LEMMA LanesStutter ==
  ASSUME UNCHANGED <<backlog, xmit, sent, arrived>>
  PROVE  UNCHANGED Channel!vars
  BY DEF Channel!vars, OnItsWay

LEMMA UnregisterLosesAll ==
  ASSUME NetAssumption, NetInv, NetInv', unregister_netdev
  PROVE  Channel!LoseAll
  <1>1. /\ UNCHANGED <<sent, arrived>>
        /\ backlog' = Empty /\ xmit' = NoCpu
    BY DEF unregister_netdev, NetInv
  <1>2. ASSUME NEW c \in Cpus PROVE OnItsWay(c)' = <<>>
    <2>1. xmit' # c /\ backlog'[c] = <<>>
      BY <1>1 DEF NetAssumption, Empty
    <2>2. <<>> \o <<>> = <<>>
      BY EmptySeq, ConcatEmptySeq
    <2> QED
      BY <2>1, <2>2 DEF OnItsWay
  <1> QED
    BY <1>1, <1>2 DEF Channel!LoseAll

LEMMA XmitSends ==
  ASSUME NetAssumption, NetInv, NetInv', NEW c \in Cpus, my_hard_start_xmit(c)
  PROVE  Channel!Send(c)
  <1>1. /\ sent < MaxPackets /\ sent' = sent + 1 /\ UNCHANGED <<arrived, backlog>>
        /\ xmit = NoCpu /\ xmit' = c
    BY DEF my_hard_start_xmit, NetInv
  <1>2. ASSUME NEW d \in Cpus
        PROVE  Lane'[d] = [Lane EXCEPT ![c] = Append(@, sent')][d]
    <2>1. Lane[d] = backlog[d]
      BY <1>1, LaneIs DEF NetAssumption
    <2>2. Lane'[d] = IF d = c THEN Append(backlog'[d], sent') ELSE backlog'[d]
      <3>1. backlog'[d] \in Seq(Nat) /\ sent' \in Nat
        BY DEF NetInv
      <3> QED
        BY <1>1, <3>1, Concat DEF Lane, OnItsWay
    <2> QED
      BY <1>1, <2>1, <2>2 DEF Lane
  <1>3. Lane' = [Lane EXCEPT ![c] = Append(@, sent')]
    BY <1>2 DEF Lane
  <1> QED
    BY <1>1, <1>3 DEF Channel!Send, Lane

LEMMA SoftirqDelivers ==
  ASSUME NetAssumption, NetInv, NetInv', NEW c \in Cpus, net_rx_action(c)
  PROVE  Channel!Arrive(c)
  <1>1. /\ backlog[c] # <<>> /\ UNCHANGED <<sent, xmit>>
        /\ arrived' = [arrived EXCEPT ![c] = Head(backlog[c])]
        /\ backlog' = [backlog EXCEPT ![c] = Tail(@)]
    BY DEF net_rx_action
  <1>a. backlog \in [Cpus -> Seq(Nat)] /\ sent \in Nat
    BY DEF NetInv
  <1> DEFINE behind(d) == IF xmit = d THEN <<sent>> ELSE <<>>
  <1>2. \A d \in Cpus : behind(d) \in Seq(Nat)
    BY <1>a, EmptySeq
  <1>3. \A d \in Cpus : Lane[d] = backlog[d] \o behind(d)
    BY DEF Lane, OnItsWay
  <1>4. \A d \in Cpus : Lane'[d] = backlog'[d] \o behind(d)
    BY <1>1 DEF Lane, OnItsWay
  <1>5. /\ Lane[c] # <<>>
        /\ Head(Lane[c]) = Head(backlog[c])
        /\ Tail(Lane[c]) = Tail(backlog[c]) \o behind(c)
    <2> HIDE DEF behind
    <2>1. backlog[c] \in Seq(Nat) /\ behind(c) \in Seq(Nat)
      BY <1>a, <1>2
    <2>2. Lane[c] = backlog[c] \o behind(c)
      BY <1>3
    <2> QED
      BY <1>1, <2>1, <2>2, ConcatHead
  <1>6. ASSUME NEW d \in Cpus
        PROVE  Lane'[d] = [Lane EXCEPT ![c] = Tail(@)][d]
    <2>1. backlog'[d] = IF d = c THEN Tail(backlog[c]) ELSE backlog[d]
      BY <1>1, <1>a
    <2>2. [Lane EXCEPT ![c] = Tail(@)][d]
            = IF d = c THEN Tail(Lane[c]) ELSE Lane[d]
      BY DEF Lane
    <2> HIDE DEF behind
    <2> QED
      BY <1>3, <1>4, <1>5, <2>1, <2>2
  <1>7. Lane' = [Lane EXCEPT ![c] = Tail(@)]
    BY <1>6 DEF Lane
  <1> QED
    BY <1>1, <1>5, <1>7 DEF Channel!Arrive, Lane

\* netif_rx() with room leaves the packet where it is, the last of its lane;
\* without room that packet is lost.
LEMMA NetifRxKeepsOrLoses ==
  ASSUME NetAssumption, NetInv, NetInv', netif_rx
  PROVE  \/ UNCHANGED Channel!vars
         \/ \E c \in Cpus : Channel!Lose(c)
  <1>1. /\ xmit \in Cpus /\ xmit' = NoCpu /\ UNCHANGED <<sent, arrived>>
        /\ backlog \in [Cpus -> Seq(Nat)] /\ sent \in Nat
        /\ backlog' \in [Cpus -> Seq(Nat)]
    BY DEF netif_rx, NetInv
  <1>2. \A d \in Cpus : Lane'[d] = backlog'[d]
    <2>1. \A d \in Cpus : Lane'[d] = backlog'[d] \o <<>>
      BY <1>1 DEF Lane, OnItsWay, NetAssumption
    <2> QED
      BY <1>1, <2>1, Concat
  <1>3. \A d \in Cpus :
          Lane[d] = IF d = xmit THEN Append(backlog[d], sent) ELSE backlog[d]
    BY LaneIs
  <1>4. CASE Len(backlog[xmit]) < BacklogMax
    <2>1. backlog' = [backlog EXCEPT ![xmit] = Append(@, sent)]
      BY <1>4 DEF netif_rx
    <2>2. \A d \in Cpus : Lane'[d] = Lane[d]
      BY <1>1, <1>2, <1>3, <2>1
    <2>3. Lane' = Lane
      BY <2>2 DEF Lane
    <2> QED
      BY <1>1, <2>3 DEF Channel!vars, Lane
  <1>5. CASE ~(Len(backlog[xmit]) < BacklogMax)
    <2>1. backlog' = backlog
      BY <1>5 DEF netif_rx
    <2>2. /\ Lane[xmit] # <<>>
          /\ Channel!Front(Lane[xmit]) = backlog[xmit]
      <3>1. Lane[xmit] = backlog[xmit] \o <<sent>> /\ backlog[xmit] \in Seq(Nat)
        BY <1>1 DEF Lane, OnItsWay
      <3> QED
        BY <1>1, <3>1, Concat DEF Channel!Front
    <2>3. ASSUME NEW d \in Cpus
          PROVE  Lane'[d] = [Lane EXCEPT ![xmit] = Channel!Front(@)][d]
      <3>1. [Lane EXCEPT ![xmit] = Channel!Front(@)][d]
              = IF d = xmit THEN Channel!Front(Lane[xmit]) ELSE Lane[d]
        BY DEF Lane
      <3> QED
        BY <1>1, <1>2, <1>3, <2>1, <2>2, <3>1
    <2>4. Lane' = [Lane EXCEPT ![xmit] = Channel!Front(@)]
      BY <2>3 DEF Lane
    <2>5. Channel!Lose(xmit)
      BY <1>1, <2>2, <2>4 DEF Channel!Lose, Lane
    <2> QED
      BY <1>1, <2>5
  <1> QED
    BY <1>4, <1>5

LEMMA ChannelInit == ASSUME NetAssumption, Init PROVE Channel!Init
  <1>1. ASSUME NEW c \in Cpus PROVE OnItsWay(c) = <<>>
    <2>1. xmit # c /\ backlog[c] = <<>>
      BY DEF Init, Empty, NetAssumption
    <2>2. <<>> \o <<>> = <<>>
      BY EmptySeq, ConcatEmptySeq
    <2> QED
      BY <2>1, <2>2 DEF OnItsWay
  <1> QED
    BY <1>1 DEF Init, Channel!Init

LEMMA ChannelStep ==
  ASSUME NetAssumption, NetInv, NetInv', [Next]_vars
  PROVE  [Channel!Next]_(Channel!vars)
  <1>1. CASE my_init \/ my_init_oops \/ my_open \/ my_close \/ free_netdev
              \/ my_rx \/ UNCHANGED vars
    <2>1. UNCHANGED <<backlog, xmit, sent, arrived>>
      BY <1>1 DEF my_init, my_init_oops, my_open, my_close, free_netdev,
                  my_rx, vars
    <2> QED
      BY <2>1, LanesStutter
  <1>2. CASE unregister_netdev
    BY <1>2, UnregisterLosesAll DEF Channel!Next
  <1>3. CASE netif_rx
    BY <1>3, NetifRxKeepsOrLoses DEF Channel!Next
  <1>4. ASSUME NEW c \in Cpus, my_hard_start_xmit(c) PROVE Channel!Next
    BY <1>4, XmitSends DEF Channel!Next
  <1>5. ASSUME NEW c \in Cpus, net_rx_action(c) PROVE Channel!Next
    BY <1>5, SoftirqDelivers DEF Channel!Next
  <1> QED
    BY <1>1, <1>2, <1>3, <1>4, <1>5 DEF Next

---------------------------------------------------------------------------
(***************************************************************************)
(* The statistics.  Both equations of PacketsAccounted hold in every       *)
(* state, also without a device, and no more packets are counted than      *)
(* were sent; that is what bounds the counters.                            *)
(***************************************************************************)
CountInv ==
  /\ TypeOK
  /\ tx_packets = rx_packets + (IF pc = "counted" THEN 1 ELSE 0)
  /\ rx_packets = up.came + up.lost + Waiting
                    + (IF pc = "received" THEN 1 ELSE 0)
  /\ tx_packets <= sent

\* What the backlogs hold is finite, and nothing when they are empty.
LEMMA TakenFinite ==
  ASSUME NetAssumption
  PROVE  /\ IsFiniteSet(Taken) /\ Waiting \in Nat
         /\ backlog = Empty => Waiting = 0
  <1>1. IsFiniteSet(Cpus \X (1 .. BacklogMax))
    <2>1. IsFiniteSet(Cpus) /\ 1 \in Int /\ BacklogMax \in Int
      BY DEF NetAssumption
    <2>2. IsFiniteSet(1 .. BacklogMax)
      BY <2>1, FS_Interval
    <2> QED
      BY <2>1, <2>2, FS_Product
  <1>2. IsFiniteSet(Taken)
    <2>1. Taken \in SUBSET (Cpus \X (1 .. BacklogMax))
      BY DEF Taken
    <2> QED
      BY <1>1, <2>1, FS_Subset
  <1>3. ASSUME backlog = Empty PROVE Taken = {}
    <2>1. ASSUME NEW p \in Cpus \X (1 .. BacklogMax)
          PROVE  ~(p[2] <= Len(backlog[p[1]]))
      <3>1. p[1] \in Cpus /\ p[2] \in 1 .. BacklogMax
        OBVIOUS
      <3>2. Len(backlog[p[1]]) = 0
        BY <1>3, <3>1, EmptySeq DEF Empty
      <3> QED
        BY <3>1, <3>2 DEF NetAssumption
    <2> QED
      BY <2>1 DEF Taken
  <1> QED
    BY <1>2, <1>3, FS_CardinalityType, FS_EmptySet DEF Waiting

\* netif_rx() takes one more place.
LEMMA OneMore ==
  ASSUME NetAssumption, TypeOK, NEW d \in Cpus, Len(backlog[d]) < BacklogMax,
         backlog' = [backlog EXCEPT ![d] = Append(@, sent)]
  PROVE  Waiting' = Waiting + 1
  <1> DEFINE last == <<d, Len(backlog[d]) + 1>>
  <1>a. \A e \in Cpus : backlog[e] \in Seq(1 .. MaxPackets) /\ Len(backlog[e]) \in Nat
    BY DEF TypeOK
  <1>b. BacklogMax \in Nat
    BY DEF NetAssumption
  <1>1. \A e \in Cpus :
          Len(backlog'[e]) = IF e = d THEN Len(backlog[e]) + 1 ELSE Len(backlog[e])
    <2>1. Len(Append(backlog[d], sent)) = Len(backlog[d]) + 1
      BY <1>a
    <2> QED
      BY <2>1 DEF TypeOK
  <1>2. Taken' = Taken \cup {last}
    <2>1. ASSUME NEW p \in Cpus \X (1 .. BacklogMax)
          PROVE  p[2] <= Len(backlog'[p[1]])
                   <=> p[2] <= Len(backlog[p[1]]) \/ p = last
      <3>1. /\ p[1] \in Cpus /\ p[2] \in 1 .. BacklogMax /\ p = <<p[1], p[2]>>
            /\ Len(backlog[p[1]]) \in Nat
        BY <1>a
      <3>2. p = last <=> p[1] = d /\ p[2] = Len(backlog[d]) + 1
        BY <3>1
      <3> HIDE DEF last
      <3> QED
        BY <1>1, <1>b, <3>1, <3>2
    <2>2. last \in Cpus \X (1 .. BacklogMax)
      BY <1>a, <1>b
    <2> HIDE DEF last
    <2> QED
      BY <2>1, <2>2 DEF Taken
  <1>3. last \notin Taken
    BY <1>a DEF Taken
  <1> HIDE DEF last
  <1> QED
    BY <1>2, <1>3, TakenFinite, FS_AddElement DEF Waiting

\* The softirq frees one.
LEMMA OneLess ==
  ASSUME NetAssumption, TypeOK, NEW d \in Cpus, backlog[d] # <<>>,
         backlog' = [backlog EXCEPT ![d] = Tail(@)]
  PROVE  Waiting' = Waiting - 1 /\ Waiting' \in Nat
  <1> DEFINE last == <<d, Len(backlog[d])>>
  <1>a. \A e \in Cpus : /\ backlog[e] \in Seq(1 .. MaxPackets)
                        /\ Len(backlog[e]) \in Nat /\ Len(backlog[e]) <= BacklogMax
    BY DEF TypeOK
  <1>b. BacklogMax \in Nat
    BY DEF NetAssumption
  <1>c. Len(backlog[d]) > 0
    BY <1>a
  <1>1. \A e \in Cpus :
          Len(backlog'[e]) = IF e = d THEN Len(backlog[e]) - 1 ELSE Len(backlog[e])
    <2>1. Len(Tail(backlog[d])) = Len(backlog[d]) - 1
      BY <1>a
    <2> QED
      BY <2>1 DEF TypeOK
  <1>2. Taken' = Taken \ {last}
    <2>1. ASSUME NEW p \in Cpus \X (1 .. BacklogMax)
          PROVE  p[2] <= Len(backlog'[p[1]])
                   <=> p[2] <= Len(backlog[p[1]]) /\ p # last
      <3>1. /\ p[1] \in Cpus /\ p[2] \in 1 .. BacklogMax /\ p = <<p[1], p[2]>>
            /\ Len(backlog[p[1]]) \in Nat
        BY <1>a
      <3>2. p = last <=> p[1] = d /\ p[2] = Len(backlog[d])
        BY <3>1
      <3> HIDE DEF last
      <3> QED
        BY <1>1, <1>b, <3>1, <3>2
    <2> HIDE DEF last
    <2> QED
      BY <2>1 DEF Taken
  <1>3. last \in Taken
    BY <1>a, <1>b, <1>c DEF Taken
  <1> HIDE DEF last
  <1>4. IsFiniteSet(Taken) /\ IsFiniteSet(Taken \ {last})
    BY TakenFinite, FS_RemoveElement
  <1>5. Cardinality(Taken \ {last}) = Cardinality(Taken) - 1
    BY <1>3, <1>4, FS_RemoveElement
  <1> QED
    BY <1>2, <1>4, <1>5, FS_CardinalityType DEF Waiting

LEMMA CountInit == ASSUME NetAssumption, Init PROVE CountInv
  <1>1. Waiting = 0
    BY TakenFinite DEF Init
  <1>2. Empty \in [Cpus -> Seq(1 .. MaxPackets)] /\ \A d \in Cpus : Len(Empty[d]) = 0
    BY EmptySeq DEF Empty
  <1>3. MaxPackets \in Nat /\ BacklogMax \in Nat
    BY DEF NetAssumption
  <1>4. up = [came |-> 0, lost |-> 0]
          /\ up \in [came : 0 .. MaxPackets, lost : 0 .. MaxPackets]
    BY <1>3 DEF Init
  <1>5. TypeOK
    <2>1. /\ backlog \in [Cpus -> Seq(1 .. MaxPackets)]
          /\ \A d \in Cpus : Len(backlog[d]) <= BacklogMax
      BY <1>2, <1>3 DEF Init
    <2>2. 0 \in 0 .. MaxPackets
      BY <1>3
    <2> QED
      BY <1>4, <2>1, <2>2, Zenon DEF Init, TypeOK
  <1> QED
    BY <1>1, <1>4, <1>5 DEF Init, CountInv

LEMMA CountStep ==
  ASSUME NetAssumption, NetInv, CountInv, [Next]_vars PROVE CountInv'
  <1> USE DEF CountInv, TypeOK
  <1>a. MaxPackets \in Nat /\ BacklogMax \in Nat /\ Waiting \in Nat
    BY TakenFinite DEF NetAssumption
  <1>b. up = [came |-> up.came, lost |-> up.lost]
    OBVIOUS
  <1>c. UNCHANGED backlog => Waiting' = Waiting
    BY DEF Waiting, Taken
  <1>1. CASE my_init
    <2>1. backlog = Empty /\ pc = "idle" /\ Waiting = 0
      BY <1>1, TakenFinite DEF my_init, NetInv
    <2> QED
      BY <1>1, <1>a, <1>c, <2>1 DEF my_init
  <1>2. CASE my_init_oops \/ my_open \/ my_close \/ free_netdev
    <2>1. UNCHANGED <<backlog, xmit, pc, stats, sent, arrived, up>>
      BY <1>2 DEF my_init_oops, my_open, my_close, free_netdev
    <2>2. dev' \in {"none", "registered", "unregistered", "oops"}
            /\ started' \in BOOLEAN
      BY <1>2 DEF my_init_oops, my_open, my_close, free_netdev
    <2> QED
      BY <1>c, <2>1, <2>2 DEF stats
  <1>3. CASE unregister_netdev
    <2>1. Waiting' = 0
      <3>1. Taken' = {}
        <4>1. \A d \in Cpus : backlog'[d] = <<>> /\ Len(backlog'[d]) = 0
          BY <1>3, EmptySeq DEF unregister_netdev, Empty
        <4> QED
          BY <1>a, <4>1, SMTT(30) DEF Taken
      <3> QED
        BY <3>1, FS_EmptySet DEF Waiting
    <2>2. /\ backlog' \in [Cpus -> Seq(1 .. MaxPackets)]
          /\ \A d \in Cpus : Len(backlog'[d]) <= BacklogMax
      BY <1>3, <1>a, EmptySeq DEF unregister_netdev, Empty
    <2>3. up' = [came |-> up.came, lost |-> up.lost + Waiting]
      BY <1>3 DEF unregister_netdev
    <2>4. up'.came \in 0 .. MaxPackets /\ up'.lost \in 0 .. MaxPackets
      BY <1>a, <2>3
    <2>5. /\ UNCHANGED <<xmit, pc, tx_packets, rx_packets, sent, arrived>>
          /\ dev' = "unregistered" /\ started' = FALSE
      BY <1>3 DEF unregister_netdev, stats
    <2>6. up' \in [came : 0 .. MaxPackets, lost : 0 .. MaxPackets]
      BY <2>3, <2>4
    <2>7. TypeOK'
      <3>1. TypeOK
        OBVIOUS
      <3> HIDE DEF CountInv
      <3> QED
        BY <2>2, <2>5, <2>6, <3>1, Zenon
    <2>8. up'.came = up.came /\ up'.lost = up.lost + Waiting
      BY <2>3
    <2>9. rx_packets' = up'.came + up'.lost + Waiting'
                           + (IF pc' = "received" THEN 1 ELSE 0)
      BY <1>a, <2>1, <2>5, <2>8
    <2> HIDE DEF TypeOK
    <2> QED
      BY <2>5, <2>7, <2>9
  <1>4. CASE my_rx
    BY <1>4, <1>a, <1>c DEF my_rx
  <1>5. CASE netif_rx
    <2>1. xmit \in Cpus
      BY <1>5 DEF netif_rx, NetInv
    <2>2. CASE Len(backlog[xmit]) < BacklogMax
      <3>1. backlog' = [backlog EXCEPT ![xmit] = Append(@, sent)]
        BY <1>5, <2>2 DEF netif_rx
      <3>2. Waiting' = Waiting + 1
        BY <2>1, <2>2, <3>1, OneMore
      <3>3. sent \in 1 .. MaxPackets
        BY <1>5, <1>a DEF netif_rx
      <3>4. /\ Append(backlog[xmit], sent) \in Seq(1 .. MaxPackets)
            /\ Len(Append(backlog[xmit], sent)) = Len(backlog[xmit]) + 1
            /\ Len(backlog[xmit]) \in Nat
        BY <2>1, <3>3
      <3>5. /\ backlog' \in [Cpus -> Seq(1 .. MaxPackets)]
            /\ \A d \in Cpus : Len(backlog'[d]) <= BacklogMax
        BY <1>a, <2>1, <2>2, <3>1, <3>4
      <3> QED
        BY <1>5, <1>a, <2>2, <3>2, <3>5, SMTT(30) DEF netif_rx, stats
    <2>3. CASE ~(Len(backlog[xmit]) < BacklogMax)
      <3>1. up' = [came |-> up.came, lost |-> up.lost + 1] /\ UNCHANGED backlog
        BY <1>5, <2>3 DEF netif_rx
      <3>2. up'.came \in 0 .. MaxPackets /\ up'.lost \in 0 .. MaxPackets
        BY <1>5, <1>a, <3>1 DEF netif_rx
      <3> QED
        BY <1>5, <1>a, <1>c, <3>1, <3>2, SMTT(30) DEF netif_rx, stats
    <2> QED
      BY <2>2, <2>3
  <1>6. ASSUME NEW d \in Cpus, my_hard_start_xmit(d) PROVE CountInv'
    BY <1>6, <1>a, <1>c, SMTT(30) DEF my_hard_start_xmit
  <1>7. ASSUME NEW d \in Cpus, net_rx_action(d) PROVE CountInv'
    <2>1. /\ backlog[d] # <<>>
          /\ backlog' = [backlog EXCEPT ![d] = Tail(@)]
          /\ arrived' = [arrived EXCEPT ![d] = Head(backlog[d])]
          /\ up' = [came |-> up.came + 1, lost |-> up.lost]
          /\ UNCHANGED <<dev, started, xmit, pc, stats, sent>>
      BY <1>7 DEF net_rx_action
    <2>2. Waiting' = Waiting - 1 /\ Waiting' \in Nat
      BY <2>1, OneLess
    <2>a. backlog[d] \in Seq(1 .. MaxPackets) /\ Len(backlog[d]) <= BacklogMax
      OBVIOUS
    <2>3. /\ Head(backlog[d]) \in 1 .. MaxPackets
          /\ Tail(backlog[d]) \in Seq(1 .. MaxPackets)
          /\ Len(Tail(backlog[d])) = Len(backlog[d]) - 1
          /\ Len(backlog[d]) \in Nat
      <3> HIDE DEF CountInv, TypeOK
      <3> QED
        BY <2>1, <2>a, HeadTailProperties, LenProperties
    <2>b. /\ backlog \in [Cpus -> Seq(1 .. MaxPackets)]
          /\ \A e \in Cpus : Len(backlog[e]) <= BacklogMax
          /\ arrived \in [Cpus -> 0 .. MaxPackets]
      OBVIOUS
    <2>4. /\ backlog' \in [Cpus -> Seq(1 .. MaxPackets)]
          /\ \A e \in Cpus : Len(backlog'[e]) <= BacklogMax
      <3>1. Len(Tail(backlog[d])) <= BacklogMax
        BY <1>a, <2>a, <2>3
      <3> HIDE DEF CountInv, TypeOK
      <3> QED
        BY <2>1, <2>3, <2>b, <3>1
    <2>5. arrived' \in [Cpus -> 0 .. MaxPackets]
      <3>1. Head(backlog[d]) \in 0 .. MaxPackets
        BY <1>a, <2>3
      <3> HIDE DEF CountInv, TypeOK
      <3> QED
        BY <2>1, <2>b, <3>1
    <2>6. up'.came \in 0 .. MaxPackets /\ up'.lost \in 0 .. MaxPackets
      <3>1. up.came \in Nat /\ up.lost \in Nat
        OBVIOUS
      <3>2. up.came + up.lost + Waiting <= MaxPackets
        BY <1>a
      <3>3. up'.came = up.came + 1 /\ up'.lost = up.lost
        BY <2>1
      <3> QED
        BY <1>a, <2>2, <3>1, <3>2, <3>3, SMTT(30)
    <2>7. /\ UNCHANGED <<dev, started, xmit, pc, tx_packets, rx_packets, sent>>
          /\ up' \in [came : 0 .. MaxPackets, lost : 0 .. MaxPackets]
      BY <2>1, <2>6 DEF stats
    <2>8. TypeOK'
      <3>1. TypeOK
        OBVIOUS
      <3> HIDE DEF CountInv
      <3> QED
        BY <2>4, <2>5, <2>7, <3>1, Zenon
    <2>9. /\ up'.came = up.came + 1 /\ up'.lost = up.lost
          /\ up.came \in Nat /\ up.lost \in Nat /\ rx_packets \in Nat
      BY <2>1
    <2>10. rx_packets' = up'.came + up'.lost + Waiting'
                           + (IF pc' = "received" THEN 1 ELSE 0)
      BY <1>a, <2>2, <2>7, <2>9
    <2> HIDE DEF TypeOK
    <2> QED
      BY <2>7, <2>8, <2>10
  <1>8. CASE UNCHANGED vars
    BY <1>8, <1>c DEF vars, stats
  <1> QED
    BY <1>1, <1>2, <1>3, <1>4, <1>5, <1>6, <1>7, <1>8 DEF Next

---------------------------------------------------------------------------
(***************************************************************************)
(* PeriodicTimer.  While the timer waits, expires is as far ahead of       *)
(* jiffies, in the arithmetic of an unsigned long, as the period is not    *)
(* over yet; and nothing is set or runs without the module.                *)
(***************************************************************************)
Wrapped(n) == IF n < Wrap THEN n ELSE n - Wrap

TimerInv ==
  /\ jiffies \in 0 .. Wrap - 1 /\ expires \in 0 .. Wrap - 1
  /\ passed \in 0 .. Delay
  /\ pending \in BOOLEAN
  /\ timerLoaded \in {"out", "init", "in"} /\ timerPc \in {"idle", "running"}
  /\ passed < Delay => expires = Wrapped(jiffies + (Delay - passed))
                       \/ timerLoaded = "out"
  /\ timerPc = "running" => timerLoaded = "in" /\ ~pending
  /\ pending => timerLoaded = "in"
  /\ Timer!NeverEarly

LEMMA TimerNumbers ==
  ASSUME Timer!TimerAssumption
  PROVE  /\ Wrap \in Nat /\ Delay \in Nat /\ Delay > 0 /\ MaxLate \in Nat
         /\ Wrap \div 2 \in Nat /\ 2 * (Wrap \div 2) <= Wrap
         /\ Wrap < 2 * (Wrap \div 2) + 2
         /\ Delay < Wrap \div 2
  BY DEF Timer!TimerAssumption

LEMMA ModWraps ==
  ASSUME Timer!TimerAssumption, NEW n \in Nat, n < 2 * Wrap
  PROVE  n % Wrap = Wrapped(n)
  <1> Wrap \in Nat /\ Wrap > 0
    BY TimerNumbers
  <1>1. CASE n < Wrap
    BY <1>1 DEF Wrapped
  <1>2. CASE n >= Wrap
    <2> DEFINE m == n - Wrap
    <2>1. m \in 0 .. Wrap - 1 /\ n = 1 * Wrap + m
      BY <1>2
    <2> QED
      BY <1>2, <2>1 DEF Wrapped
  <1> QED
    BY <1>1, <1>2

LEMMA TimerInit == ASSUME Timer!TimerAssumption, Timer!Init PROVE TimerInv
  <1>1. /\ jiffies = Wrap - 1 /\ expires = 0 /\ passed = 0 /\ pending = FALSE
        /\ timerLoaded = "out" /\ timerPc = "idle"
    BY DEF Timer!Init, Timer!ClockInit
  <1>2. Wrap - 1 \in 0 .. Wrap - 1 /\ 0 \in 0 .. Wrap - 1 /\ 0 \in 0 .. Delay
    BY TimerNumbers
  <1> QED
    BY <1>1, <1>2 DEF TimerInv, Timer!NeverEarly

\* A timer that is due has waited for its period.
LEMMA DueIsNotEarly ==
  ASSUME Timer!TimerAssumption, TimerInv, Timer!Due
  PROVE  passed = Delay
  <1> SUFFICES ASSUME passed < Delay PROVE FALSE
    BY TimerNumbers DEF TimerInv
  <1>1. expires = Wrapped(jiffies + (Delay - passed))
    BY DEF TimerInv, Timer!Due
  <1>2. (jiffies + Wrap - expires) % Wrap = Wrapped(jiffies + Wrap - expires)
    BY TimerNumbers, ModWraps DEF TimerInv
  <1>3. Wrapped(jiffies + Wrap - expires) = Wrap - (Delay - passed)
    BY <1>1, TimerNumbers DEF TimerInv, Wrapped
  <1> QED
    BY <1>2, <1>3, TimerNumbers DEF TimerInv, Timer!Due, Timer!time_after_eq

LEMMA TimerStep ==
  ASSUME Timer!TimerAssumption, TimerInv, [Timer!Next]_(Timer!vars)
  PROVE  TimerInv'
  <1> USE TimerNumbers DEF TimerInv, Timer!NeverEarly
  <1>1. CASE Timer!Ticks
    <2>1. jiffies' = Wrapped(jiffies + 1)
      BY <1>1, ModWraps DEF Timer!Ticks, Timer!Tick
    <2> QED
      BY <1>1, <2>1 DEF Timer!Ticks, Timer!Tick, Wrapped
  <1>2. CASE Timer!init_module
    <2>1. expires' = Wrapped(jiffies + Delay)
      BY <1>2, ModWraps DEF Timer!init_module
    <2> QED
      BY <1>2, <2>1 DEF Timer!init_module, Wrapped
  <1>3. CASE Timer!add_timer
    BY <1>3 DEF Timer!add_timer, Wrapped
  <1>4. CASE Timer!ktfun
    <2>1. passed = Delay /\ timerLoaded = "in"
      BY <1>4, DueIsNotEarly DEF Timer!ktfun, Timer!Due
    <2>2. /\ timerPc' = "running" /\ pending' = FALSE
          /\ UNCHANGED <<jiffies, expires, passed, timerLoaded>>
      BY <1>4 DEF Timer!ktfun
    <2>3. ~(passed' < Delay) /\ passed' >= Delay
      BY <2>1, <2>2
    <2> QED
      BY <2>1, <2>2, <2>3, Zenon
  <1>5. CASE Timer!mod_timer
    <2>1. expires' = Wrapped(jiffies + Delay)
      BY <1>5, ModWraps DEF Timer!mod_timer
    <2> QED
      BY <1>5, <2>1 DEF Timer!mod_timer, Wrapped
  <1>6. CASE Timer!cleanup_module
    BY <1>6 DEF Timer!cleanup_module, Wrapped
  <1>7. CASE UNCHANGED Timer!vars
    BY <1>7 DEF Timer!vars, Timer!clock, Wrapped
  <1> QED
    BY <1>1, <1>2, <1>3, <1>4, <1>5, <1>6, <1>7 DEF Timer!Next

---------------------------------------------------------------------------
(***************************************************************************)
(* TimerDrv.  len, and what a writer has loaded of it, are never ahead of  *)
(* the writes that are through, which needs to know how many are not.  As  *)
(* long as every write has waited for the timer, there is at most one that *)
(* has still to set it, none while it is set, and its number is not ahead  *)
(* of the latest write; and if every write has waited for the one before   *)
(* to return, there is at most one at all and the numbers are exact.       *)
(***************************************************************************)
Through == writes - Cardinality(Drv!Writing)

\* Numbers that are not ahead of the n-th write, and exact if nothing crowded.
NumberOf(k, n) ==
  /\ 100 <= k /\ k <= 90 + 10 * n
  /\ ~crowded => k = 90 + 10 * n

PatientInv ==
  /\ drvLoaded # "broken"
  /\ \A v, w \in Drv!Setting : v = w
  /\ drvPending => Drv!Setting = {}
  /\ Len(rung) = writes - (IF drvPending \/ Drv!Setting # {} THEN 1 ELSE 0)
  /\ \A i \in 1 .. Len(rung) : NumberOf(rung[i], i)
  /\ \A w \in Writers : drvPc[w] = "add" => NumberOf(data, writes)
  /\ drvPending => NumberOf(data, writes)

LenInv ==
  /\ Through \in Nat
  /\ 100 <= len /\ len <= 100 + 10 * Through
  /\ \A w \in Writers :
       drvPc[w] = "store" => 100 <= sum[w] /\ sum[w] <= 100 + 10 * Through

CrowdInv ==
  /\ \A v, w \in Drv!Writing : v = w
  /\ len = 100 + 10 * Through
  /\ \A w \in Writers : drvPc[w] = "store" => sum[w] = len

DrvInv ==
  /\ Drv!TypeOK
  /\ IsFiniteSet(Drv!Writing)
  /\ LenInv
  /\ drvLoaded = "out" => ~drvPending /\ Drv!Writing = {}
  /\ ~crowded => CrowdInv
  /\ ~hasty => PatientInv

\* A writer enters my_write(), goes on in it, or leaves it.
LEMMA WriterMoves ==
  ASSUME DrvInv, NEW w \in Writers, NEW from \in Drv!Places, NEW to \in Drv!Places,
         Drv!Goto(w, from, to)
  PROVE  /\ drvPc' \in [Writers -> Drv!Places]
         /\ drvLoaded = "in" /\ drvPc[w] = from /\ drvPc'[w] = to
         /\ \A v \in Writers : v # w => drvPc'[v] = drvPc[v]
         /\ w \in Drv!Writing <=> from # "idle"
         /\ from = "idle" /\ to # "idle" =>
              /\ Drv!Writing' = Drv!Writing \cup {w} /\ IsFiniteSet(Drv!Writing')
              /\ Cardinality(Drv!Writing') = Cardinality(Drv!Writing) + 1
         /\ from # "idle" /\ to # "idle" => Drv!Writing' = Drv!Writing
         /\ from # "idle" /\ to = "idle" =>
              /\ Drv!Writing' = Drv!Writing \ {w} /\ IsFiniteSet(Drv!Writing')
              /\ Cardinality(Drv!Writing') = Cardinality(Drv!Writing) - 1
         /\ w \in Drv!Setting <=> from \in {"fill", "add"}
         /\ Drv!Setting' = IF to \in {"fill", "add"} THEN Drv!Setting \cup {w}
                                                     ELSE Drv!Setting \ {w}
  <1>1. /\ drvPc \in [Writers -> Drv!Places] /\ drvPc[w] = from
        /\ drvPc' = [drvPc EXCEPT ![w] = to] /\ IsFiniteSet(Drv!Writing)
        /\ drvLoaded = "in"
    BY DEF DrvInv, Drv!TypeOK, Drv!Goto
  <1>2. /\ drvPc' \in [Writers -> Drv!Places] /\ drvPc'[w] = to
        /\ \A v \in Writers : v # w => drvPc'[v] = drvPc[v]
    BY <1>1
  <1>3. w \in Drv!Writing <=> from # "idle"
    BY <1>1 DEF Drv!Writing
  <1>4. /\ w \in Drv!Setting <=> from \in {"fill", "add"}
        /\ Drv!Setting' = IF to \in {"fill", "add"} THEN Drv!Setting \cup {w}
                                                    ELSE Drv!Setting \ {w}
    BY <1>1, <1>2 DEF Drv!Setting
  <1>5. CASE from = "idle" /\ to # "idle"
    <2>1. Drv!Writing' = Drv!Writing \cup {w}
      BY <1>1, <1>2, <1>5 DEF Drv!Writing
    <2> QED
      BY <1>1, <1>2, <1>3, <1>4, <1>5, <2>1, FS_AddElement
  <1>6. CASE from # "idle" /\ to # "idle"
    <2>1. Drv!Writing' = Drv!Writing
      BY <1>1, <1>2, <1>6 DEF Drv!Writing
    <2> QED
      BY <1>1, <1>2, <1>3, <1>4, <1>6, <2>1
  <1>7. CASE from # "idle" /\ to = "idle"
    <2>1. Drv!Writing' = Drv!Writing \ {w}
      BY <1>1, <1>2, <1>7 DEF Drv!Writing
    <2> QED
      BY <1>1, <1>2, <1>3, <1>4, <1>7, <2>1, FS_RemoveElement
  <1>8. CASE from = "idle" /\ to = "idle"
    BY <1>1, <1>2, <1>3, <1>4, <1>8
  <1> QED
    BY <1>5, <1>6, <1>7, <1>8

\* A state without writers, timer or numbers.
LEMMA DrvFresh ==
  ASSUME MaxWrites \in Nat, Drv!Writing = {}, drvPending = FALSE,
         drvLoaded \in {"out", "in"}, len = 100, writes = 0, rung = <<>>
  PROVE  IsFiniteSet(Drv!Writing) /\ LenInv /\ CrowdInv /\ PatientInv
  <1>1. IsFiniteSet(Drv!Writing) /\ Cardinality(Drv!Writing) = 0 /\ Through = 0
    BY FS_EmptySet DEF Through
  <1>2. Drv!Setting = {} /\ \A w \in Writers : drvPc[w] = "idle"
    BY DEF Drv!Setting, Drv!Writing
  <1>3. LenInv /\ CrowdInv
    BY <1>1, <1>2 DEF LenInv, CrowdInv
  <1>4. Len(rung) = 0 /\ 1 .. Len(rung) = {}
    BY EmptySeq
  <1>5. Len(rung) = writes - (IF drvPending \/ Drv!Setting # {} THEN 1 ELSE 0)
    <2>1. (IF drvPending \/ Drv!Setting # {} THEN 1 ELSE 0) = 0
      BY <1>2, Zenon
    <2>2. 0 - 0 = 0
      OBVIOUS
    <2> QED
      BY <1>4, <2>1, <2>2, Zenon
  <1>6. PatientInv
    BY <1>2, <1>4, <1>5, Zenon DEF PatientInv
  <1> QED
    BY <1>1, <1>3, <1>6

LEMMA DrvInit == ASSUME Drv!DrvAssumption, Drv!Init PROVE DrvInv
  <1> USE DEF Drv!Init, Drv!ClockInit
  <1>1. Drv!Writing = {}
    BY DEF Drv!Writing
  <1>3. Wrap \in Nat /\ Wrap > 0 /\ Delay \in Nat /\ MaxWrites \in Nat
    BY TimerNumbers DEF Drv!DrvAssumption, Drv!TimerAssumption,
                        Timer!TimerAssumption
  <1>4. /\ drvJiffies \in 0 .. Wrap - 1 /\ drvExpires \in 0 .. Wrap - 1
        /\ drvPassed \in 0 .. Delay
        /\ len \in Drv!Numbers /\ data \in Drv!Numbers
        /\ sum \in [Writers -> Drv!Numbers]
        /\ writes \in 0 .. MaxWrites
    BY <1>3 DEF Drv!Numbers
  <1>5. rung \in Seq(Drv!Numbers)
    BY EmptySeq
  <1>b. drvPc \in [Writers -> Drv!Places]
    BY DEF Drv!Places
  <1>6. Drv!TypeOK
    BY <1>4, <1>5, <1>b, Zenon DEF Drv!TypeOK, Drv!ClockTypeOK
  <1> QED
    BY <1>1, <1>3, <1>6, DrvFresh DEF DrvInv

\* The constants and ranges that every step below needs.
LEMMA DrvNumbers ==
  ASSUME Drv!DrvAssumption, DrvInv
  PROVE  /\ Timer!TimerAssumption
         /\ Wrap \in Nat /\ Wrap > 0 /\ Delay \in Nat /\ MaxWrites \in Nat
         /\ Delay < Wrap
         /\ drvJiffies \in Nat /\ drvJiffies < Wrap
         /\ drvPassed \in Nat /\ drvPassed <= Delay
         /\ writes \in Nat /\ writes <= MaxWrites
         /\ len \in Nat /\ data \in Nat /\ \A w \in Writers : sum[w] \in Nat
         /\ Cardinality(Drv!Writing) \in Nat
         /\ Through \in Nat /\ Through <= writes
         /\ Drv!Writing # {} => Through < writes
  <1>1. Timer!TimerAssumption /\ MaxWrites \in Nat
    BY DEF Drv!DrvAssumption, Drv!TimerAssumption, Timer!TimerAssumption
  <1>2. IsFiniteSet(Drv!Writing)
    BY DEF DrvInv
  <1>3. /\ Cardinality(Drv!Writing) \in Nat
        /\ Drv!Writing # {} => Cardinality(Drv!Writing) # 0
    BY <1>2, FS_CardinalityType, FS_EmptySet
  <1>4. /\ writes \in Nat /\ writes <= MaxWrites
        /\ len \in Nat /\ data \in Nat /\ \A w \in Writers : sum[w] \in Nat
        /\ Wrap \in Nat /\ Wrap > 0 /\ Delay \in Nat /\ Delay < Wrap
        /\ drvJiffies \in Nat /\ drvJiffies < Wrap
        /\ drvPassed \in Nat /\ drvPassed <= Delay
    BY <1>1, TimerNumbers, SMTT(30)
       DEF DrvInv, Drv!TypeOK, Drv!ClockTypeOK, Drv!Numbers
  <1>5. Through \in Nat
    BY DEF DrvInv, LenInv
  <1>6. Through <= writes /\ (Drv!Writing # {} => Through < writes)
    BY <1>3, <1>4 DEF Through
  <1> QED
    BY <1>1, <1>3, <1>4, <1>5, <1>6

\* Steps that leave the writers and the numbers alone.
LEMMA DrvClockSteps ==
  ASSUME Drv!DrvAssumption, DrvInv, Drv!Ticks PROVE DrvInv'
  <1>1. /\ drvJiffies' = (drvJiffies + 1) % Wrap
        /\ drvPassed' = IF drvPassed < Delay THEN drvPassed + 1 ELSE drvPassed
        /\ UNCHANGED <<drvPending, drvExpires, drvLoaded, drvPc, len, sum, data,
                       writes, rung, hasty, crowded>>
    BY DEF Drv!Ticks, Drv!Tick
  <1>2. drvJiffies' \in 0 .. Wrap - 1
    <2>1. (drvJiffies + 1) % Wrap = Wrapped(drvJiffies + 1)
      BY DrvNumbers, ModWraps
    <2> QED
      BY <1>1, <2>1, DrvNumbers DEF Wrapped
  <1>3. drvPassed' \in 0 .. Delay
    BY <1>1, DrvNumbers
  <1>4. Drv!TypeOK'
    <2>1. Drv!TypeOK
      BY DEF DrvInv
    <2> QED
      BY <1>1, <1>2, <1>3, <2>1, Zenon DEF Drv!TypeOK, Drv!ClockTypeOK
  <1>5. Drv!Writing' = Drv!Writing /\ Drv!Setting' = Drv!Setting
    BY <1>1 DEF Drv!Writing, Drv!Setting
  <1>6. Through' = Through
    BY <1>1, <1>5 DEF Through
  <1> QED
    BY <1>1, <1>4, <1>5, <1>6 DEF DrvInv, PatientInv, LenInv, CrowdInv, NumberOf

LEMMA DrvLoadSteps ==
  ASSUME Drv!DrvAssumption, DrvInv, Drv!my_init \/ Drv!my_exit PROVE DrvInv'
  <1>a. Drv!TypeOK
    BY DEF DrvInv
  <1>1. CASE Drv!my_init
    <2>1. /\ drvLoaded = "out" /\ drvLoaded' = "in" /\ len' = 100 /\ data' = 0
          /\ writes' = 0 /\ rung' = <<>> /\ hasty' = FALSE /\ crowded' = FALSE
          /\ UNCHANGED <<drvJiffies, drvPending, drvExpires, drvPassed, drvPc, sum>>
      BY <1>1 DEF Drv!my_init, Drv!clock
    <2>2. Drv!Writing = {} /\ ~drvPending
      BY <2>1 DEF DrvInv
    <2>3. Drv!Writing' = {} /\ drvPending' = FALSE
      BY <1>a, <2>1, <2>2 DEF Drv!Writing, Drv!TypeOK, Drv!ClockTypeOK
    <2>5. /\ len' \in Drv!Numbers /\ data' \in Drv!Numbers /\ writes' \in 0 .. MaxWrites
      BY <2>1, DrvNumbers DEF Drv!Numbers
    <2>6. rung' \in Seq(Drv!Numbers)
      BY <2>1, EmptySeq
    <2>7. Drv!TypeOK'
      BY <1>a, <2>1, <2>5, <2>6, Zenon DEF Drv!TypeOK, Drv!ClockTypeOK
    <2>8. (IsFiniteSet(Drv!Writing) /\ LenInv /\ CrowdInv /\ PatientInv)'
      <3>1. /\ IsFiniteSet(Drv!Writing') /\ Cardinality(Drv!Writing') = 0
            /\ Through' = 0
        BY <2>1, <2>3, FS_EmptySet DEF Through
      <3>2. Drv!Setting' = {} /\ \A w \in Writers : drvPc'[w] = "idle"
        BY <2>3 DEF Drv!Setting, Drv!Writing
      <3>3. LenInv' /\ CrowdInv'
        BY <2>1, <2>3, <3>1, <3>2 DEF LenInv, CrowdInv
      <3>4. Len(rung') = 0 /\ 1 .. Len(rung') = {}
        BY <2>1, EmptySeq
      <3>5. Len(rung') = writes' - (IF drvPending' \/ Drv!Setting' # {} THEN 1 ELSE 0)
        <4>1. (IF drvPending' \/ Drv!Setting' # {} THEN 1 ELSE 0) = 0
          BY <2>3, <3>2, Zenon
        <4>2. 0 - 0 = 0
          OBVIOUS
        <4> QED
          BY <2>1, <3>4, <4>1, <4>2, Zenon
      <3>6. PatientInv'
        BY <2>1, <2>3, <3>2, <3>4, <3>5, Zenon DEF PatientInv
      <3> QED
        BY <3>1, <3>3, <3>6
    <2> QED
      BY <2>1, <2>7, <2>8 DEF DrvInv
  <1>2. CASE Drv!my_exit
    <2>1. /\ drvLoaded = "in" /\ Drv!Writing = {}
          /\ drvLoaded' = IF drvPending THEN "broken" ELSE "out"
          /\ hasty' = (hasty \/ drvPending)
          /\ UNCHANGED <<drvJiffies, drvPending, drvExpires, drvPassed, drvPc,
                         len, sum, data, writes, rung, crowded>>
      BY <1>2 DEF Drv!my_exit, Drv!clock
    <2>2. Drv!Writing' = Drv!Writing /\ Drv!Setting' = Drv!Setting
      BY <2>1 DEF Drv!Writing, Drv!Setting
    <2>3. Through' = Through
      BY <2>1, <2>2 DEF Through
    <2>4. hasty' \in BOOLEAN /\ drvLoaded' \in {"out", "in", "broken"}
      BY <2>1
    <2>5. Drv!TypeOK'
      BY <1>a, <2>1, <2>4, Zenon DEF Drv!TypeOK, Drv!ClockTypeOK
    <2>6. ~hasty' => ~hasty /\ ~drvPending /\ drvLoaded' = "out"
      BY <2>1
    <2>7. LenInv' /\ (~crowded' => CrowdInv')
      BY <2>1, <2>2, <2>3 DEF DrvInv, LenInv, CrowdInv
    <2>8. ~hasty' => PatientInv'
      BY <2>1, <2>2, <2>6 DEF DrvInv, PatientInv, NumberOf
    <2> QED
      BY <2>1, <2>2, <2>5, <2>7, <2>8 DEF DrvInv
  <1> QED
    BY <1>1, <1>2

\* my_write() step by step.
LEMMA DrvInitTimer ==
  ASSUME Drv!DrvAssumption, DrvInv, NEW w \in Writers, Drv!init_timer(w)
  PROVE  DrvInv'
  <1>a. Drv!TypeOK
    BY DEF DrvInv
  <1>1. /\ Drv!Goto(w, "idle", "fill")
        /\ writes < MaxWrites /\ writes' = writes + 1
        /\ drvLoaded' = IF drvPending THEN "broken" ELSE "in"
        /\ hasty' = (hasty \/ drvPending \/ Drv!Setting # {})
        /\ crowded' = (crowded \/ Drv!Writing # {})
        /\ UNCHANGED <<drvJiffies, drvPending, drvExpires, drvPassed, len, sum,
                       data, rung>>
    BY DEF Drv!init_timer, Drv!clock
  <1>2. /\ drvPc' \in [Writers -> Drv!Places] /\ drvPc'[w] = "fill"
        /\ \A v \in Writers : v # w => drvPc'[v] = drvPc[v]
        /\ Drv!Writing' = Drv!Writing \cup {w} /\ IsFiniteSet(Drv!Writing')
        /\ Cardinality(Drv!Writing') = Cardinality(Drv!Writing) + 1
        /\ Drv!Setting' = Drv!Setting \cup {w}
    BY <1>1, WriterMoves DEF Drv!Places
  <1>3. Through' = Through
    BY <1>1, <1>2, DrvNumbers DEF Through
  <1>5. /\ hasty' \in BOOLEAN /\ drvLoaded' \in {"out", "in", "broken"}
        /\ crowded' \in BOOLEAN /\ drvLoaded' # "out"
    BY <1>1
  <1>6. writes' \in 0 .. MaxWrites
    BY <1>1, DrvNumbers
  <1>7. Drv!TypeOK'
    BY <1>a, <1>1, <1>2, <1>5, <1>6, Zenon DEF Drv!TypeOK, Drv!ClockTypeOK
  <1>8. LenInv'
    BY <1>1, <1>2, <1>3 DEF DrvInv, LenInv
  <1>9. ASSUME ~crowded' PROVE CrowdInv'
    <2>1. ~crowded /\ Drv!Writing = {} /\ CrowdInv
      BY <1>1, <1>9 DEF DrvInv
    <2> QED
      BY <1>1, <1>2, <1>3, <2>1 DEF CrowdInv
  <1>10. ASSUME ~hasty' PROVE PatientInv'
    <2>1. ~hasty /\ ~drvPending /\ Drv!Setting = {} /\ PatientInv
      BY <1>1, <1>10 DEF DrvInv
    <2>2. Drv!Setting' = {w} /\ drvLoaded' = "in" /\ drvPending' = drvPending
      BY <1>1, <1>2, <2>1
    <2>3. Len(rung') = writes' - (IF drvPending' \/ Drv!Setting' # {} THEN 1 ELSE 0)
      BY <1>1, <2>1, <2>2, DrvNumbers DEF PatientInv
    <2>4. \A v \in Writers : drvPc'[v] # "add"
      BY <1>2, <2>1 DEF Drv!Setting
    <2>5. \A i \in 1 .. Len(rung') : NumberOf(rung[i], i)'
      BY <1>1, <2>1 DEF PatientInv, NumberOf
    <2> QED
      BY <1>1, <2>1, <2>2, <2>3, <2>4, <2>5 DEF PatientInv
  <1> QED
    BY <1>1, <1>2, <1>5, <1>7, <1>8, <1>9, <1>10 DEF DrvInv

LEMMA DrvFill ==
  ASSUME Drv!DrvAssumption, DrvInv, NEW w \in Writers, Drv!fill(w)
  PROVE  DrvInv'
  <1>a. Drv!TypeOK
    BY DEF DrvInv
  <1>1. /\ Drv!Goto(w, "fill", "add")
        /\ drvExpires' = (drvJiffies + Delay) % Wrap /\ drvPassed' = 0
        /\ data' = len
        /\ UNCHANGED <<drvJiffies, drvPending, drvLoaded, len, sum, writes, rung,
                       hasty, crowded>>
    BY DEF Drv!fill
  <1>2. /\ drvPc' \in [Writers -> Drv!Places] /\ drvPc'[w] = "add"
        /\ \A v \in Writers : v # w => drvPc'[v] = drvPc[v]
        /\ Drv!Writing' = Drv!Writing /\ w \in Drv!Writing
        /\ Drv!Setting' = Drv!Setting /\ w \in Drv!Setting /\ drvLoaded = "in"
    <2>1. "fill" \in {"fill", "add"} /\ "add" \in {"fill", "add"}
      OBVIOUS
    <2>2. "fill" \in Drv!Places /\ "add" \in Drv!Places
      BY DEF Drv!Places
    <2> QED
      BY <1>1, <2>1, <2>2, WriterMoves
  <1>3. Through' = Through
    BY <1>1, <1>2 DEF Through
  <1>4. drvExpires' \in 0 .. Wrap - 1 /\ drvPassed' \in 0 .. Delay
    <2>1. (drvJiffies + Delay) % Wrap = Wrapped(drvJiffies + Delay)
      BY DrvNumbers, ModWraps
    <2> QED
      BY <1>1, <2>1, DrvNumbers DEF Wrapped
  <1>5. data' \in Drv!Numbers
    BY <1>1, <1>a DEF Drv!TypeOK
  <1>6. Drv!TypeOK'
    BY <1>a, <1>1, <1>2, <1>4, <1>5, Zenon DEF Drv!TypeOK, Drv!ClockTypeOK
  <1>7. LenInv' /\ (~crowded' => CrowdInv')
    BY <1>1, <1>2, <1>3 DEF DrvInv, LenInv, CrowdInv
  <1>8. ASSUME ~hasty' PROVE PatientInv'
    <2>1. PatientInv /\ ~drvPending
      BY <1>1, <1>2, <1>8 DEF DrvInv, PatientInv
    <2>2. NumberOf(len, writes)
      <3>1. Through \in Nat /\ Through + 1 <= writes /\ writes \in Nat /\ len \in Nat
        BY <1>2, DrvNumbers
      <3>2. 100 <= len /\ len <= 90 + 10 * writes
        BY <3>1 DEF DrvInv, LenInv
      <3>3. ASSUME ~crowded PROVE len = 90 + 10 * writes
        <4>1. Drv!Writing = {w} /\ len = 100 + 10 * Through
          BY <1>2, <3>3 DEF DrvInv, CrowdInv
        <4>2. Through = writes - 1
          BY <3>1, <4>1, FS_Singleton DEF Through
        <4> QED
          BY <3>1, <4>1, <4>2
      <3> QED
        BY <3>2, <3>3 DEF NumberOf
    <2>3. NumberOf(data, writes)'
      BY <1>1, <2>2 DEF NumberOf
    <2>4. \A i \in 1 .. Len(rung') : NumberOf(rung[i], i)'
      BY <1>1, <2>1 DEF PatientInv, NumberOf
    <2> QED
      BY <1>1, <1>2, <2>1, <2>3, <2>4 DEF PatientInv
  <1> QED
    BY <1>1, <1>2, <1>6, <1>7, <1>8 DEF DrvInv

LEMMA DrvAddTimer ==
  ASSUME Drv!DrvAssumption, DrvInv, NEW w \in Writers, Drv!add_timer(w)
  PROVE  DrvInv'
  <1>a. Drv!TypeOK
    BY DEF DrvInv
  <1>1. /\ Drv!Goto(w, "add", "load")
        /\ drvLoaded' = IF drvPending THEN "broken" ELSE "in"
        /\ drvPending' = TRUE
        /\ UNCHANGED <<drvJiffies, drvExpires, drvPassed, len, sum, data, writes,
                       rung, hasty, crowded>>
    BY DEF Drv!add_timer
  <1>2. /\ drvPc' \in [Writers -> Drv!Places] /\ drvPc'[w] = "load"
        /\ drvPc[w] = "add" /\ \A v \in Writers : v # w => drvPc'[v] = drvPc[v]
        /\ Drv!Writing' = Drv!Writing
        /\ w \in Drv!Setting /\ Drv!Setting' = Drv!Setting \ {w}
    <2>1. "add" \in {"fill", "add"} /\ "load" \notin {"fill", "add"}
      OBVIOUS
    <2>2. "load" \in Drv!Places /\ "add" \in Drv!Places
      BY DEF Drv!Places
    <2> QED
      BY <1>1, <2>1, <2>2, WriterMoves
  <1>3. Through' = Through
    BY <1>1, <1>2 DEF Through
  <1>6. drvLoaded' \in {"out", "in", "broken"} /\ drvLoaded' # "out"
    BY <1>1
  <1>7. Drv!TypeOK'
    BY <1>a, <1>1, <1>2, <1>6, Zenon DEF Drv!TypeOK, Drv!ClockTypeOK
  <1>8. LenInv' /\ (~crowded' => CrowdInv')
    BY <1>1, <1>2, <1>3 DEF DrvInv, LenInv, CrowdInv
  <1>9. ASSUME ~hasty' PROVE PatientInv'
    <2>1. PatientInv /\ ~drvPending /\ NumberOf(data, writes)
      BY <1>1, <1>2, <1>9 DEF DrvInv, PatientInv
    <2>2. Drv!Setting' = {} /\ drvLoaded' = "in"
      BY <1>1, <1>2, <2>1 DEF PatientInv
    <2>3. Len(rung') = writes' - (IF drvPending' \/ Drv!Setting' # {} THEN 1 ELSE 0)
      BY <1>1, <1>2, <2>1 DEF PatientInv
    <2>4. NumberOf(data, writes)' /\ \A i \in 1 .. Len(rung') : NumberOf(rung[i], i)'
      BY <1>1, <2>1 DEF PatientInv, NumberOf
    <2> QED
      BY <2>2, <2>3, <2>4 DEF PatientInv
  <1> QED
    BY <1>1, <1>2, <1>6, <1>7, <1>8, <1>9 DEF DrvInv

LEMMA DrvLoadsLen ==
  ASSUME Drv!DrvAssumption, DrvInv, NEW w \in Writers, Drv!loads_len(w)
  PROVE  DrvInv'
  <1>a. Drv!TypeOK
    BY DEF DrvInv
  <1>1. /\ Drv!Goto(w, "load", "store") /\ sum' = [sum EXCEPT ![w] = len]
        /\ UNCHANGED <<drvJiffies, drvPending, drvExpires, drvPassed, drvLoaded,
                       len, data, writes, rung, hasty, crowded>>
    BY DEF Drv!loads_len, Drv!clock
  <1>2. /\ drvPc' \in [Writers -> Drv!Places] /\ drvPc'[w] = "store"
        /\ \A v \in Writers : v # w => drvPc'[v] = drvPc[v]
        /\ Drv!Writing' = Drv!Writing /\ Drv!Setting' = Drv!Setting
        /\ drvLoaded = "in"
    <2>1. "load" \notin {"fill", "add"} /\ "store" \notin {"fill", "add"}
      OBVIOUS
    <2>2. "load" \in Drv!Places /\ "store" \in Drv!Places
      BY DEF Drv!Places
    <2> QED
      BY <1>1, <2>1, <2>2, WriterMoves
  <1>3. Through' = Through
    BY <1>1, <1>2 DEF Through
  <1>4. /\ sum' \in [Writers -> Drv!Numbers] /\ sum'[w] = len
        /\ \A v \in Writers : v # w => sum'[v] = sum[v]
    BY <1>1, <1>a DEF Drv!TypeOK
  <1>5. Drv!TypeOK'
    BY <1>a, <1>1, <1>2, <1>4, Zenon DEF Drv!TypeOK, Drv!ClockTypeOK
  <1>6. LenInv'
    <2>1. LenInv
      BY DEF DrvInv
    <2> QED
      BY <1>1, <1>2, <1>3, <1>4, <2>1 DEF LenInv
  <1>7. ASSUME ~crowded' PROVE CrowdInv'
    <2>1. CrowdInv
      BY <1>1, <1>7 DEF DrvInv
    <2> QED
      BY <1>1, <1>2, <1>3, <1>4, <2>1 DEF CrowdInv
  <1>8. ASSUME ~hasty' PROVE PatientInv'
    <2>1. PatientInv
      BY <1>1, <1>8 DEF DrvInv
    <2>2. \A v \in Writers : drvPc'[v] = "add" => drvPc[v] = "add"
      BY <1>2
    <2> QED
      BY <1>1, <1>2, <2>1, <2>2 DEF PatientInv, NumberOf
  <1> QED
    BY <1>1, <1>2, <1>5, <1>6, <1>7, <1>8 DEF DrvInv

LEMMA DrvStoresLen ==
  ASSUME Drv!DrvAssumption, DrvInv, NEW w \in Writers, Drv!stores_len(w)
  PROVE  DrvInv'
  <1>a. Drv!TypeOK /\ LenInv
    BY DEF DrvInv
  <1>1. /\ Drv!Goto(w, "store", "idle") /\ len' = sum[w] + 10
        /\ sum' = [sum EXCEPT ![w] = 0]
        /\ UNCHANGED <<drvJiffies, drvPending, drvExpires, drvPassed, drvLoaded,
                       data, writes, rung, hasty, crowded>>
    BY DEF Drv!stores_len, Drv!clock
  <1>2. /\ drvPc' \in [Writers -> Drv!Places] /\ drvPc'[w] = "idle"
        /\ drvPc[w] = "store" /\ \A v \in Writers : v # w => drvPc'[v] = drvPc[v]
        /\ w \in Drv!Writing /\ Drv!Writing' = Drv!Writing \ {w}
        /\ IsFiniteSet(Drv!Writing')
        /\ Cardinality(Drv!Writing') = Cardinality(Drv!Writing) - 1
        /\ Drv!Setting' = Drv!Setting /\ drvLoaded = "in"
    <2>1. "idle" \notin {"fill", "add"} /\ "store" \notin {"fill", "add"}
      OBVIOUS
    <2>2. "idle" \in Drv!Places /\ "store" \in Drv!Places
      BY DEF Drv!Places
    <2> QED
      BY <1>1, <2>1, <2>2, WriterMoves
  <1>3. Through' = Through + 1
    BY <1>1, <1>2, DrvNumbers DEF Through
  <1>4. /\ Through \in Nat /\ Through + 1 <= MaxWrites /\ MaxWrites \in Nat
        /\ sum[w] \in Nat /\ 100 <= sum[w] /\ sum[w] <= 100 + 10 * Through
    <2>1. /\ Through \in Nat /\ Through < writes /\ writes \in Nat
          /\ writes <= MaxWrites /\ MaxWrites \in Nat /\ sum[w] \in Nat
      BY <1>2, DrvNumbers
    <2>2. 100 <= sum[w] /\ sum[w] <= 100 + 10 * Through
      BY <1>2, <1>a DEF LenInv
    <2> QED
      BY <2>1, <2>2
  <1>5. 100 <= len' /\ len' <= 100 + 10 * (Through + 1) /\ len' \in Nat
    BY <1>1, <1>4
  <1>6. len' \in Drv!Numbers /\ 0 \in Drv!Numbers
    BY <1>4, <1>5 DEF Drv!Numbers
  <1>7. /\ sum' \in [Writers -> Drv!Numbers]
        /\ \A v \in Writers : v # w => sum'[v] = sum[v]
    BY <1>1, <1>6, <1>a DEF Drv!TypeOK
  <1>8. Drv!TypeOK'
    BY <1>a, <1>1, <1>2, <1>6, <1>7, Zenon DEF Drv!TypeOK, Drv!ClockTypeOK
  <1>9. LenInv'
    <2>1. ASSUME NEW v \in Writers, drvPc'[v] = "store"
          PROVE  100 <= sum'[v] /\ sum'[v] <= 100 + 10 * Through'
      <3>1. v # w /\ sum'[v] = sum[v] /\ drvPc[v] = "store"
        BY <1>2, <1>7, <2>1
      <3>2. 100 <= sum[v] /\ sum[v] <= 100 + 10 * Through /\ sum[v] \in Nat
        BY <1>a, <3>1, DrvNumbers DEF LenInv
      <3> QED
        BY <1>3, <1>4, <3>1, <3>2
    <2>2. Through' \in Nat
      BY <1>3, <1>4
    <2>3. 100 <= len' /\ len' <= 100 + 10 * Through'
      BY <1>3, <1>5
    <2> QED
      BY <2>1, <2>2, <2>3 DEF LenInv
  <1>10. ASSUME ~crowded' PROVE CrowdInv'
    <2>1. CrowdInv
      BY <1>1, <1>10 DEF DrvInv
    <2>2. sum[w] = 100 + 10 * Through /\ Drv!Writing' = {}
      BY <1>2, <2>1 DEF CrowdInv
    <2>3. len' = 100 + 10 * Through'
      BY <1>1, <1>3, <1>4, <2>2
    <2>4. \A v \in Writers : drvPc'[v] # "store"
      BY <2>2 DEF Drv!Writing
    <2> QED
      BY <2>2, <2>3, <2>4 DEF CrowdInv
  <1>11. ASSUME ~hasty' PROVE PatientInv'
    <2>1. PatientInv
      BY <1>1, <1>11 DEF DrvInv
    <2>2. \A v \in Writers : drvPc'[v] = "add" => drvPc[v] = "add"
      BY <1>2
    <2> QED
      BY <1>1, <1>2, <2>1, <2>2 DEF PatientInv, NumberOf
  <1> QED
    BY <1>1, <1>2, <1>8, <1>9, <1>10, <1>11 DEF DrvInv

LEMMA DrvRings ==
  ASSUME Drv!DrvAssumption, DrvInv, Drv!my_timer_function PROVE DrvInv'
  <1>a. Drv!TypeOK
    BY DEF DrvInv
  <1>1. /\ drvPending /\ drvPending' = FALSE
        /\ rung' = Append(rung, data)
        /\ UNCHANGED <<drvJiffies, drvExpires, drvPassed, drvLoaded, drvPc, len,
                       sum, data, writes, hasty, crowded>>
    BY DEF Drv!my_timer_function, Drv!Due
  <1>2. Drv!Writing' = Drv!Writing /\ Drv!Setting' = Drv!Setting
    BY <1>1 DEF Drv!Writing, Drv!Setting
  <1>3. Through' = Through
    BY <1>1, <1>2 DEF Through
  <1>b. rung \in Seq(Drv!Numbers) /\ data \in Drv!Numbers
    BY <1>a DEF Drv!TypeOK
  <1>4. /\ rung' \in Seq(Drv!Numbers)
        /\ Len(rung) \in Nat /\ Len(rung') = Len(rung) + 1
        /\ \A i \in 1 .. Len(rung) : rung'[i] = rung[i]
        /\ rung'[Len(rung) + 1] = data
    BY <1>1, <1>b
  <1>5. Drv!TypeOK'
    BY <1>a, <1>1, <1>4, Zenon DEF Drv!TypeOK, Drv!ClockTypeOK
  <1>6. LenInv' /\ (~crowded' => CrowdInv')
    BY <1>1, <1>2, <1>3 DEF DrvInv, LenInv, CrowdInv
  <1>7. ASSUME ~hasty' PROVE PatientInv'
    <2>1. PatientInv /\ Drv!Setting = {} /\ NumberOf(data, writes)
      BY <1>1, <1>7 DEF DrvInv, PatientInv
    <2>2. Len(rung) = writes - 1 /\ writes \in Nat
      BY <1>1, <2>1, DrvNumbers DEF PatientInv
    <2>3. writes = Len(rung) + 1
      BY <1>4, <2>2
    <2>4. ASSUME NEW i \in 1 .. Len(rung') PROVE NumberOf(rung[i], i)'
      <3>1. i \in 1 .. Len(rung) \/ i = Len(rung) + 1
        BY <1>4
      <3>2. NumberOf(rung'[i], i)
        BY <1>4, <2>1, <2>3, <3>1 DEF PatientInv
      <3> QED
        BY <1>1, <3>2 DEF NumberOf
    <2>5. Len(rung') = writes' - (IF drvPending' \/ Drv!Setting' # {} THEN 1 ELSE 0)
      BY <1>1, <1>2, <1>4, <2>1, <2>2, SMTT(30)
    <2>6. \A w \in Writers : drvPc'[w] # "add"
      BY <1>1, <2>1 DEF Drv!Setting
    <2> QED
      BY <1>1, <1>2, <2>1, <2>4, <2>5, <2>6 DEF PatientInv
  <1> QED
    BY <1>1, <1>2, <1>5, <1>6, <1>7 DEF DrvInv

LEMMA DrvStep ==
  ASSUME Drv!DrvAssumption, DrvInv, [Drv!Next]_(Drv!vars) PROVE DrvInv'
  <1>1. CASE UNCHANGED Drv!vars
    <2>1. UNCHANGED <<drvJiffies, drvPending, drvExpires, drvPassed, drvLoaded,
                      drvPc, len, sum, data, writes, rung, hasty, crowded>>
      BY <1>1 DEF Drv!vars, Drv!clock
    <2>2. Drv!Writing' = Drv!Writing /\ Drv!Setting' = Drv!Setting
      BY <2>1 DEF Drv!Writing, Drv!Setting
    <2>3. Through' = Through
      BY <2>1, <2>2 DEF Through
    <2>4. Drv!TypeOK' = Drv!TypeOK
      BY <2>1 DEF Drv!TypeOK, Drv!ClockTypeOK
    <2> QED
      BY <2>1, <2>2, <2>3, <2>4 DEF DrvInv, LenInv, CrowdInv, PatientInv, NumberOf
  <1> QED
    BY <1>1, DrvClockSteps, DrvLoadSteps, DrvInitTimer, DrvFill, DrvAddTimer,
       DrvLoadsLen, DrvStoresLen, DrvRings DEF Drv!Next

---------------------------------------------------------------------------
(***************************************************************************)
(* SyscallHook.  The entry is myopen() only while the module is loaded,    *)
(* and orig_open is the original function from before that on; once the    *)
(* entry is put back nobody else comes into the module.                    *)
(***************************************************************************)
HookInv ==
  /\ hookLoader \in {"out", "init", "in", "exit"}
  /\ hookPc \in [Callers -> {"user", "myopen", "through", "sys_open", "lost"}]
  /\ entry = IF hookLoader = "in" THEN "myopen" ELSE "sys_open"
  /\ hookLoader # "out" => orig_open = "sys_open"
  /\ orig_open \in {"NULL", "sys_open"}
  /\ hookLoader \in {"out", "init"} => Hook!InModule = {}
  /\ hookLoader = "exit" => Hook!InModule \subseteq caught
  /\ \A c \in Callers : hookPc[c] = "lost" => c \in caught
  /\ caught \subseteq Callers
  /\ failed = {}

LEMMA HookInit == ASSUME Hook!Init PROVE HookInv
  BY DEF Hook!Init, HookInv, Hook!InModule

LEMMA HookStep == ASSUME HookInv, [Hook!Next]_(Hook!vars) PROVE HookInv'
  <1> USE DEF HookInv, Hook!InModule
  <1>1. CASE Hook!my_init_saves
    BY <1>1 DEF Hook!my_init_saves
  <1>2. CASE Hook!my_init_hooks
    BY <1>2 DEF Hook!my_init_hooks
  <1>3. CASE Hook!my_exit
    BY <1>3 DEF Hook!my_exit
  <1>a. CASE Hook!free_module
    BY <1>a DEF Hook!free_module
  <1>4. ASSUME NEW c \in Callers, Hook!open(c) PROVE HookInv'
    BY <1>4 DEF Hook!open
  <1>5. ASSUME NEW c \in Callers, Hook!myopen(c) PROVE HookInv'
    BY <1>5 DEF Hook!myopen
  <1>6. ASSUME NEW c \in Callers, Hook!sys_open(c) PROVE HookInv'
    BY <1>6 DEF Hook!sys_open
  <1>7. CASE UNCHANGED Hook!vars
    BY <1>7 DEF Hook!vars
  <1> QED
    BY <1>1, <1>2, <1>3, <1>4, <1>5, <1>6, <1>7, <1>a DEF Hook!Next

---------------------------------------------------------------------------
(***************************************************************************)
(* The modules share no state: a step of one leaves the others alone.      *)
(***************************************************************************)
CallbackInv == NetInv /\ CountInv /\ TimerInv /\ DrvInv /\ HookInv

LEMMA CallbackSteps ==
  ASSUME CallbackInv,
         [CallbackNext]_<<example, vars, timerVars, drvVars, hookVars>>
  PROVE  /\ [Next]_vars /\ [Timer!Next]_(Timer!vars)
         /\ [Drv!Next]_(Drv!vars) /\ [Hook!Next]_(Hook!vars)
  <1>1. UNCHANGED timerVars => UNCHANGED Timer!vars
    BY DEF timerVars, Timer!vars, Timer!clock
  <1>2. UNCHANGED hookVars => UNCHANGED Hook!vars
    BY DEF hookVars, Hook!vars
  <1>a. UNCHANGED drvVars => UNCHANGED Drv!vars
    BY DEF drvVars, Drv!vars, Drv!clock
  <1>3. CASE CallbackNext
    BY <1>1, <1>2, <1>3, <1>a DEF CallbackNext
  <1>4. CASE UNCHANGED <<example, vars, timerVars, drvVars, hookVars>>
    BY <1>1, <1>2, <1>4, <1>a
  <1> QED
    BY <1>3, <1>4

LEMMA CallbackInvariant == CallbackSpec => []CallbackInv
  <1>1. CallbackInit => CallbackInv
    BY CallbackAssumption, NetInit, CountInit, TimerInit, DrvInit, HookInit
       DEF CallbackInit, CallbackInv
  <1>2. CallbackInv
          /\ [CallbackNext]_<<example, vars, timerVars, drvVars, hookVars>>
        => CallbackInv'
    BY CallbackAssumption, CallbackSteps, NetStep, CountStep, TimerStep,
       DrvStep, HookStep DEF CallbackInv
  <1> QED
    BY <1>1, <1>2, PTL DEF CallbackSpec

\* mynet_drv.c: whatever the processors do and whenever the device is
\* opened, closed and unloaded, it is a channel that may lose packets but
\* keeps those of one processor in order and repeats none.
THEOREM NetImplementsChannel == CallbackSpec => ImplementsChannel
  <1>1. CallbackInit => Channel!Init
    BY CallbackAssumption, ChannelInit DEF CallbackInit
  <1>2. CallbackInv /\ CallbackInv'
          /\ [CallbackNext]_<<example, vars, timerVars, drvVars, hookVars>>
        => [Channel!Next]_(Channel!vars)
    BY CallbackAssumption, CallbackSteps, ChannelStep DEF CallbackInv
  <1> QED
    BY <1>1, <1>2, CallbackInvariant, PTL
       DEF CallbackSpec, ImplementsChannel, Channel!Spec

\* mynet_drv.c frees a device that nothing refers to, and periodic_timer.c
\* leaves no timer and no running function behind.
THEOREM UnloadingIsSafe == CallbackSpec => []UnloadIsSafe
  <1>1. CallbackInv => UnloadIsSafe
    BY DEF CallbackInv, NetInv, TimerInv, UnloadIsSafe, FreedIsUnused,
           Timer!UnloadStopsTimer
  <1> QED
    BY <1>1, CallbackInvariant, PTL

\* ktfun() of periodic_timer.c never runs before its period has passed,
\* whatever the width of jiffies and wherever it wraps.
THEOREM TimerIsNeverEarly == CallbackSpec => []NeverEarly
  <1>1. CallbackInv => NeverEarly
    BY DEF CallbackInv, TimerInv, NeverEarly
  <1> QED
    BY <1>1, CallbackInvariant, PTL

\* However many processes call open() and whenever mysyscalls.c is loaded and
\* unloaded, all come to the original function and back, but for those that
\* were still in myopen() when my_exit() put the entry back.
THEOREM OpenIsTransparent == CallbackSpec => []HookIsTransparent
  <1>1. CallbackInv => HookIsTransparent
    BY DEF CallbackInv, HookInv, HookIsTransparent, Hook!HookIsTransparent,
           Hook!InModule
  <1> QED
    BY <1>1, CallbackInvariant, PTL

\* Every variable of the four modules keeps its type; in particular no
\* counter of mynet_drv.c leaves the range of the packets sent.
THEOREM CallbackTypeCorrect == CallbackSpec => []CallbackTypeOK
  <1>1. TimerInv => Timer!TypeOK
    BY DEF TimerInv, Timer!TypeOK, Timer!ClockTypeOK
  <1>2. HookInv => Hook!TypeOK
    BY DEF HookInv, Hook!TypeOK
  <1>3. CallbackInv => CallbackTypeOK
    BY <1>1, <1>2 DEF CallbackInv, CountInv, DrvInv, CallbackTypeOK
  <1> QED
    BY <1>3, CallbackInvariant, PTL

\* The statistics of mynet_drv.c account for every packet, however the
\* processors interleave and whenever the backlogs overflow.
THEOREM StatisticsExact == CallbackSpec => []PacketsAccounted
  <1>1. CallbackInv => PacketsAccounted
    BY DEF CallbackInv, CountInv, PacketsAccounted
  <1> QED
    BY <1>1, CallbackInvariant, PTL

\* For any number of writers and writes, my_timer of timer_drv.c rings once
\* for each write, as long as every write waits for the timer of the one
\* before; no number is ahead of its write, and each is exact as long as every
\* write also waits until the one before has returned.
THEOREM PatientWritersRing == CallbackSpec => []RingsForEveryWrite
  <1>1. CallbackInv => RingsForEveryWrite
    <2> SUFFICES ASSUME CallbackInv, ~hasty
                 PROVE  /\ drvLoaded # "broken"
                        /\ Len(rung) = writes
                             - (IF drvPending \/ Drv!Setting # {} THEN 1 ELSE 0)
                        /\ \A i \in DOMAIN rung :
                             /\ 100 <= rung[i] /\ rung[i] <= 90 + 10 * i
                             /\ ~crowded => rung[i] = 90 + 10 * i
      BY DEF RingsForEveryWrite, Drv!RingsForEveryWrite
    <2>1. PatientInv /\ rung \in Seq(Drv!Numbers)
      BY DEF CallbackInv, DrvInv, Drv!TypeOK
    <2>2. DOMAIN rung = 1 .. Len(rung)
      BY <2>1, LenProperties
    <2> QED
      BY <2>1, <2>2, Zenon DEF PatientInv, NumberOf
  <1> QED
    BY <1>1, CallbackInvariant, PTL
=============================================================================
