------------------------------- MODULE NetDev -------------------------------
(***************************************************************************)
(* networking/mynet_drv.c: a network device that hands every packet it is  *)
(* to transmit back to the stack.                                          *)
(*                                                                         *)
(* External, as the code uses it: the stack calls my_hard_start_xmit() for *)
(* one packet at a time (transmit lock), on any processor, and only while  *)
(* the device is up and its queue started; netif_rx() puts a packet into   *)
(* the backlog of that processor or drops it when the backlog is full, and *)
(* the processor's softirq takes them out; my_close() and                  *)
(* unregister_netdev() wait for a transmission that is going on, and the   *)
(* latter drops what is left in the backlogs.                              *)
(***************************************************************************)
EXTENDS Naturals, Sequences, FiniteSets

CONSTANTS
  Cpus, NoCpu,
  BacklogMax,  \* netdev_max_backlog
  MaxPackets   \* bound: packets that are transmitted

NetAssumption ==
  /\ IsFiniteSet(Cpus) /\ NoCpu \notin Cpus
  /\ BacklogMax \in Nat /\ MaxPackets \in Nat

VARIABLES
  dev,         \* "none", "registered", "unregistered", "oops"
  started,     \* the transmit queue is started
  backlog,     \* packets on their way up, per processor
  xmit,        \* the processor in my_hard_start_xmit(), or NoCpu
  pc,          \* where it is: "idle", "counted", "received"
  tx_packets, rx_packets,
  sent,        \* history: packets are numbered as they are transmitted
  arrived,     \* history: the latest packet that arrived, per processor
  up           \* history: packets that arrived since the device was set up

stats == <<tx_packets, rx_packets>>
vars  == <<dev, started, backlog, xmit, pc, stats, sent, arrived, up>>

TypeOK ==
  /\ dev \in {"none", "registered", "unregistered", "oops"}
  /\ started \in BOOLEAN
  /\ backlog \in [Cpus -> Seq(1 .. MaxPackets)]
  /\ \A c \in Cpus : Len(backlog[c]) <= BacklogMax
  /\ xmit \in Cpus \cup {NoCpu}
  /\ pc \in {"idle", "counted", "received"}
  /\ tx_packets \in 0 .. MaxPackets /\ rx_packets \in 0 .. MaxPackets
  /\ sent \in 0 .. MaxPackets
  /\ arrived \in [Cpus -> 0 .. MaxPackets]
  /\ up \in [came : 0 .. MaxPackets, lost : 0 .. MaxPackets]

Empty == [c \in Cpus |-> <<>>]

Init ==
  /\ dev = "none" /\ started = FALSE
  /\ backlog = Empty
  /\ xmit = NoCpu /\ pc = "idle"
  /\ tx_packets = 0 /\ rx_packets = 0
  /\ sent = 0 /\ arrived = [c \in Cpus |-> 0]
  /\ up = [came |-> 0, lost |-> 0]

---------------------------------------------------------------------------
\* my_init(): alloc_netdev() with my_setup(), which makes stats those of
\* the new device, and register_netdev(); or it fails and leaves nothing;
\* or alloc_netdev() fails, at which my_init() does not look.
my_init ==
  /\ dev = "none"
  /\ dev' = "registered"
  /\ tx_packets' = 0 /\ rx_packets' = 0
  /\ up' = [came |-> 0, lost |-> 0]
  /\ UNCHANGED <<started, backlog, xmit, pc, sent, arrived>>

my_init_oops ==
  /\ dev = "none"
  /\ dev' = "oops"
  /\ UNCHANGED <<started, backlog, xmit, pc, stats, sent, arrived, up>>

my_open ==
  /\ dev = "registered" /\ ~started
  /\ started' = TRUE
  /\ UNCHANGED <<dev, backlog, xmit, pc, stats, sent, arrived, up>>

my_close ==
  /\ dev = "registered" /\ started /\ pc = "idle"
  /\ started' = FALSE
  /\ UNCHANGED <<dev, backlog, xmit, pc, stats, sent, arrived, up>>

\* The places of the backlogs that are taken, and their number.
Taken   == {p \in Cpus \X (1 .. BacklogMax) : p[2] <= Len(backlog[p[1]])}
Waiting == Cardinality(Taken)

\* my_exit(): unregister_netdev(), which closes the device, ...
unregister_netdev ==
  /\ dev = "registered" /\ pc = "idle"
  /\ dev' = "unregistered" /\ started' = FALSE
  /\ backlog' = Empty
  /\ up' = [up EXCEPT !.lost = @ + Waiting]
  /\ UNCHANGED <<xmit, pc, stats, sent, arrived>>

\* Mutant: the device is freed without being unregistered.
free_netdev_First ==
  /\ dev = "registered"
  /\ dev' = "none"
  /\ UNCHANGED <<started, backlog, xmit, pc, stats, sent, arrived, up>>

\* ... and free_netdev().
free_netdev ==
  /\ dev = "unregistered"
  /\ dev' = "none"
  /\ UNCHANGED <<started, backlog, xmit, pc, stats, sent, arrived, up>>

---------------------------------------------------------------------------
\* my_hard_start_xmit(): ++stats->tx_packets, ...
my_hard_start_xmit(c) ==
  /\ started /\ pc = "idle" /\ sent < MaxPackets
  /\ xmit' = c /\ pc' = "counted"
  /\ sent' = sent + 1
  /\ tx_packets' = tx_packets + 1
  /\ UNCHANGED <<dev, started, backlog, rx_packets, arrived, up>>

\* Mutant: my_rx() counts only packets that netif_rx() has room for.
my_rx_IfRoom ==
  /\ pc = "counted"
  /\ pc' = "received"
  /\ rx_packets' = IF Len(backlog[xmit]) < BacklogMax THEN rx_packets + 1
                                                     ELSE rx_packets
  /\ UNCHANGED <<dev, started, backlog, xmit, tx_packets, sent, arrived, up>>

\* ... my_rx(): ++stats->rx_packets, ...
my_rx ==
  /\ pc = "counted"
  /\ pc' = "received"
  /\ rx_packets' = rx_packets + 1
  /\ UNCHANGED <<dev, started, backlog, xmit, tx_packets, sent, arrived, up>>

\* Mutant: the packet is looped back twice.
netif_rx_Twice ==
  /\ pc = "received"
  /\ pc' = "idle" /\ xmit' = NoCpu
  /\ Len(backlog[xmit]) + 1 < BacklogMax
  /\ backlog' = [backlog EXCEPT ![xmit] = @ \o <<sent, sent>>]
  /\ UNCHANGED <<dev, started, stats, sent, arrived, up>>

\* ... and netif_rx(), whose result nobody looks at.
netif_rx ==
  /\ pc = "received"
  /\ pc' = "idle" /\ xmit' = NoCpu
  /\ IF Len(backlog[xmit]) < BacklogMax
     THEN /\ backlog' = [backlog EXCEPT ![xmit] = Append(@, sent)]
          /\ UNCHANGED up
     ELSE /\ up' = [up EXCEPT !.lost = @ + 1]
          /\ UNCHANGED backlog
  /\ UNCHANGED <<dev, started, stats, sent, arrived>>

\* The receive softirq of a processor.
net_rx_action(c) ==
  /\ backlog[c] # <<>>
  /\ arrived' = [arrived EXCEPT ![c] = Head(backlog[c])]
  /\ backlog' = [backlog EXCEPT ![c] = Tail(@)]
  /\ up' = [up EXCEPT !.came = @ + 1]
  /\ UNCHANGED <<dev, started, xmit, pc, stats, sent>>

---------------------------------------------------------------------------
Next ==
  \/ my_init \/ my_init_oops \/ unregister_netdev \/ free_netdev
  \/ my_open \/ my_close
  \/ my_rx \/ netif_rx
  \/ \E c \in Cpus : my_hard_start_xmit(c) \/ net_rx_action(c)

Spec == Init /\ [][Next]_vars

---------------------------------------------------------------------------
OnItsWay(c) == backlog[c] \o (IF xmit = c THEN <<sent>> ELSE <<>>)

Channel == INSTANCE LossyChannel WITH
             Lanes <- Cpus, lanes <- [c \in Cpus |-> OnItsWay(c)]

(***************************************************************************)
(* my_hard_start_xmit() on several processors, my_rx() and the opening,    *)
(* closing and unloading of the device in between make a channel that      *)
(* loses packets, but never invents or repeats one and keeps those of one  *)
(* processor in order.                                                     *)
(***************************************************************************)
ImplementsChannel == Channel!Spec

(***************************************************************************)
(* The statistics: what was transmitted has been counted as received, also *)
(* if netif_rx() has dropped it, except for the one packet between the two *)
(* increments; and what was counted as received has arrived, is waiting or *)
(* is lost.                                                                *)
(***************************************************************************)
PacketsAccounted ==
  dev = "registered" =>
    /\ tx_packets = rx_packets + (IF pc = "counted" THEN 1 ELSE 0)
    /\ rx_packets = up.came + up.lost + Waiting
                      + (IF pc = "received" THEN 1 ELSE 0)

(***************************************************************************)
(* When my_exit() has freed the device no transmission is going on and no  *)
(* packet in a backlog refers to it.                                       *)
(***************************************************************************)
FreedIsUnused == dev = "none" => pc = "idle" /\ backlog = Empty
=============================================================================
