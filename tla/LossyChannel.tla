---------------------------- MODULE LossyChannel ----------------------------
(***************************************************************************)
(* What the network stack may rely on when it sends through a device that  *)
(* loops back: packets travel in lanes, one per processor.  A packet that  *)
(* arrives was sent, arrives once, and arrives after the packets that were *)
(* sent before it in the same lane; any packet on its way may be lost.     *)
(***************************************************************************)
EXTENDS Naturals, Sequences, SequencesExt

CONSTANTS Lanes, MaxPackets

VARIABLES
  sent,        \* packets are numbered as they are sent
  lanes,       \* the packets on their way, per lane
  arrived      \* the latest packet that has arrived, per lane, or 0

vars == <<sent, lanes, arrived>>

Init ==
  /\ sent = 0
  /\ lanes = [l \in Lanes |-> <<>>]
  /\ arrived = [l \in Lanes |-> 0]

Send(l) ==
  /\ sent < MaxPackets
  /\ sent' = sent + 1
  /\ lanes' = [lanes EXCEPT ![l] = Append(@, sent')]
  /\ UNCHANGED arrived

Arrive(l) ==
  /\ lanes[l] # <<>>
  /\ arrived' = [arrived EXCEPT ![l] = Head(lanes[l])]
  /\ lanes' = [lanes EXCEPT ![l] = Tail(@)]
  /\ UNCHANGED sent

\* The latest packet finds no room, or all go with the device.
Lose(l) ==
  /\ lanes[l] # <<>>
  /\ lanes' = [lanes EXCEPT ![l] = Front(@)]
  /\ UNCHANGED <<sent, arrived>>

LoseAll ==
  /\ lanes' = [l \in Lanes |-> <<>>]
  /\ UNCHANGED <<sent, arrived>>

Next == LoseAll \/ \E l \in Lanes : Send(l) \/ Arrive(l) \/ Lose(l)

Spec == Init /\ [][Next]_vars
=============================================================================
