----------------------------- MODULE ProcParam -----------------------------
(***************************************************************************)
(* Integer parameters as files of /proc, filesystem/my_new_proc.c (two     *)
(* nodes in a directory) and filesystem/my_proc.c (one node).  A read      *)
(* formats the parameter anew and uses the file offset only to tell        *)
(* whether the reader has already had it.                                  *)
(*                                                                         *)
(* A value is what "%d\n" makes of it: strlen[v] characters.  A reader     *)
(* opens the node, reads until it gets 0 or an error, and closes it.       *)
(*                                                                         *)
(* External, as the code uses it: a file whose node was removed gives an   *)
(* error; copy_to_user() may stop short (fault).  sscanf() of a text that  *)
(* is not terminated, as str is not, may find any number or none.          *)
(***************************************************************************)
EXTENDS Naturals, Sequences

CONSTANTS
  Nodes,       \* nodes, each with its parameter
  Readers,     \* readers of a node
  Values,      \* values of the parameters
  Initial,     \* the initial value of each parameter
  strlen       \* the length of the text of a value

ParamAssumption ==
  /\ Nodes # {} /\ Initial \in [Nodes -> Values]
  /\ strlen \in [Values -> 2 .. 12]                \* "0\n" .. "-2147483648\n"

VARIABLES
  created,     \* nodes that exist
  loaded,      \* the module is loaded
  param,       \* param_1, param_2
  pc,          \* "closed", "open", "orphan" (open, but the node is removed) or
               \* "ended" (the latest read was the last one)
  node,        \* the node each reader has opened
  offset,      \* its file offset
  got,         \* history: the latest values it has read, two at most
  fault,       \* history: one of its copies stopped short
  first,       \* history: the parameter when it opened the node
  stable       \* history: the parameter was not written to since

readerVars == <<pc, node, offset, got, fault, first>>
vars == <<created, loaded, param, readerVars, stable>>

TypeOK ==
  /\ created \subseteq Nodes
  /\ loaded \in BOOLEAN
  /\ param \in [Nodes -> Values]
  /\ pc \in [Readers -> {"closed", "open", "orphan", "ended"}]
  /\ node \in [Readers -> Nodes]
  /\ offset \in [Readers -> 0 .. 13]
  /\ got \in [Readers -> Seq(Values)]
  /\ fault \in [Readers -> BOOLEAN]
  /\ first \in [Readers -> Values]
  /\ stable \in [Readers -> BOOLEAN]

Init ==
  /\ created = {} /\ loaded = FALSE
  /\ param = Initial
  /\ pc = [r \in Readers |-> "closed"]
  /\ node = [r \in Readers |-> CHOOSE n \in Nodes : TRUE]
  /\ offset = [r \in Readers |-> 0]
  /\ got = [r \in Readers |-> <<>>]
  /\ fault = [r \in Readers |-> FALSE]
  /\ first = [r \in Readers |-> Initial[node[r]]]
  /\ stable = [r \in Readers |-> TRUE]

---------------------------------------------------------------------------
\* my_init() of my_new_proc.c does not look at what it gets.
my_init ==
  /\ ~loaded
  /\ loaded' = TRUE
  /\ created' \in SUBSET Nodes
  /\ param' = Initial
  /\ UNCHANGED <<readerVars, stable>>

\* remove_proc_entry() of every node; the files stay open.
my_exit ==
  /\ loaded
  /\ loaded' = FALSE /\ created' = {}
  /\ pc' = [r \in Readers |-> IF pc[r] = "open" THEN "orphan" ELSE pc[r]]
  /\ UNCHANGED <<param, node, offset, got, fault, first, stable>>

open(r, n) ==
  /\ pc[r] = "closed" /\ n \in created
  /\ pc' = [pc EXCEPT ![r] = "open"]
  /\ node' = [node EXCEPT ![r] = n]
  /\ offset' = [offset EXCEPT ![r] = 0]
  /\ got' = [got EXCEPT ![r] = <<>>]
  /\ fault' = [fault EXCEPT ![r] = FALSE]
  /\ first' = [first EXCEPT ![r] = param[n]]
  /\ stable' = [stable EXCEPT ![r] = TRUE]
  /\ UNCHANGED <<created, loaded, param>>

\* Mutant: the comparison is turned round.
AtEnd_Inverted(off, v) == off < strlen[v]

\* *offset > strlen(mydata)
AtEnd(off, v) == off > strlen[v]

\* Mutant: the offset is left alone.
NextOffset_Same(off, v) == off

NextOffset(off, v) == strlen[v] + 1

LastTwo(s) == IF Len(s) > 2 THEN Tail(s) ELSE s

\* my_proc_read() of an open node: 0 at the end, ...
my_proc_read_end(r) ==
  /\ pc[r] = "open"
  /\ AtEnd(offset[r], param[node[r]])
  /\ pc' = [pc EXCEPT ![r] = "ended"]
  /\ UNCHANGED <<created, loaded, param, node, offset, got, fault, first,
                 stable>>

\* ... or the text of the parameter, or a part of it, which may be nothing.
my_proc_read(r) ==
  /\ pc[r] = "open"
  /\ LET v == param[node[r]] IN
       /\ ~AtEnd(offset[r], v)
       /\ offset' = [offset EXCEPT ![r] = NextOffset(offset[r], v)]
       /\ \/ /\ got' = [got EXCEPT ![r] = LastTwo(Append(@, v))]
             /\ UNCHANGED <<pc, fault>>
          \/ /\ fault' = [fault EXCEPT ![r] = TRUE]
             /\ pc' \in {pc, [pc EXCEPT ![r] = "ended"]}
             /\ UNCHANGED got
  /\ UNCHANGED <<created, loaded, param, node, first, stable>>

\* The node is gone.
read_error(r) ==
  /\ pc[r] = "orphan"
  /\ pc' = [pc EXCEPT ![r] = "ended"]
  /\ stable' = [stable EXCEPT ![r] = FALSE]
  /\ UNCHANGED <<created, loaded, param, node, offset, got, fault, first>>

close(r) ==
  /\ pc[r] = "ended"
  /\ pc' = [pc EXCEPT ![r] = "closed"]
  /\ UNCHANGED <<created, loaded, param, node, offset, got, fault, first,
                 stable>>

\* my_proc_write(); a write that fails with -EFAULT changes nothing.
my_proc_write(n) ==
  /\ n \in created
  /\ \E v \in Values : param' = [param EXCEPT ![n] = v]
  /\ stable' = [r \in Readers |-> stable[r] /\ node[r] # n]
  /\ UNCHANGED <<created, loaded, readerVars>>

---------------------------------------------------------------------------
Read(r) == my_proc_read(r) \/ my_proc_read_end(r) \/ read_error(r)

Next ==
  \/ my_init \/ my_exit
  \/ \E n \in Nodes : my_proc_write(n)
  \/ \E r \in Readers :
       Read(r) \/ close(r) \/ \E n \in Nodes : open(r, n)

Spec == Init /\ [][Next]_vars

\* A reader goes on reading until it is told to stop.
Fairness == \A r \in Readers : WF_vars(Read(r))

---------------------------------------------------------------------------
(***************************************************************************)
(* A reader that is told it is at the end, while nobody wrote to its node  *)
(* and nothing failed, has had the value of that parameter exactly once.   *)
(***************************************************************************)
ReadOnce ==
  \A r \in Readers :
    pc[r] = "ended" /\ stable[r] /\ ~fault[r] => got[r] = <<first[r]>>

(***************************************************************************)
(* Reading comes to an end, however often the parameters are written to: a *)
(* reader gets a value again that has meanwhile become longer, but only    *)
(* then, so that writers cannot make it read for ever.                     *)
(***************************************************************************)
ReadingEnds == \A r \in Readers : pc[r] \in {"open", "orphan"} ~> pc[r] = "ended"
=============================================================================
