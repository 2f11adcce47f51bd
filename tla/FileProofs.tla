----------------------------- MODULE FileProofs -----------------------------
(***************************************************************************)
(* Proofs about the modules that processes use through files, the nodes of *)
(* /proc and the Morse device, for every number of processes that read or  *)
(* write, and for every value, task and text.                              *)
(***************************************************************************)
EXTENDS ProcNodes, Morse, SequenceTheorems, FiniteSetTheorems, TLAPS

---------------------------------------------------------------------------
(***************************************************************************)
(* ProcParam.  An undisturbed reader has either had nothing yet, and is at *)
(* the beginning, or the value, and is behind it; and a node that is open  *)
(* belongs to a module that is loaded, so that loading, which resets the   *)
(* parameters, disturbs nobody.                                            *)
(***************************************************************************)
Undisturbed(r) == stable[r] /\ ~fault[r]

ReaderInv(r) ==
  /\ parPc[r] = "open" =>
       /\ param[node[r]] = first[r]
       /\ \/ offset[r] = 0 /\ got[r] = <<>>
          \/ offset[r] = strlen[first[r]] + 1 /\ got[r] = <<first[r]>>
  /\ parPc[r] = "ended" => got[r] = <<first[r]>>

ParInv ==
  /\ Par!TypeOK
  /\ ~parLoaded => created = {} /\ \A r \in Readers : parPc[r] # "open"
  /\ \A r \in Readers : Undisturbed(r) => ReaderInv(r)

LEMMA ParInit == ASSUME Par!ParamAssumption, Par!Init PROVE ParInv
  <1>1. (CHOOSE n \in Nodes : TRUE) \in Nodes
    BY DEF Par!ParamAssumption
  <1>2. Par!TypeOK
    <2>1. got \in [Readers -> Seq(Values)]
      BY EmptySeq DEF Par!Init
    <2>2. node \in [Readers -> Nodes] /\ first \in [Readers -> Values]
      BY <1>1 DEF Par!Init, Par!ParamAssumption
    <2>3. offset \in [Readers -> 0 .. 13]
      BY DEF Par!Init
    <2>4. param \in [Nodes -> Values] /\ created \subseteq Nodes
      BY DEF Par!Init, Par!ParamAssumption
    <2> QED
      BY <2>1, <2>2, <2>3, <2>4, Zenon DEF Par!Init, Par!TypeOK
  <1> QED
    BY <1>2 DEF Par!Init, ParInv, ReaderInv

LEMMA StrlenIs ==
  ASSUME Par!ParamAssumption, NEW v \in Values
  PROVE  strlen[v] \in Nat /\ strlen[v] > 0 /\ strlen[v] + 1 \in 0 .. 13
  BY DEF Par!ParamAssumption

LEMMA ParModuleSteps ==
  ASSUME Par!ParamAssumption, ParInv,
         Par!my_init \/ Par!my_exit \/ \E n \in Nodes : Par!my_proc_write(n)
  PROVE  ParInv'
  <1> USE DEF ParInv, Par!TypeOK
  <1>1. CASE Par!my_init
    <2>1. \A r \in Readers : parPc[r] # "open"
      BY <1>1 DEF Par!my_init
    <2>2. Par!TypeOK'
      BY <1>1 DEF Par!my_init, Par!readerVars, Par!ParamAssumption
    <2> QED
      BY <1>1, <2>1, <2>2 DEF Par!my_init, Par!readerVars, Undisturbed, ReaderInv
  <1>2. CASE Par!my_exit
    BY <1>2 DEF Par!my_exit, Undisturbed, ReaderInv
  <1>3. ASSUME NEW n \in Nodes, Par!my_proc_write(n) PROVE ParInv'
    <2>1. PICK v \in Values : param' = [param EXCEPT ![n] = v]
      BY <1>3 DEF Par!my_proc_write
    <2>2. /\ n \in created /\ stable' = [r \in Readers |-> stable[r] /\ node[r] # n]
          /\ UNCHANGED <<created, parLoaded, parPc, node, offset, got, fault, first>>
      BY <1>3 DEF Par!my_proc_write, Par!readerVars
    <2>3. Par!TypeOK'
      BY <2>1, <2>2
    <2>4. ASSUME NEW r \in Readers, Undisturbed(r)' PROVE ReaderInv(r)'
      <3>1. Undisturbed(r) /\ node[r] # n
        BY <2>2, <2>4 DEF Undisturbed
      <3> QED
        BY <2>1, <2>2, <3>1 DEF ReaderInv
    <2> QED
      BY <2>2, <2>3, <2>4
  <1> QED
    BY <1>1, <1>2, <1>3

LEMMA ParReaderSteps ==
  ASSUME Par!ParamAssumption, ParInv, NEW r \in Readers,
         Par!Read(r) \/ Par!close(r) \/ \E n \in Nodes : Par!open(r, n)
  PROVE  ParInv'
  <1> USE DEF ParInv, Par!TypeOK
  <1>1. ASSUME NEW n \in Nodes, Par!open(r, n) PROVE ParInv'
    <2>1. Par!TypeOK'
      <3>1. got' \in [Readers -> Seq(Values)]
        BY <1>1, EmptySeq DEF Par!open
      <3> QED
        BY <1>1, <3>1 DEF Par!open
    <2> QED
      BY <1>1, <2>1 DEF Par!open, Undisturbed, ReaderInv
  <1>2. CASE Par!my_proc_read_end(r)
    <2>1. Par!TypeOK'
      BY <1>2 DEF Par!my_proc_read_end
    <2>2. ASSUME Undisturbed(r) PROVE got[r] = <<first[r]>>
      <3>1. ~(offset[r] = 0)
        BY <1>2, StrlenIs DEF Par!my_proc_read_end, Par!AtEnd
      <3> QED
        BY <1>2, <2>2, <3>1 DEF ReaderInv, Par!my_proc_read_end
    <2> QED
      BY <1>2, <2>1, <2>2 DEF Par!my_proc_read_end, Undisturbed, ReaderInv
  <1>3. CASE Par!my_proc_read(r)
    <2> DEFINE v == param[node[r]]
    <2>1. /\ parPc[r] = "open" /\ ~Par!AtEnd(offset[r], v)
          /\ offset' = [offset EXCEPT ![r] = strlen[v] + 1]
          /\ \/ /\ got' = [got EXCEPT ![r] = Par!LastTwo(Append(@, v))]
                /\ UNCHANGED <<parPc, fault>>
             \/ /\ fault' = [fault EXCEPT ![r] = TRUE]
                /\ parPc' \in {parPc, [parPc EXCEPT ![r] = "ended"]}
                /\ UNCHANGED got
          /\ UNCHANGED <<created, parLoaded, param, node, first, stable>>
      BY <1>3 DEF Par!my_proc_read, Par!NextOffset
    <2>2. v \in Values /\ strlen[v] + 1 \in 0 .. 13
      BY StrlenIs
    <2>3. Par!LastTwo(Append(got[r], v)) \in Seq(Values)
      <3>1. Append(got[r], v) \in Seq(Values)
        BY <2>2
      <3>2. ASSUME NEW s \in Seq(Values) PROVE Par!LastTwo(s) \in Seq(Values)
        <4>1. Len(s) > 2 => s # <<>>
          BY EmptySeq
        <4> QED
          BY <4>1, HeadTailProperties DEF Par!LastTwo
      <3> QED
        BY <3>1, <3>2
    <2>4. Par!TypeOK'
      <3>1. got' \in [Readers -> Seq(Values)]
        BY <2>1, <2>3
      <3>2. offset' \in [Readers -> 0 .. 13]
        BY <2>1, <2>2
      <3> HIDE DEF v
      <3> QED
        BY <2>1, <3>1, <3>2
    <2>5. ASSUME NEW q \in Readers, Undisturbed(q)' PROVE ReaderInv(q)'
      <3>1. CASE q # r
        BY <2>1, <2>5, <3>1 DEF Undisturbed, ReaderInv
      <3>2. CASE q = r
        <4>1. /\ got' = [got EXCEPT ![r] = Par!LastTwo(Append(@, v))]
              /\ UNCHANGED <<parPc, fault>>
          BY <2>1, <2>5, <3>2 DEF Undisturbed
        <4>2. Undisturbed(r)
          BY <2>1, <2>5, <3>2, <4>1 DEF Undisturbed
        <4>3. v = first[r] /\ got[r] = <<>>
          BY <2>1, <2>2, <4>2, StrlenIs DEF ReaderInv, Par!AtEnd
        <4>4. Par!LastTwo(Append(<<>>, v)) = <<v>>
          BY DEF Par!LastTwo
        <4>5. got'[r] = <<first[r]>>
          BY <4>1, <4>3, <4>4
        <4> QED
          BY <2>1, <3>2, <4>1, <4>3, <4>5 DEF ReaderInv
      <3> QED
        BY <3>1, <3>2
    <2> QED
      BY <2>1, <2>4, <2>5
  <1>4. CASE Par!read_error(r)
    BY <1>4 DEF Par!read_error, Undisturbed, ReaderInv
  <1>5. CASE Par!close(r)
    BY <1>5 DEF Par!close, Undisturbed, ReaderInv
  <1> QED
    BY <1>1, <1>2, <1>3, <1>4, <1>5 DEF Par!Read

LEMMA ParStep ==
  ASSUME Par!ParamAssumption, ParInv, [Par!Next]_(Par!vars) PROVE ParInv'
  <1>1. CASE UNCHANGED Par!vars
    BY <1>1 DEF Par!vars, Par!readerVars, ParInv, Par!TypeOK, Undisturbed,
                ReaderInv
  <1> QED
    BY <1>1, ParModuleSteps, ParReaderSteps DEF Par!Next

---------------------------------------------------------------------------
(***************************************************************************)
(* SigProc.  A write that has met no other is the only one.  A writer that *)
(* chooses undisturbed is the only one that chooses, and what it has       *)
(* loaded or found is of the sig_pid that is there, so that its last store *)
(* makes sig_tsk what sig_pid names, or NULL; if no choice since then was  *)
(* disturbed that is so whenever nobody chooses.  And a writer of "signal" *)
(* that is alone has seen to it that sig_tsk is not NULL when it prints.   *)
(***************************************************************************)
AloneInv == \A w \in SigWriters \ overlapped : w \in Sig!Busy => Sig!Busy = {w}

Sole(w) ==
  /\ Sig!Choosing = {w}
  /\ sigPc[w] = "find" => tsk[w] = sig_pid
  /\ sigPc[w] = "store" => tsk[w] \in {NoTask, sig_pid}
  /\ sigPc[w] = "pid" => sig_tsk = w

ChoiceInv ==
  /\ disturbed \subseteq Sig!Choosing \cap overlapped
  /\ settled => disturbed = {}
  /\ \A w \in Sig!Choosing \ disturbed : Sole(w)
  /\ settled /\ Sig!Choosing = {} => sig_tsk \in {NoTask, sig_pid}

PrintInv ==
  \A w \in SigWriters \ overlapped :
    /\ sigPc[w] \in {"print", "send"} => sig_tsk # NoTask
    /\ sigPc[w] = "send" => named[w] = sig_pid

SigInv ==
  /\ Sig!TypeOK
  /\ nodes = {} => Sig!Busy = {}
  /\ AloneInv
  /\ ChoiceInv
  /\ PrintInv

ChoicePlaces == {"lookup", "find", "store", "tsk", "pid"}

\* Where the writers are after one of them has moved.
LEMMA SigMoves ==
  ASSUME Sig!TypeOK, NEW w \in SigWriters, NEW from \in Sig!Places,
         NEW to \in Sig!Places, Sig!Goto(w, from, to)
  PROVE  /\ sigPc[w] = from /\ sigPc' = [sigPc EXCEPT ![w] = to]
         /\ sigPc' \in [SigWriters -> Sig!Places]
         /\ sigPc'[w] = to /\ \A v \in SigWriters : v # w => sigPc'[v] = sigPc[v]
         /\ w \in Sig!Busy <=> from # "idle"
         /\ Sig!Busy' = IF to = "idle" THEN Sig!Busy \ {w} ELSE Sig!Busy \cup {w}
         /\ w \in Sig!Choosing <=> from \in ChoicePlaces
         /\ Sig!Choosing' = IF to \in ChoicePlaces THEN Sig!Choosing \cup {w}
                                                   ELSE Sig!Choosing \ {w}
         /\ Sig!Choosing \subseteq Sig!Busy
  <1>1. /\ sigPc[w] = from /\ sigPc' = [sigPc EXCEPT ![w] = to]
        /\ sigPc' \in [SigWriters -> Sig!Places]
        /\ sigPc'[w] = to /\ \A v \in SigWriters : v # w => sigPc'[v] = sigPc[v]
    BY DEF Sig!TypeOK, Sig!Goto
  <1>2. /\ w \in Sig!Busy <=> from # "idle"
        /\ Sig!Busy' = IF to = "idle" THEN Sig!Busy \ {w} ELSE Sig!Busy \cup {w}
    BY <1>1 DEF Sig!Busy
  <1>3. /\ w \in Sig!Choosing <=> from \in ChoicePlaces
        /\ Sig!Choosing' = IF to \in ChoicePlaces THEN Sig!Choosing \cup {w}
                                                  ELSE Sig!Choosing \ {w}
        /\ Sig!Choosing \subseteq Sig!Busy
    BY <1>1 DEF Sig!Choosing, Sig!Busy, ChoicePlaces
  <1> QED
    BY <1>1, <1>2, <1>3

LEMMA SigInit == ASSUME Sig!TaskAssumption, Sig!Init PROVE SigInv
  BY DEF Sig!Init, SigInv, Sig!TypeOK, Sig!Places, Sig!Processes, Sig!Busy,
         Sig!Choosing, AloneInv, ChoiceInv, PrintInv

LEMMA SigOutsideSteps ==
  ASSUME Sig!TaskAssumption, SigInv,
         Sig!my_init \/ Sig!my_exit \/ (\E q \in Targets : Sig!exit(q))
           \/ UNCHANGED Sig!vars
  PROVE  SigInv'
  <1>1. CASE Sig!my_init
    <2>1. /\ UNCHANGED <<alive, sigPc, tsk, named, overlapped, disturbed>>
          /\ sig_pid' = NoTask /\ sig_tsk' = NoTask /\ settled' = TRUE
          /\ nodes = {} /\ nodes' \subseteq {"dir", "pid", "signal"}
      BY <1>1 DEF Sig!my_init
    <2>2. /\ Sig!Busy = {} /\ Sig!Busy' = {}
          /\ Sig!Choosing = {} /\ Sig!Choosing' = {}
      BY <2>1 DEF SigInv, Sig!Busy, Sig!Choosing
    <2>3. Sig!TypeOK'
      BY <2>1 DEF SigInv, Sig!TypeOK
    <2>4. \A w \in SigWriters : sigPc'[w] = "idle"
      BY <2>2 DEF Sig!Busy
    <2> QED
      BY <2>1, <2>2, <2>3, <2>4 DEF SigInv, AloneInv, ChoiceInv, PrintInv
  <1>2. CASE \/ Sig!my_exit \/ (\E q \in Targets : Sig!exit(q))
             \/ UNCHANGED Sig!vars
    <2>1. /\ UNCHANGED <<sig_pid, sig_tsk, sigPc, tsk, named, overlapped,
                         disturbed, settled>>
          /\ alive' \subseteq alive
          /\ nodes' = nodes \/ (nodes' = {} /\ Sig!Busy = {})
      BY <1>2 DEF Sig!my_exit, Sig!exit, Sig!vars, Sig!history
    <2>2. Sig!Busy' = Sig!Busy /\ Sig!Choosing' = Sig!Choosing
      BY <2>1 DEF Sig!Busy, Sig!Choosing
    <2>3. Sig!TypeOK'
      BY <2>1 DEF SigInv, Sig!TypeOK
    <2> QED
      BY <2>1, <2>2, <2>3 DEF SigInv, AloneInv, ChoiceInv, PrintInv, Sole
  <1> QED
    BY <1>1, <1>2

\* What the history says after a choice has begun.
LEMMA ChoiceStarts ==
  ASSUME Sig!TypeOK, ChoiceInv, NEW w \in SigWriters, w \notin Sig!Choosing,
         Sig!StartsChoice(w), Sig!Choosing' = Sig!Choosing \cup {w},
         Sig!Choosing = {} \/ Sig!Choosing \cup {w} \subseteq overlapped',
         overlapped \subseteq overlapped', sigPc'[w] \in {"lookup", "tsk"}
  PROVE  ChoiceInv' /\ disturbed' \subseteq SigWriters /\ settled' \in BOOLEAN
  <1>1. CASE Sig!Choosing = {}
    <2>1. disturbed = {} /\ disturbed' = {} /\ Sig!Choosing' = {w}
      BY <1>1 DEF ChoiceInv, Sig!StartsChoice
    <2> QED
      BY <1>1, <2>1 DEF ChoiceInv, Sig!StartsChoice, Sole, Sig!TypeOK
  <1>2. CASE Sig!Choosing # {}
    <2>1. /\ disturbed' = disturbed \cup Sig!Choosing \cup {w}
          /\ settled' = FALSE
      BY <1>2 DEF Sig!StartsChoice, Sig!TypeOK
    <2>2. disturbed' = Sig!Choosing' /\ disturbed' \subseteq overlapped'
      BY <1>2, <2>1 DEF ChoiceInv
    <2> QED
      BY <2>1, <2>2 DEF ChoiceInv, Sig!Choosing
  <1> QED
    BY <1>1, <1>2

\* A write to "pid" begins.
LEMMA SigPidScanned ==
  ASSUME Sig!TaskAssumption, SigInv, NEW w \in SigWriters, Sig!pid_scanned(w)
  PROVE  SigInv'
  <1>a. Sig!TypeOK /\ AloneInv /\ ChoiceInv /\ PrintInv
    BY DEF SigInv
  <1>1. /\ Sig!Goto(w, "idle", "lookup") /\ Sig!StartsChoice(w)
        /\ nodes # {} /\ sig_pid' \in Sig!Processes \cup {NoTask}
        /\ overlapped' = IF Sig!Busy = {} THEN overlapped
                                          ELSE overlapped \cup Sig!Busy \cup {w}
        /\ UNCHANGED <<nodes, alive, sig_tsk, tsk, named>>
    BY DEF Sig!pid_scanned, Sig!Begins
  <1>2. /\ sigPc' \in [SigWriters -> Sig!Places] /\ sigPc'[w] = "lookup"
        /\ \A v \in SigWriters : v # w => sigPc'[v] = sigPc[v]
        /\ w \notin Sig!Busy /\ Sig!Busy' = Sig!Busy \cup {w}
        /\ w \notin Sig!Choosing /\ Sig!Choosing' = Sig!Choosing \cup {w}
        /\ Sig!Choosing \subseteq Sig!Busy
    BY <1>1, <1>a, SigMoves DEF Sig!Places, ChoicePlaces
  <1>3. ChoiceInv' /\ disturbed' \subseteq SigWriters /\ settled' \in BOOLEAN
    <2>1. /\ overlapped \subseteq overlapped'
          /\ Sig!Choosing = {} \/ Sig!Choosing \cup {w} \subseteq overlapped'
      BY <1>1, <1>2
    <2> QED
      BY <1>1, <1>2, <1>a, <2>1, ChoiceStarts
  <1>4. overlapped' \subseteq SigWriters
    BY <1>1, <1>a DEF Sig!TypeOK, Sig!Busy
  <1>5. Sig!TypeOK'
    BY <1>1, <1>2, <1>3, <1>4, <1>a DEF Sig!TypeOK
  <1>6. AloneInv'
    BY <1>1, <1>2 DEF AloneInv
  <1>7. PrintInv'
    <2>1. \A v \in SigWriters \ overlapped' : sigPc'[v] \notin {"print", "send"}
      BY <1>1, <1>2 DEF Sig!Busy
    <2> QED
      BY <2>1 DEF PrintInv
  <1> QED
    BY <1>1, <1>3, <1>5, <1>6, <1>7 DEF SigInv

\* A write to "signal" begins.
LEMMA SigSignalScanned ==
  ASSUME Sig!TaskAssumption, SigInv, NEW w \in SigWriters, Sig!signal_scanned(w)
  PROVE  SigInv'
  <1>a. Sig!TypeOK /\ AloneInv /\ ChoiceInv /\ PrintInv
    BY DEF SigInv
  <1>1. /\ Sig!Goto(w, "idle", "test") /\ nodes # {}
        /\ overlapped' = IF Sig!Busy = {} THEN overlapped
                                          ELSE overlapped \cup Sig!Busy \cup {w}
        /\ UNCHANGED <<nodes, alive, sig_pid, sig_tsk, tsk, named, disturbed,
                       settled>>
    BY DEF Sig!signal_scanned, Sig!Begins
  <1>2. /\ sigPc' \in [SigWriters -> Sig!Places] /\ sigPc'[w] = "test"
        /\ \A v \in SigWriters : v # w => sigPc'[v] = sigPc[v]
        /\ w \notin Sig!Busy /\ Sig!Busy' = Sig!Busy \cup {w}
        /\ w \notin Sig!Choosing /\ Sig!Choosing' = Sig!Choosing
    BY <1>1, <1>a, SigMoves DEF Sig!Places, ChoicePlaces
  <1>3. ChoiceInv'
    <2>1. \A v \in Sig!Choosing : v \in SigWriters /\ v # w
      BY <1>2 DEF Sig!Choosing
    <2> QED
      BY <1>1, <1>2, <1>a, <2>1 DEF ChoiceInv, Sole
  <1>4. overlapped' \subseteq SigWriters
    BY <1>1, <1>a DEF Sig!TypeOK, Sig!Busy
  <1>5. Sig!TypeOK'
    BY <1>1, <1>2, <1>4, <1>a DEF Sig!TypeOK
  <1>6. AloneInv'
    BY <1>1, <1>2 DEF AloneInv
  <1>7. PrintInv'
    <2>1. \A v \in SigWriters \ overlapped' : sigPc'[v] \notin {"print", "send"}
      BY <1>1, <1>2 DEF Sig!Busy
    <2> QED
      BY <2>1 DEF PrintInv
  <1> QED
    BY <1>1, <1>3, <1>5, <1>6, <1>7 DEF SigInv

\* A write to "signal" finds no task and begins to choose its writer.
LEMMA SigTestsNone ==
  ASSUME Sig!TaskAssumption, SigInv, NEW w \in SigWriters, Sig!signal_tests(w),
         sig_tsk = NoTask
  PROVE  SigInv'
  <1>a. Sig!TypeOK /\ AloneInv /\ ChoiceInv /\ PrintInv
    BY DEF SigInv
  <1>1. /\ Sig!Goto(w, "test", "tsk") /\ Sig!StartsChoice(w)
        /\ UNCHANGED <<nodes, alive, sig_pid, sig_tsk, tsk, named, overlapped>>
    BY DEF Sig!signal_tests
  <1>2. /\ sigPc' \in [SigWriters -> Sig!Places] /\ sigPc'[w] = "tsk"
        /\ \A v \in SigWriters : v # w => sigPc'[v] = sigPc[v]
        /\ w \in Sig!Busy /\ Sig!Busy' = Sig!Busy
        /\ w \notin Sig!Choosing /\ Sig!Choosing' = Sig!Choosing \cup {w}
        /\ Sig!Choosing \subseteq Sig!Busy
    BY <1>1, <1>a, SigMoves DEF Sig!Places, ChoicePlaces
  <1>3. ChoiceInv' /\ disturbed' \subseteq SigWriters /\ settled' \in BOOLEAN
    <2>1. Sig!Choosing = {} \/ Sig!Choosing \cup {w} \subseteq overlapped'
      <3>1. \A v \in Sig!Busy : v \in SigWriters
        BY DEF Sig!Busy
      <3> QED
        BY <1>1, <1>2, <1>a, <3>1 DEF AloneInv
    <2> QED
      BY <1>1, <1>2, <1>a, <2>1, ChoiceStarts
  <1>4. Sig!TypeOK'
    BY <1>1, <1>2, <1>3, <1>a DEF Sig!TypeOK
  <1>5. AloneInv' /\ PrintInv'
    BY <1>1, <1>2, <1>a DEF AloneInv, PrintInv
  <1> QED
    BY <1>1, <1>2, <1>3, <1>4, <1>5 DEF SigInv

\* A choice ends.
LEMMA SigEndsChoice ==
  ASSUME Sig!TaskAssumption, SigInv, NEW w \in SigWriters,
         Sig!pid_stores(w) \/ Sig!signal_stores_pid(w)
  PROVE  SigInv'
  <1>a. Sig!TypeOK /\ AloneInv /\ ChoiceInv /\ PrintInv
    BY DEF SigInv
  <1>b. w \in Sig!Processes /\ w # NoTask
    BY DEF Sig!Processes, Sig!TaskAssumption
  <1>1. PICK from \in {"store", "pid"}, to \in {"idle", "print"} :
          /\ Sig!Goto(w, from, to) /\ (from = "store" <=> to = "idle")
          /\ from = "store" => sig_tsk' = tsk[w] /\ UNCHANGED sig_pid
          /\ from = "pid" => sig_pid' = w /\ UNCHANGED <<sig_tsk, overlapped>>
    BY DEF Sig!pid_stores, Sig!signal_stores_pid
  <1>2. /\ disturbed' = disturbed \ {w} /\ settled' = (settled \/ w \notin disturbed)
        /\ overlapped' = overlapped \/ overlapped' = overlapped \ {w}
        /\ tsk' \in [SigWriters -> Sig!Processes \cup {NoTask}]
        /\ named' \in [SigWriters -> Sig!Processes \cup {NoTask}]
        /\ UNCHANGED <<nodes, alive>>
    BY <1>a DEF Sig!pid_stores, Sig!signal_stores_pid, Sig!EndsChoice, Sig!Returns,
                Sig!TypeOK
  <1>3. /\ sigPc' \in [SigWriters -> Sig!Places] /\ sigPc[w] = from
        /\ sigPc'[w] = to /\ \A v \in SigWriters : v # w => sigPc'[v] = sigPc[v]
        /\ w \in Sig!Busy
        /\ Sig!Busy' = IF to = "idle" THEN Sig!Busy \ {w} ELSE Sig!Busy
        /\ w \in Sig!Choosing /\ Sig!Choosing' = Sig!Choosing \ {w}
    <2>1. from \in Sig!Places /\ to \in Sig!Places
      BY DEF Sig!Places
    <2>2. from # "idle" /\ from \in ChoicePlaces /\ to \notin ChoicePlaces
      BY DEF ChoicePlaces
    <2> QED
      BY <1>1, <1>a, <2>1, <2>2, SigMoves
  <1>4. Sig!TypeOK'
    <2>1. sig_tsk' \in Sig!Processes \cup {NoTask} /\ sig_pid' \in Sig!Processes \cup {NoTask}
      BY <1>1, <1>a, <1>b DEF Sig!TypeOK
    <2>2. overlapped' \subseteq SigWriters /\ disturbed' \subseteq SigWriters
          /\ settled' \in BOOLEAN
      BY <1>2, <1>a DEF Sig!TypeOK
    <2> QED
      BY <1>2, <1>3, <1>a, <2>1, <2>2 DEF Sig!TypeOK
  <1>5. w \notin disturbed => sig_tsk' \in {NoTask, sig_pid'} /\ Sig!Choosing' = {}
                                /\ (from = "pid" => sig_tsk' = w)
    BY <1>1, <1>3, <1>a DEF ChoiceInv, Sole
  <1>6. ChoiceInv'
    <2>1. CASE w \notin disturbed
      <3>1. disturbed' = {}
        BY <1>2, <1>3, <1>a, <2>1 DEF ChoiceInv, Sole
      <3> QED
        BY <1>5, <2>1, <3>1 DEF ChoiceInv
    <2>2. CASE w \in disturbed
      <3>1. settled' = FALSE /\ ~settled
        BY <1>2, <1>a, <2>2 DEF ChoiceInv, Sig!TypeOK
      <3>2. \A v \in Sig!Choosing \ disturbed : FALSE
        BY <1>3, <1>a, <2>2 DEF ChoiceInv, Sole
      <3> QED
        BY <1>2, <1>3, <1>a, <3>1, <3>2 DEF ChoiceInv
    <2> QED
      BY <2>1, <2>2
  <1>7. AloneInv'
    BY <1>1, <1>2, <1>3, <1>a DEF AloneInv, Sig!Busy
  <1>8. PrintInv'
    <2>1. SUFFICES ASSUME NEW v \in SigWriters \ overlapped',
                          sigPc'[v] \in {"print", "send"}
                   PROVE  sig_tsk' # NoTask /\ sigPc'[v] # "send"
      BY DEF PrintInv
    <2>2. v = w
      <3>1. SUFFICES ASSUME v # w PROVE FALSE
        OBVIOUS
      <3>2. v \in Sig!Busy /\ v \notin overlapped
        BY <1>2, <1>3, <2>1, <3>1 DEF Sig!Busy
      <3> QED
        BY <1>3, <1>a, <3>1, <3>2 DEF AloneInv
    <2>3. from = "pid" /\ w \notin overlapped /\ to = "print"
      BY <1>1, <1>3, <2>1, <2>2
    <2>4. w \notin disturbed
      BY <1>a, <2>3 DEF ChoiceInv
    <2> QED
      BY <1>3, <1>5, <1>b, <2>2, <2>3, <2>4
  <1>9. nodes' = {} => Sig!Busy' = {}
    BY <1>2, <1>3 DEF SigInv
  <1> QED
    BY <1>4, <1>6, <1>7, <1>8, <1>9 DEF SigInv

\* A writer on its way through a choice.
LEMMA SigInChoice ==
  ASSUME Sig!TaskAssumption, SigInv, NEW w \in SigWriters,
         Sig!pid_loads(w) \/ Sig!pid_finds(w) \/ Sig!signal_stores_tsk(w)
  PROVE  SigInv'
  <1>a. Sig!TypeOK /\ AloneInv /\ ChoiceInv /\ PrintInv
    BY DEF SigInv
  <1>b. w \in Sig!Processes /\ w # NoTask
    BY DEF Sig!Processes, Sig!TaskAssumption
  <1>1. PICK from \in {"lookup", "find", "tsk"}, to \in {"find", "store", "pid"} :
          /\ Sig!Goto(w, from, to)
          /\ to = "find" => tsk' = [tsk EXCEPT ![w] = sig_pid] /\ UNCHANGED sig_tsk
          /\ to = "store" => /\ from = "find" /\ UNCHANGED sig_tsk
                             /\ tsk' = [tsk EXCEPT ![w] = Sig!Found(tsk[w])]
          /\ to = "pid" => sig_tsk' = w /\ UNCHANGED tsk
    BY DEF Sig!pid_loads, Sig!pid_finds, Sig!signal_stores_tsk
  <1>2. UNCHANGED <<nodes, alive, sig_pid, named, overlapped, disturbed, settled>>
    BY DEF Sig!pid_loads, Sig!pid_finds, Sig!signal_stores_tsk, Sig!history
  <1>3. /\ sigPc' \in [SigWriters -> Sig!Places] /\ sigPc[w] = from
        /\ sigPc'[w] = to /\ \A v \in SigWriters : v # w => sigPc'[v] = sigPc[v]
        /\ w \in Sig!Busy /\ Sig!Busy' = Sig!Busy
        /\ w \in Sig!Choosing /\ Sig!Choosing' = Sig!Choosing
    <2>1. from \in Sig!Places /\ to \in Sig!Places
      BY DEF Sig!Places
    <2>2. from # "idle" /\ from \in ChoicePlaces /\ to # "idle" /\ to \in ChoicePlaces
      BY DEF ChoicePlaces
    <2>3. Sig!Goto(w, from, to)
      BY <1>1
    <2>4. /\ sigPc[w] = from /\ sigPc' \in [SigWriters -> Sig!Places]
          /\ sigPc'[w] = to /\ \A v \in SigWriters : v # w => sigPc'[v] = sigPc[v]
          /\ w \in Sig!Busy /\ Sig!Busy' = Sig!Busy \cup {w}
          /\ w \in Sig!Choosing /\ Sig!Choosing' = Sig!Choosing \cup {w}
      BY <1>a, <2>1, <2>2, <2>3, SigMoves
    <2> QED
      BY <2>4
  <1>4. /\ tsk' \in [SigWriters -> Sig!Processes \cup {NoTask}]
        /\ to = "find" => tsk'[w] = sig_pid
        /\ to = "store" => tsk'[w] \in {NoTask, tsk[w]}
    BY <1>1, <1>a DEF Sig!TypeOK, Sig!Found
  <1>5. Sig!TypeOK'
    BY <1>1, <1>2, <1>3, <1>4, <1>a, <1>b DEF Sig!TypeOK
  <1>6. ChoiceInv'
    <2>1. ASSUME NEW v \in Sig!Choosing \ disturbed PROVE Sole(v)'
      <3>1. v = w /\ Sole(w)
        BY <1>3, <1>a, <2>1 DEF ChoiceInv, Sole
      <3> QED
        BY <1>1, <1>2, <1>3, <1>4, <3>1 DEF Sole
    <2>2. Sig!Choosing' # {}
      BY <1>3
    <2> QED
      BY <1>2, <1>3, <1>a, <2>1, <2>2 DEF ChoiceInv
  <1>7. AloneInv'
    BY <1>2, <1>3, <1>a DEF AloneInv
  <1>8. PrintInv'
    <2>1. \A v \in SigWriters \ overlapped : sigPc'[v] \notin {"print", "send"}
      <3>1. \A v \in SigWriters \ overlapped : v \in Sig!Busy => v = w
        BY <1>3, <1>a DEF AloneInv
      <3> QED
        BY <1>3, <3>1 DEF Sig!Busy
    <2> QED
      BY <1>2, <2>1 DEF PrintInv
  <1> QED
    BY <1>2, <1>3, <1>5, <1>6, <1>7, <1>8 DEF SigInv

\* A write to "signal" outside of a choice.
LEMMA SigGoesOn ==
  ASSUME Sig!TaskAssumption, SigInv, NEW w \in SigWriters,
         \/ Sig!signal_tests(w) /\ sig_tsk # NoTask
         \/ Sig!signal_prints(w) \/ Sig!send_sig(w)
  PROVE  SigInv'
  <1>a. Sig!TypeOK /\ AloneInv /\ ChoiceInv /\ PrintInv
    BY DEF SigInv
  <1>1. PICK from \in {"test", "print", "send"}, to \in {"print", "send", "idle"} :
          /\ Sig!Goto(w, from, to)
          /\ to = "print" => sig_tsk # NoTask /\ UNCHANGED <<named, overlapped>>
          /\ to = "send" => /\ from = "print" /\ UNCHANGED overlapped
                            /\ named' = [named EXCEPT ![w] = sig_pid]
          /\ to = "idle" => /\ overlapped' = overlapped \ {w}
                            /\ named' = [named EXCEPT ![w] = NoTask]
    BY DEF Sig!signal_tests, Sig!signal_prints, Sig!send_sig, Sig!Returns, Sig!history
  <1>2. UNCHANGED <<nodes, alive, sig_pid, sig_tsk, tsk, disturbed, settled>>
    BY DEF Sig!signal_tests, Sig!signal_prints, Sig!send_sig, Sig!history
  <1>3. /\ sigPc' \in [SigWriters -> Sig!Places] /\ sigPc[w] = from
        /\ sigPc'[w] = to /\ \A v \in SigWriters : v # w => sigPc'[v] = sigPc[v]
        /\ w \in Sig!Busy
        /\ Sig!Busy' = IF to = "idle" THEN Sig!Busy \ {w} ELSE Sig!Busy
        /\ w \notin Sig!Choosing /\ Sig!Choosing' = Sig!Choosing
    <2>1. from \in Sig!Places /\ to \in Sig!Places
      BY DEF Sig!Places
    <2>2. from # "idle" /\ from \notin ChoicePlaces /\ to \notin ChoicePlaces
      BY DEF ChoicePlaces
    <2> QED
      BY <1>1, <1>a, <2>1, <2>2, SigMoves
  <1>4. Sig!TypeOK'
    <2>1. /\ overlapped' \subseteq SigWriters
          /\ named' \in [SigWriters -> Sig!Processes \cup {NoTask}]
      BY <1>1, <1>a DEF Sig!TypeOK
    <2> QED
      BY <1>2, <1>3, <1>a, <2>1 DEF Sig!TypeOK
  <1>5. ChoiceInv'
    <2>1. \A v \in Sig!Choosing : v \in SigWriters /\ v # w
      BY <1>3 DEF Sig!Choosing
    <2>2. Sig!Choosing \cap overlapped \subseteq overlapped'
      BY <1>1, <2>1
    <2> QED
      BY <1>2, <1>3, <1>a, <2>1, <2>2 DEF ChoiceInv, Sole
  <1>6. AloneInv'
    BY <1>1, <1>3, <1>a DEF AloneInv, Sig!Busy
  <1>7. PrintInv'
    <2>1. SUFFICES ASSUME NEW v \in SigWriters \ overlapped'
                   PROVE  /\ sigPc'[v] \in {"print", "send"} => sig_tsk' # NoTask
                          /\ sigPc'[v] = "send" => named'[v] = sig_pid'
      BY DEF PrintInv
    <2>2. CASE v = w
      BY <1>1, <1>2, <1>3, <1>a, <2>1, <2>2 DEF PrintInv, Sig!TypeOK
    <2>3. CASE v # w
      <3>1. v \notin overlapped /\ sigPc'[v] = sigPc[v]
        BY <1>1, <1>3, <2>1, <2>3
      <3>2. v \notin Sig!Busy
        BY <1>3, <1>a, <2>3, <3>1 DEF AloneInv
      <3> QED
        BY <3>1, <3>2 DEF Sig!Busy
    <2> QED
      BY <2>2, <2>3
  <1>8. nodes' = {} => Sig!Busy' = {}
    BY <1>2, <1>3 DEF SigInv
  <1> QED
    BY <1>4, <1>5, <1>6, <1>7, <1>8 DEF SigInv

LEMMA SigStep ==
  ASSUME Sig!TaskAssumption, SigInv, [Sig!Next]_(Sig!vars) PROVE SigInv'
  BY SigOutsideSteps, SigPidScanned, SigSignalScanned, SigTestsNone, SigEndsChoice,
     SigInChoice, SigGoesOn DEF Sig!Next, Sig!Write

LEMMA SigInvImplies == ASSUME SigInv PROVE Sig!SignalsTheNamed
  <1> SUFFICES ASSUME NEW w \in SigWriters \ overlapped, sigPc[w] = "send", settled
               PROVE  sig_tsk = named[w]
    BY DEF Sig!SignalsTheNamed
  <1>1. Sig!Busy = {w}
    BY DEF SigInv, AloneInv, Sig!Busy
  <1>2. Sig!Choosing = {}
    BY <1>1 DEF Sig!Busy, Sig!Choosing
  <1> QED
    BY <1>2 DEF SigInv, ChoiceInv, PrintInv

---------------------------------------------------------------------------
(***************************************************************************)
(* TaskProc, the lookups.  pid_no has been named, unless it is that of no  *)
(* process; so have p_task and what an access has found, once the access   *)
(* has looked, because named processes that live are always found.         *)
(***************************************************************************)
LookupInv ==
  \A u \in Users :
    /\ taskPc[u] # "oops"
    /\ taskPc[u] = "find" => pid_no # NoTask
    /\ taskPc[u] \in {"look", "hold", "use"} => found[u] \in pidsNamed
    /\ taskPc[u] = "use" => p_task \in pidsNamed

TaskInv ==
  /\ Task!TypeOK
  /\ \A u \in Users : taskPc[u] \in {"add", "store"} => pid_ns[u] \in Namespaces
  /\ ~taskLoaded => Task!Busy = {}
  /\ pid_no # NoTask => pid_no \in pidsNamed
  /\ pidsNamed \subseteq taskAlive => LookupInv

\* The living processes of a namespace.
LivingSet(n) == {q \in taskAlive : NsOf[q] = n}

LEMMA LivingIs ==
  ASSUME Task!TaskProcAssumption, taskAlive \subseteq Tasks, NEW n
  PROVE  /\ IsFiniteSet(LivingSet(n)) /\ Cardinality(LivingSet(n)) \in Nat
         /\ Task!Living(n) = Cardinality(LivingSet(n)) % Span
         /\ Task!Living(n) \in 0 .. Span - 1
  <1>1. LivingSet(n) \subseteq Tasks /\ IsFiniteSet(Tasks)
    BY Zenon DEF LivingSet, Task!TaskProcAssumption, IsFiniteSet, Task!IsFiniteSet
  <1>2. IsFiniteSet(LivingSet(n))
    BY <1>1, FS_Subset
  <1>3. Cardinality(LivingSet(n)) \in Nat
    BY <1>2, FS_CardinalityType
  <1>4. Task!Living(n) = Cardinality(LivingSet(n)) % Span
    BY Zenon DEF Task!Living, LivingSet, Cardinality, Task!Cardinality
  <1>5. Span \in Nat /\ Span > 0
    BY DEF Task!TaskProcAssumption
  <1> QED
    BY <1>2, <1>3, <1>4, <1>5

LEMMA TaskInit == ASSUME Task!TaskProcAssumption, Task!Init PROVE TaskInv
  <1>1. Span \in Nat /\ Span > 0 /\ MaxAdds \in Nat
    BY DEF Task!TaskProcAssumption
  <1>2. \A n \in Namespaces : Task!Living(n) \in 0 .. Span - 1
    <2>1. taskAlive \subseteq Tasks
      BY DEF Task!Init
    <2> QED
      BY <2>1, LivingIs
  <1>3. /\ pid_allocated \in [Namespaces -> 0 .. Span - 1]
        /\ added \in [Namespaces -> 0 .. Span - 1]
        /\ nr_hashed \in [Users -> 0 .. Span - 1]
        /\ adds \in 0 .. MaxAdds
    BY <1>1, <1>2 DEF Task!Init
  <1>4. Task!TypeOK
    BY <1>3, Zenon DEF Task!Init, Task!TypeOK, Task!Places
  <1> QED
    BY <1>4 DEF Task!Init, TaskInv, LookupInv, Task!Busy

\* An access moves on.
LEMMA TaskMoves ==
  ASSUME Task!TypeOK, NEW u \in Users, NEW from, NEW to,
         to \in Task!Places,
         Task!Goto(u, from, to)
  PROVE  /\ taskPc[u] = from /\ taskPc' = [taskPc EXCEPT ![u] = to]
         /\ taskPc' \in [Users -> Task!Places]
         /\ taskPc'[u] = to
         /\ \A v \in Users : v # u => taskPc'[v] = taskPc[v]
  BY DEF Task!Goto, Task!TypeOK

\* The locals are reset, to values of their types.
LEMMA ReturnTypes ==
  ASSUME Task!TaskProcAssumption, Task!TypeOK, NEW u \in Users, Task!Returns(u)
  PROVE  /\ op' \in [Users -> {"read", "pid", "nr_hashed"}]
         /\ pid_ns' \in [Users -> Namespaces \cup {NoNs}]
         /\ nr_hashed' \in [Users -> 0 .. Span - 1]
         /\ \A v \in Users : v # u => pid_ns'[v] = pid_ns[v] /\ op'[v] = op[v]
                                        /\ nr_hashed'[v] = nr_hashed[v]
         /\ pid_ns'[u] = NoNs
  <1>1. 0 \in 0 .. Span - 1
    BY DEF Task!TaskProcAssumption
  <1> QED
    BY <1>1 DEF Task!Returns, Task!TypeOK

LEMMA TaskOutsideSteps ==
  ASSUME Task!TaskProcAssumption, TaskInv,
         Task!my_init \/ Task!my_exit \/ (\E q \in Tasks : Task!exit(q))
           \/ UNCHANGED Task!vars
  PROVE  TaskInv'
  <1>a. Task!TypeOK
    BY DEF TaskInv
  <1>1. CASE Task!my_init
    <2>1. /\ ~taskLoaded /\ taskLoaded' = TRUE
          /\ pid_no' = NoTask /\ p_task' = NoTask /\ pidsNamed' = {}
          /\ UNCHANGED <<taskAlive, pid_allocated, taskPc, op, found, pid_ns,
                         nr_hashed, added, adds, torn>>
      BY <1>1 DEF Task!my_init, Task!local
    <2>2. \A u \in Users : taskPc'[u] = "idle"
      BY <2>1 DEF TaskInv, Task!Busy
    <2>3. Task!TypeOK'
      BY <1>a, <2>1 DEF Task!TypeOK
    <2> QED
      BY <2>1, <2>2, <2>3 DEF TaskInv, LookupInv
  <1>2. CASE Task!my_exit
    <2>1. /\ Task!Busy = {} /\ taskLoaded' = FALSE
          /\ UNCHANGED <<taskAlive, pid_allocated, pid_no, p_task, taskPc, op,
                         found, pid_ns, nr_hashed, pidsNamed, added, adds, torn>>
      BY <1>2 DEF Task!my_exit, Task!local, Task!history
    <2>2. Task!Busy' = {}
      BY <2>1 DEF Task!Busy
    <2>3. Task!TypeOK'
      BY <1>a, <2>1 DEF Task!TypeOK
    <2> QED
      BY <2>1, <2>2, <2>3 DEF TaskInv, LookupInv
  <1>3. ASSUME NEW q \in Tasks, Task!exit(q) PROVE TaskInv'
    <2>1. /\ taskAlive' = taskAlive \ {q}
          /\ pid_allocated' = [pid_allocated EXCEPT
                                 ![NsOf[q]] = (@ + Span - 1) % Span]
          /\ torn' \in BOOLEAN
          /\ UNCHANGED <<taskLoaded, pid_no, p_task, taskPc, op, found, pid_ns,
                         nr_hashed, pidsNamed, added, adds>>
      BY <1>3, <1>a DEF Task!exit, Task!local, Task!TypeOK
    <2>2. pid_allocated' \in [Namespaces -> 0 .. Span - 1]
      <3>1. NsOf[q] \in Namespaces /\ Span \in Nat /\ Span > 0
        BY DEF Task!TaskProcAssumption
      <3>2. (pid_allocated[NsOf[q]] + Span - 1) % Span \in 0 .. Span - 1
        BY <1>a, <3>1 DEF Task!TypeOK
      <3> QED
        BY <1>a, <2>1, <3>1, <3>2 DEF Task!TypeOK
    <2>3. Task!TypeOK'
      BY <1>a, <2>1, <2>2 DEF Task!TypeOK
    <2>4. Task!Busy' = Task!Busy
      BY <2>1 DEF Task!Busy
    <2> QED
      BY <2>1, <2>3, <2>4 DEF TaskInv, LookupInv
  <1>4. CASE UNCHANGED Task!vars
    <2>1. UNCHANGED <<taskLoaded, taskAlive, pid_allocated, pid_no, p_task, taskPc,
                      op, found, pid_ns, nr_hashed, pidsNamed, added, adds, torn>>
      BY <1>4 DEF Task!vars, Task!local, Task!history
    <2>2. Task!TypeOK' /\ Task!Busy' = Task!Busy
      BY <1>a, <2>1 DEF Task!TypeOK, Task!Busy
    <2> QED
      BY <2>1, <2>2 DEF TaskInv, LookupInv
  <1> QED
    BY <1>1, <1>2, <1>3, <1>4

LEMMA TaskLooks ==
  ASSUME Task!TaskProcAssumption, TaskInv, NEW u \in Users,
         \/ \E o \in {"read", "pid", "nr_hashed"} : Task!begins(u, o)
         \/ Task!loads_pid(u) \/ Task!finds(u) \/ Task!stores_task(u)
         \/ Task!uses(u)
  PROVE  TaskInv'
  <1>a. Task!TypeOK /\ Span \in Nat /\ MaxAdds \in Nat
    BY DEF TaskInv, Task!TaskProcAssumption
  <1>b. NoTask \notin taskAlive
    BY <1>a DEF Task!TypeOK, Task!TaskProcAssumption
  <1>1. ASSUME NEW o \in {"read", "pid", "nr_hashed"}, Task!begins(u, o)
        PROVE  TaskInv'
    <2>1. /\ taskLoaded
          /\ Task!Goto(u, "idle", IF pid_no # NoTask THEN "find" ELSE "copy")
          /\ op' = [op EXCEPT ![u] = o]
          /\ adds' = (IF o = "nr_hashed" THEN adds + 1 ELSE adds) /\ adds' <= MaxAdds
          /\ torn' \in BOOLEAN
          /\ added' = [n \in Namespaces |-> IF torn' THEN 0 ELSE added[n]]
          /\ UNCHANGED <<taskLoaded, taskAlive, pid_allocated, pid_no, p_task, found,
                         pid_ns, nr_hashed, pidsNamed>>
      BY <1>1, <1>a DEF Task!begins, Task!Looks, Task!TypeOK
    <2>2. /\ taskPc' \in [Users -> Task!Places]
          /\ taskPc'[u] = IF pid_no # NoTask THEN "find" ELSE "copy"
          /\ \A v \in Users : v # u => taskPc'[v] = taskPc[v]
      BY <1>a, <2>1, TaskMoves DEF Task!Places
    <2>3. adds' \in 0 .. MaxAdds /\ added' \in [Namespaces -> 0 .. Span - 1]
      <3>1. 0 \in 0 .. Span - 1
        BY DEF Task!TaskProcAssumption
      <3> QED
        BY <1>a, <2>1, <3>1 DEF Task!TypeOK
    <2>4. Task!TypeOK'
      BY <1>a, <2>1, <2>2, <2>3 DEF Task!TypeOK
    <2> QED
      BY <2>1, <2>2, <2>4 DEF TaskInv, LookupInv
  <1>2. CASE Task!loads_pid(u) \/ Task!finds(u) \/ Task!stores_task(u)
    <2>1. PICK from \in {"find", "look", "hold"}, to \in {"look", "hold", "use"} :
            /\ Task!Goto(u, from, to)
            /\ to = "look" => /\ from = "find" /\ UNCHANGED p_task
                              /\ found' = [found EXCEPT ![u] = pid_no]
            /\ to = "hold" => /\ from = "look" /\ UNCHANGED p_task
                              /\ found' = [found EXCEPT ![u] =
                                   IF found[u] \in taskAlive THEN found[u] ELSE NoTask]
            /\ to = "use"  => /\ from = "hold" /\ UNCHANGED found
                              /\ p_task' = found[u]
      BY <1>2 DEF Task!loads_pid, Task!finds, Task!stores_task, Task!local
    <2>2. UNCHANGED <<taskLoaded, taskAlive, pid_allocated, pid_no, op, pid_ns,
                      nr_hashed, pidsNamed, added, adds, torn>>
      BY <1>2 DEF Task!loads_pid, Task!finds, Task!stores_task, Task!local,
                  Task!history
    <2>3. /\ taskPc[u] = from /\ taskPc'[u] = to
          /\ taskPc' \in [Users -> Task!Places]
          /\ \A v \in Users : v # u => taskPc'[v] = taskPc[v]
      BY <1>a, <2>1, TaskMoves DEF Task!Places
    <2>4. /\ found' \in [Users -> Tasks \cup {NoTask}]
          /\ p_task' \in Tasks \cup {NoTask}
          /\ \A v \in Users : v # u => found'[v] = found[v]
      BY <1>a, <2>1 DEF Task!TypeOK
    <2>5. Task!TypeOK'
      BY <1>a, <2>2, <2>3, <2>4 DEF Task!TypeOK
    <2>6. taskLoaded
      BY <2>3 DEF TaskInv, Task!Busy
    <2>7. ASSUME pidsNamed \subseteq taskAlive PROVE LookupInv'
      <3>1. LookupInv /\ pid_no # NoTask => pid_no \in pidsNamed
        BY <2>7 DEF TaskInv
      <3>2. found'[u] \in pidsNamed /\ p_task' \in {p_task, found[u]}
        BY <1>a, <2>1, <2>3, <2>7, <3>1 DEF LookupInv, TaskInv, Task!TypeOK
      <3>3. p_task' # p_task => p_task' \in pidsNamed
        BY <2>1, <2>3, <2>7 DEF LookupInv, TaskInv
      <3> QED
        BY <2>1, <2>2, <2>3, <2>4, <2>7, <3>2, <3>3 DEF LookupInv, TaskInv
    <2> QED
      BY <2>2, <2>3, <2>5, <2>6, <2>7 DEF TaskInv
  <1>3. CASE Task!uses(u)
    <2>1. PICK q \in {p_task, found[u]} :
            IF q \in taskAlive
            THEN /\ Task!Goto(u, "use", "copy")
                 /\ IF op[u] = "nr_hashed"
                    THEN /\ pid_ns' = [pid_ns EXCEPT ![u] = NsOf[q]]
                         /\ nr_hashed' = [nr_hashed EXCEPT
                              ![u] = pid_allocated[NsOf[q]]]
                    ELSE UNCHANGED <<pid_ns, nr_hashed>>
            ELSE /\ Task!Goto(u, "use", "oops")
                 /\ UNCHANGED <<pid_ns, nr_hashed>>
      BY <1>3 DEF Task!uses
    <2>2. /\ found' = [found EXCEPT ![u] = NoTask]
          /\ UNCHANGED <<taskLoaded, taskAlive, pid_allocated, pid_no, p_task, op,
                         pidsNamed, added, adds, torn>>
      BY <1>3 DEF Task!uses, Task!history
    <2>3. /\ taskPc[u] = "use"
          /\ taskPc'[u] = IF q \in taskAlive THEN "copy" ELSE "oops"
          /\ taskPc' \in [Users -> Task!Places]
          /\ \A v \in Users : v # u => taskPc'[v] = taskPc[v]
      BY <1>a, <2>1, TaskMoves DEF Task!Places
    <2>4. q \in taskAlive => q \in Tasks /\ NsOf[q] \in Namespaces
      BY <1>a DEF Task!TypeOK, Task!TaskProcAssumption
    <2>5. /\ pid_ns' \in [Users -> Namespaces \cup {NoNs}]
          /\ nr_hashed' \in [Users -> 0 .. Span - 1]
          /\ \A v \in Users : v # u => pid_ns'[v] = pid_ns[v]
      BY <1>a, <2>1, <2>4 DEF Task!TypeOK
    <2>6. Task!TypeOK'
      BY <1>a, <2>2, <2>3, <2>5 DEF Task!TypeOK
    <2>7. taskLoaded
      BY <2>3 DEF TaskInv, Task!Busy
    <2>8. ASSUME pidsNamed \subseteq taskAlive PROVE LookupInv'
      <3>1. LookupInv /\ q \in taskAlive
        BY <2>3, <2>8 DEF TaskInv, LookupInv
      <3> QED
        BY <1>a, <2>2, <2>3, <3>1 DEF LookupInv, Task!TypeOK
    <2> QED
      BY <2>2, <2>3, <2>5, <2>6, <2>7, <2>8 DEF TaskInv
  <1> QED
    BY <1>1, <1>2, <1>3

LEMMA TaskWrites ==
  ASSUME Task!TaskProcAssumption, TaskInv, NEW u \in Users,
         \/ Task!returns(u) \/ Task!sets_pid(u) \/ Task!sets_nr_hashed(u)
         \/ Task!loads(u) \/ Task!stores(u)
  PROVE  TaskInv'
  <1>a. Task!TypeOK /\ Span \in Nat /\ Span > 0 /\ Amounts \subseteq 0 .. Span - 1
    BY DEF TaskInv, Task!TaskProcAssumption
  <1>1. CASE Task!returns(u)
    <2>1. /\ Task!Goto(u, "copy", "idle") /\ Task!Returns(u)
          /\ UNCHANGED <<taskLoaded, taskAlive, pid_allocated, pid_no, p_task, found,
                         pidsNamed, added, adds, torn>>
      BY <1>1 DEF Task!returns, Task!history
    <2>2. /\ taskPc'[u] = "idle" /\ taskPc[u] = "copy"
          /\ taskPc' \in [Users -> Task!Places]
          /\ \A v \in Users : v # u => taskPc'[v] = taskPc[v]
      BY <1>a, <2>1, TaskMoves DEF Task!Places
    <2>3. Task!TypeOK'
      BY <1>a, <2>1, <2>2, ReturnTypes DEF Task!TypeOK
    <2>4. \A v \in Users : v # u => pid_ns'[v] = pid_ns[v]
      BY <1>a, <2>1, ReturnTypes
    <2> QED
      BY <2>1, <2>2, <2>3, <2>4 DEF TaskInv, LookupInv, Task!Busy
  <1>2. CASE Task!sets_pid(u)
    <2>1. /\ Task!Goto(u, "copy", "idle") /\ Task!Returns(u)
          /\ pid_no' \in Tasks \cup {NoTask, pid_no}
          /\ pidsNamed' = pidsNamed \cup {pid_no'}
          /\ UNCHANGED <<taskLoaded, taskAlive, pid_allocated, p_task, found, added,
                         adds, torn>>
      BY <1>2 DEF Task!sets_pid
    <2>2. /\ taskPc'[u] = "idle" /\ taskPc[u] = "copy"
          /\ taskPc' \in [Users -> Task!Places]
          /\ \A v \in Users : v # u => taskPc'[v] = taskPc[v]
      BY <1>a, <2>1, TaskMoves DEF Task!Places
    <2>3. Task!TypeOK'
      BY <1>a, <2>1, <2>2, ReturnTypes DEF Task!TypeOK
    <2>4. \A v \in Users : v # u => pid_ns'[v] = pid_ns[v]
      BY <1>a, <2>1, ReturnTypes
    <2>5. ASSUME pidsNamed' \subseteq taskAlive' PROVE LookupInv'
      <3>1. pidsNamed \subseteq taskAlive /\ pid_no' \in taskAlive
        BY <2>1, <2>5
      <3>2. pid_no' # NoTask
        BY <1>a, <3>1 DEF Task!TypeOK, Task!TaskProcAssumption
      <3> QED
        BY <2>1, <2>2, <3>1, <3>2 DEF TaskInv, LookupInv
    <2> QED
      BY <2>1, <2>2, <2>3, <2>4, <2>5 DEF TaskInv, Task!Busy
  <1>3. CASE Task!sets_nr_hashed(u)
    <2>1. UNCHANGED <<taskLoaded, taskAlive, pid_allocated, pid_no, p_task, found,
                      pidsNamed, added, adds, torn>>
      BY <1>3 DEF Task!sets_nr_hashed, Task!history
    <2>2. CASE pid_ns[u] = NoNs
      <3>1. Task!Goto(u, "copy", "idle") /\ Task!Returns(u)
        BY <1>3, <2>2 DEF Task!sets_nr_hashed
      <3>2. /\ taskPc'[u] = "idle" /\ taskPc[u] = "copy"
            /\ taskPc' \in [Users -> Task!Places]
            /\ \A v \in Users : v # u => taskPc'[v] = taskPc[v]
        BY <1>a, <3>1, TaskMoves DEF Task!Places
      <3>3. Task!TypeOK'
        BY <1>a, <2>1, <3>1, <3>2, ReturnTypes DEF Task!TypeOK
      <3>4. \A v \in Users : v # u => pid_ns'[v] = pid_ns[v]
        BY <1>a, <3>1, ReturnTypes
      <3> QED
        BY <2>1, <3>2, <3>3, <3>4 DEF TaskInv, LookupInv, Task!Busy
    <2>3. CASE pid_ns[u] # NoNs
      <3>1. /\ Task!Goto(u, "copy", "add") /\ UNCHANGED <<op, pid_ns>>
            /\ \E a \in Amounts \cup {nr_hashed[u]} :
                 nr_hashed' = [nr_hashed EXCEPT ![u] = a]
        BY <1>3, <2>3 DEF Task!sets_nr_hashed
      <3>2. /\ taskPc'[u] = "add" /\ taskPc[u] = "copy"
            /\ taskPc' \in [Users -> Task!Places]
            /\ \A v \in Users : v # u => taskPc'[v] = taskPc[v]
        BY <1>a, <3>1, TaskMoves DEF Task!Places
      <3>3. nr_hashed' \in [Users -> 0 .. Span - 1]
        BY <1>a, <3>1 DEF Task!TypeOK
      <3>4. Task!TypeOK' /\ pid_ns[u] \in Namespaces
        BY <1>a, <2>1, <2>3, <3>1, <3>2, <3>3 DEF Task!TypeOK
      <3> QED
        BY <2>1, <3>1, <3>2, <3>4 DEF TaskInv, LookupInv, Task!Busy
    <2> QED
      BY <2>2, <2>3
  <1>4. CASE Task!loads(u)
    <2>1. /\ Task!Goto(u, "add", "store")
          /\ nr_hashed' = [nr_hashed EXCEPT
               ![u] = (@ + pid_allocated[pid_ns[u]]) % Span]
          /\ added' = [n \in Namespaces |->
               IF ~torn /\ NsOf[pid_no] = n
               THEN (added[n] + nr_hashed[u]) % Span ELSE added[n]]
          /\ UNCHANGED <<taskLoaded, taskAlive, pid_allocated, pid_no, p_task, op,
                         found, pid_ns, pidsNamed, adds, torn>>
      BY <1>4 DEF Task!loads
    <2>2. /\ taskPc'[u] = "store" /\ taskPc[u] = "add"
          /\ taskPc' \in [Users -> Task!Places]
          /\ \A v \in Users : v # u => taskPc'[v] = taskPc[v]
      BY <1>a, <2>1, TaskMoves DEF Task!Places
    <2>3. pid_ns[u] \in Namespaces
      BY <2>2 DEF TaskInv
    <2>4. /\ (nr_hashed[u] + pid_allocated[pid_ns[u]]) % Span \in 0 .. Span - 1
          /\ \A n \in Namespaces : (added[n] + nr_hashed[u]) % Span \in 0 .. Span - 1
      <3>1. /\ nr_hashed[u] \in Nat /\ pid_allocated[pid_ns[u]] \in Nat
            /\ \A n \in Namespaces : added[n] \in Nat
        BY <1>a, <2>3 DEF Task!TypeOK
      <3>2. \A i \in Nat : i % Span \in 0 .. Span - 1
        BY <1>a
      <3> QED
        BY <3>1, <3>2
    <2>5. nr_hashed' \in [Users -> 0 .. Span - 1]
      BY <1>a, <2>1, <2>4 DEF Task!TypeOK
    <2>6. added' \in [Namespaces -> 0 .. Span - 1]
      BY <1>a, <2>1, <2>4 DEF Task!TypeOK
    <2>7. Task!TypeOK'
      BY <1>a, <2>1, <2>2, <2>5, <2>6 DEF Task!TypeOK
    <2> QED
      BY <2>1, <2>2, <2>3, <2>7 DEF TaskInv, LookupInv, Task!Busy
  <1>5. CASE Task!stores(u)
    <2>1. /\ Task!Goto(u, "store", "idle") /\ Task!Returns(u)
          /\ pid_allocated' = [pid_allocated EXCEPT ![pid_ns[u]] = nr_hashed[u]]
          /\ UNCHANGED <<taskLoaded, taskAlive, pid_no, p_task, found, pidsNamed,
                         added, adds, torn>>
      BY <1>5 DEF Task!stores, Task!history
    <2>2. /\ taskPc'[u] = "idle" /\ taskPc[u] = "store"
          /\ taskPc' \in [Users -> Task!Places]
          /\ \A v \in Users : v # u => taskPc'[v] = taskPc[v]
      BY <1>a, <2>1, TaskMoves DEF Task!Places
    <2>3. pid_allocated' \in [Namespaces -> 0 .. Span - 1]
      BY <1>a, <2>1, <2>2 DEF Task!TypeOK
    <2>4. Task!TypeOK'
      BY <1>a, <2>1, <2>2, <2>3, ReturnTypes DEF Task!TypeOK
    <2>5. \A v \in Users : v # u => pid_ns'[v] = pid_ns[v]
      BY <1>a, <2>1, ReturnTypes
    <2> QED
      BY <2>1, <2>2, <2>4, <2>5 DEF TaskInv, LookupInv, Task!Busy
  <1> QED
    BY <1>1, <1>2, <1>3, <1>4, <1>5

LEMMA TaskStep ==
  ASSUME Task!TaskProcAssumption, TaskInv, [Task!Next]_(Task!vars) PROVE TaskInv'
  BY TaskOutsideSteps, TaskLooks, TaskWrites DEF Task!Next, Task!Access

---------------------------------------------------------------------------
(***************************************************************************)
(* TaskProc, the additions.  Until an addition meets another access or an  *)
(* exit, at most one access is going on, what it has found is the process  *)
(* pid_no names, and every pid_allocated is what it should be, except the  *)
(* one that is about to be stored.                                         *)
(***************************************************************************)
Expected(n) == (Task!Living(n) + added[n]) % Span

AddingInv(u) ==
  /\ taskPc[u] = "look" => found[u] = pid_no
  /\ taskPc[u] \in {"hold", "use"} => found[u] \in {pid_no, NoTask}
  /\ taskPc[u] = "use" => p_task = found[u]
  /\ taskPc[u] \in {"copy", "add", "store"} /\ pid_ns[u] # NoNs =>
       pid_no \in Tasks /\ pid_ns[u] = NsOf[pid_no]
  /\ taskPc[u] = "store" => nr_hashed[u] = Expected(pid_ns[u])

Settled(n) ==
  \/ pid_allocated[n] = Expected(n)
  \/ \E u \in Users : taskPc[u] = "store" /\ pid_ns[u] = n

BeforeUse == {"idle", "find", "look", "hold", "use"}

AddInv ==
  /\ \A u \in Users : taskPc[u] \in BeforeUse => pid_ns[u] = NoNs
  /\ ~torn =>
       /\ \A u, v \in Task!Busy : u = v
       /\ \A u \in Users : AddingInv(u)
       /\ \A n \in Namespaces : Settled(n)

\* Remainders, for a modulus that is not known.
LEMMA RemainderIs ==
  ASSUME NEW n \in Nat, n > 0, NEW q \in Nat, NEW i \in 0 .. n - 1
  PROVE  (n * q + i) % n = i
  OBVIOUS

LEMMA RemainderOfSum ==
  ASSUME NEW n \in Nat, n > 0, NEW i \in 0 .. n - 1, NEW j \in 0 .. n - 1
  PROVE  (i + j) % n = IF i + j < n THEN i + j ELSE i + j - n
  <1>1. CASE i + j < n
    BY <1>1
  <1>2. CASE ~(i + j < n)
    <2>1. i + j - n \in 0 .. n - 1
      BY <1>2
    <2>2. \A k \in 0 .. n - 1 : (n * 1 + k) % n = k
      BY RemainderIs
    <2>3. i + j = n * 1 + (i + j - n)
      OBVIOUS
    <2> QED
      BY <1>2, <2>1, <2>2, <2>3
  <1> QED
    BY <1>1, <1>2

LEMMA RemainderOfPrevious ==
  ASSUME NEW n \in Nat, n > 0, NEW k \in Nat, k > 0
  PROVE  (k - 1) % n = IF k % n = 0 THEN n - 1 ELSE (k % n) - 1
  <1> DEFINE q == k \div n
             i == k % n
  <1>1. q \in Nat /\ i \in 0 .. n - 1 /\ k = n * q + i
    OBVIOUS
  <1> HIDE DEF q, i
  <1>2. CASE i = 0
    <2>1. q - 1 \in Nat
      BY <1>1, <1>2
    <2>2. k - 1 = n * (q - 1) + (n - 1) /\ n - 1 \in 0 .. n - 1
      BY <1>1, <1>2
    <2> QED
      BY <1>2, <2>1, <2>2, RemainderIs, SMTT(30) DEF i
  <1>3. CASE i # 0
    <2>1. k - 1 = n * q + (i - 1) /\ i - 1 \in 0 .. n - 1
      BY <1>1, <1>3
    <2>2. (n * q + (i - 1)) % n = i - 1
      BY <1>1, <2>1, RemainderIs
    <2> QED
      BY <1>3, <2>1, <2>2 DEF i
  <1> QED
    BY <1>2, <1>3

\* An amount is added to what is expected; one process less is expected.
LEMMA RemaindersAdd ==
  ASSUME NEW n \in Nat, n > 0, NEW l \in 0 .. n - 1, NEW i \in 0 .. n - 1,
         NEW j \in 0 .. n - 1
  PROVE  (j + ((l + i) % n)) % n = (l + ((i + j) % n)) % n
  <1>1. /\ (l + i) % n = IF l + i < n THEN l + i ELSE l + i - n
        /\ (i + j) % n = IF i + j < n THEN i + j ELSE i + j - n
    BY RemainderOfSum
  <1>2. (l + i) % n \in 0 .. n - 1 /\ (i + j) % n \in 0 .. n - 1
    BY <1>1
  <1> DEFINE x == (l + i) % n
             y == (i + j) % n
  <1> HIDE DEF x, y
  <1>3. /\ (j + x) % n = IF j + x < n THEN j + x ELSE j + x - n
        /\ (l + y) % n = IF l + y < n THEN l + y ELSE l + y - n
    BY <1>2, RemainderOfSum DEF x, y
  <1>4. /\ x = IF l + i < n THEN l + i ELSE l + i - n
        /\ y = IF i + j < n THEN i + j ELSE i + j - n
    BY <1>1 DEF x, y
  <1>5. (j + x) % n = (l + y) % n
    BY <1>3, <1>4
  <1> QED
    BY <1>5 DEF x, y

LEMMA RemaindersSubtract ==
  ASSUME NEW n \in Nat, n > 0, NEW k \in Nat, k > 0, NEW i \in 0 .. n - 1
  PROVE  ((((k % n) + i) % n) + n - 1) % n = (((k - 1) % n) + i) % n
  <1> DEFINE l == k % n
             d == (k - 1) % n
             x == (l + i) % n
  <1>1. l \in 0 .. n - 1
    OBVIOUS
  <1>a. d = IF l = 0 THEN n - 1 ELSE l - 1
    BY RemainderOfPrevious
  <1> HIDE DEF l, d
  <1>2. d \in 0 .. n - 1
    BY <1>1, <1>a
  <1>3. /\ x = IF l + i < n THEN l + i ELSE l + i - n
        /\ (d + i) % n = IF d + i < n THEN d + i ELSE d + i - n
    BY <1>1, <1>2, RemainderOfSum
  <1> HIDE DEF x
  <1>4. x \in 0 .. n - 1
    BY <1>1, <1>3
  <1>5. (x + (n - 1)) % n = IF x + (n - 1) < n THEN x + (n - 1) ELSE x + (n - 1) - n
    BY <1>4, RemainderOfSum
  <1>6. x + n - 1 = x + (n - 1)
    BY <1>4
  <1>7. (x + n - 1) % n = (d + i) % n
    BY <1>1, <1>a, <1>2, <1>3, <1>4, <1>5, <1>6
  <1> QED
    BY <1>7 DEF l, d, x

LEMMA ExpectedStays ==
  ASSUME UNCHANGED <<taskAlive, added>>, NEW n PROVE Expected(n)' = Expected(n)
  BY DEF Expected, Task!Living

LEMMA AddInit == ASSUME Task!TaskProcAssumption, Task!Init PROVE AddInv
  <1>1. Span \in Nat /\ Span > 0 /\ taskAlive \subseteq Tasks
    BY DEF Task!TaskProcAssumption, Task!Init
  <1>2. ASSUME NEW n \in Namespaces PROVE pid_allocated[n] = Expected(n)
    <2>1. pid_allocated[n] = Task!Living(n) /\ added[n] = 0
      BY DEF Task!Init
    <2>2. \A i \in 0 .. Span - 1 : (i + 0) % Span = i
      BY <1>1
    <2>3. Task!Living(n) \in 0 .. Span - 1
      BY <1>1, LivingIs
    <2> QED
      BY <2>1, <2>2, <2>3 DEF Expected
  <1> QED
    BY <1>2 DEF AddInv, AddingInv, Settled, Task!Init, Task!Busy

\* Loading, unloading, and an exit that meets no addition.
LEMMA AddOutsideSteps ==
  ASSUME Task!TaskProcAssumption, TaskInv, AddInv,
         Task!my_init \/ Task!my_exit \/ (\E q \in Tasks : Task!exit(q))
           \/ UNCHANGED Task!vars
  PROVE  AddInv'
  <1>a. Task!TypeOK /\ Span \in Nat /\ Span > 0
    BY DEF TaskInv, Task!TaskProcAssumption
  <1>1. CASE Task!my_init \/ Task!my_exit \/ UNCHANGED Task!vars
    <2>1. /\ UNCHANGED <<taskAlive, pid_allocated, taskPc, found, pid_ns, nr_hashed,
                         added, torn>>
          /\ Task!Busy = {} \/ UNCHANGED <<pid_no, p_task>>
      BY <1>1 DEF Task!my_init, Task!my_exit, Task!vars, Task!local, Task!history,
                  TaskInv
    <2>2. \A n : Expected(n)' = Expected(n)
      BY <2>1, ExpectedStays
    <2>3. \A u \in Users : AddingInv(u) => AddingInv(u)'
      BY <2>1, <2>2 DEF AddingInv, Task!Busy
    <2>4. Task!Busy' = Task!Busy /\ \A n : Settled(n) => Settled(n)'
      BY <2>1, <2>2 DEF Settled, Task!Busy
    <2> QED
      BY <2>1, <2>3, <2>4 DEF AddInv
  <1>2. ASSUME NEW q \in Tasks, Task!exit(q) PROVE AddInv'
    <2>1. /\ q \in taskAlive /\ taskAlive' = taskAlive \ {q}
          /\ pid_allocated' = [pid_allocated EXCEPT
                                 ![NsOf[q]] = (@ + Span - 1) % Span]
          /\ torn' = (torn \/ \E u \in Users : taskPc[u] = "store")
          /\ UNCHANGED <<pid_no, p_task, taskPc, found, pid_ns, nr_hashed, added>>
      BY <1>2 DEF Task!exit, Task!local
    <2>2. Task!Busy' = Task!Busy
      BY <2>1 DEF Task!Busy
    <2>3. SUFFICES ASSUME ~torn' PROVE \A n \in Namespaces : Settled(n)'
      BY <2>1, <2>2, <2>3 DEF AddInv, AddingInv
    <2>4. \A u \in Users : taskPc[u] # "store"
      BY <2>1, <2>3
    <2>5. SUFFICES ASSUME NEW n \in Namespaces
                   PROVE  pid_allocated'[n] = Expected(n)'
      BY DEF Settled
    <2>6. pid_allocated[n] = Expected(n)
      BY <2>1, <2>3, <2>4 DEF AddInv, Settled
    <2>7. /\ taskAlive \subseteq Tasks /\ taskAlive' \subseteq Tasks
          /\ added[n] \in 0 .. Span - 1
      BY <1>a, <2>1 DEF Task!TypeOK
    <2>8. /\ IsFiniteSet(LivingSet(n)) /\ Cardinality(LivingSet(n)) \in Nat
          /\ Task!Living(n) = Cardinality(LivingSet(n)) % Span
      BY <2>7, LivingIs
    <2>9. Task!Living(n)' = Cardinality(LivingSet(n)') % Span
      BY Zenon DEF Task!Living, LivingSet, Cardinality, Task!Cardinality
    <2>10. CASE NsOf[q] = n
      <3> DEFINE k == Cardinality(LivingSet(n))
      <3>1. LivingSet(n)' = LivingSet(n) \ {q} /\ q \in LivingSet(n)
        BY <2>1, <2>10 DEF LivingSet
      <3>2. Cardinality(LivingSet(n) \ {q}) = k - 1
        BY <2>8, <3>1, FS_RemoveElement
      <3>3. k > 0
        <4>1. k - 1 \in Nat
          BY <2>8, <3>1, <3>2, FS_RemoveElement, FS_CardinalityType
        <4> QED
          BY <2>8, <4>1
      <3>4. Task!Living(n)' = (k - 1) % Span
        BY <2>9, <3>1, <3>2
      <3>5. ((((k % Span) + added[n]) % Span) + Span - 1) % Span
              = (((k - 1) % Span) + added[n]) % Span
        BY <1>a, <2>7, <2>8, <3>3, RemaindersSubtract
      <3>6. pid_allocated'[n] = (pid_allocated[n] + Span - 1) % Span
        BY <1>a, <2>1, <2>10 DEF Task!TypeOK
      <3>7. pid_allocated[n] = ((k % Span) + added[n]) % Span
        BY <2>6, <2>8 DEF Expected
      <3>8. Expected(n)' = (((k - 1) % Span) + added[n]) % Span
        BY <2>1, <3>4 DEF Expected
      <3> QED
        BY <3>5, <3>6, <3>7, <3>8
    <2>11. CASE NsOf[q] # n
      <3>1. LivingSet(n)' = LivingSet(n)
        BY <2>1, <2>11 DEF LivingSet
      <3>2. Task!Living(n)' = Task!Living(n)
        BY <2>8, <2>9, <3>1
      <3>3. pid_allocated'[n] = pid_allocated[n]
        BY <1>a, <2>1, <2>11 DEF Task!TypeOK
      <3> QED
        BY <2>1, <2>6, <3>2, <3>3 DEF Expected
    <2> QED
      BY <2>10, <2>11
  <1> QED
    BY <1>1, <1>2

\* A lookup begins alone, or the addition is torn.
LEMMA AddLooks ==
  ASSUME Task!TaskProcAssumption, TaskInv, AddInv, NEW u \in Users,
         \/ \E o \in {"read", "pid", "nr_hashed"} : Task!begins(u, o)
         \/ Task!loads_pid(u) \/ Task!finds(u) \/ Task!stores_task(u)
         \/ Task!uses(u)
  PROVE  AddInv'
  <1>a. Task!TypeOK
    BY DEF TaskInv
  <1>b. NoTask \notin taskAlive /\ taskAlive \subseteq Tasks
    BY <1>a DEF Task!TypeOK, Task!TaskProcAssumption
  <1>1. ASSUME NEW o \in {"read", "pid", "nr_hashed"}, Task!begins(u, o)
        PROVE  AddInv'
    <2>1. /\ Task!Goto(u, "idle", IF pid_no # NoTask THEN "find" ELSE "copy")
          /\ torn' = (torn \/ Task!Busy # {})
          /\ ~torn' => added' = added
          /\ UNCHANGED <<taskAlive, pid_allocated, pid_no, p_task, found, pid_ns,
                         nr_hashed>>
      BY <1>1, <1>a DEF Task!begins, Task!Looks, Task!TypeOK
    <2>2. /\ taskPc[u] = "idle" /\ taskPc'[u] \in {"find", "copy"}
          /\ \A v \in Users : v # u => taskPc'[v] = taskPc[v]
      BY <1>a, <2>1, TaskMoves DEF Task!Places
    <2>3. \A v \in Users : taskPc'[v] \in BeforeUse => pid_ns'[v] = NoNs
      BY <2>1, <2>2 DEF AddInv, BeforeUse
    <2>4. SUFFICES ASSUME ~torn'
                   PROVE  /\ \A v, w \in Task!Busy' : v = w
                          /\ \A v \in Users : AddingInv(v)'
                          /\ \A n \in Namespaces : Settled(n)'
      BY <2>3 DEF AddInv
    <2>5. ~torn /\ \A v \in Users : taskPc[v] = "idle"
      BY <2>1, <2>4 DEF Task!Busy
    <2>6. \A v \in Users : v # u => taskPc'[v] = "idle"
      BY <2>2, <2>5
    <2>7. \A v, w \in Task!Busy' : v = w
      BY <2>6 DEF Task!Busy
    <2>8. \A v \in Users : AddingInv(v)'
      BY <2>1, <2>2, <2>5, <2>6 DEF AddingInv, AddInv, BeforeUse
    <2>9. ASSUME NEW n \in Namespaces PROVE Settled(n)'
      <3>1. pid_allocated[n] = Expected(n)
        BY <2>5 DEF AddInv, Settled
      <3> QED
        BY <2>1, <2>4, <3>1, ExpectedStays DEF Settled
    <2> QED
      BY <2>7, <2>8, <2>9
  <1>2. CASE Task!loads_pid(u) \/ Task!finds(u) \/ Task!stores_task(u)
    <2>1. PICK from \in {"find", "look", "hold"}, to \in {"look", "hold", "use"} :
            /\ Task!Goto(u, from, to)
            /\ to = "look" => /\ from = "find" /\ UNCHANGED p_task
                              /\ found' = [found EXCEPT ![u] = pid_no]
            /\ to = "hold" => /\ from = "look" /\ UNCHANGED p_task
                              /\ found' = [found EXCEPT ![u] =
                                   IF found[u] \in taskAlive THEN found[u] ELSE NoTask]
            /\ to = "use"  => /\ from = "hold" /\ UNCHANGED found
                              /\ p_task' = found[u]
      BY <1>2 DEF Task!loads_pid, Task!finds, Task!stores_task, Task!local
    <2>2. UNCHANGED <<taskAlive, pid_allocated, pid_no, pid_ns, nr_hashed, added,
                      torn>>
      BY <1>2 DEF Task!loads_pid, Task!finds, Task!stores_task, Task!local,
                  Task!history
    <2>3. /\ taskPc[u] = from /\ taskPc'[u] = to
          /\ \A v \in Users : v # u => taskPc'[v] = taskPc[v]
      BY <1>a, <2>1, TaskMoves DEF Task!Places
    <2>4. \A v \in Users : taskPc'[v] \in BeforeUse => pid_ns'[v] = NoNs
      BY <2>2, <2>3 DEF AddInv, BeforeUse
    <2>5. SUFFICES ASSUME ~torn
                   PROVE  /\ \A v, w \in Task!Busy' : v = w
                          /\ \A v \in Users : AddingInv(v)'
                          /\ \A n \in Namespaces : Settled(n)'
      BY <2>2, <2>4 DEF AddInv
    <2>6. \A v \in Users : v # u => taskPc[v] = "idle"
      BY <2>3, <2>5 DEF AddInv, Task!Busy
    <2>7. \A v, w \in Task!Busy' : v = w
      BY <2>3, <2>6 DEF Task!Busy
    <2>8. AddingInv(u)'
      <3>1. AddingInv(u)
        BY <2>5 DEF AddInv
      <3> QED
        BY <1>a, <2>1, <2>2, <2>3, <3>1 DEF AddingInv, Task!TypeOK
    <2>9. \A v \in Users : AddingInv(v)'
      BY <2>3, <2>6, <2>8 DEF AddingInv
    <2>10. ASSUME NEW n \in Namespaces PROVE Settled(n)'
      <3>1. pid_allocated[n] = Expected(n)
        BY <2>3, <2>5, <2>6 DEF AddInv, Settled
      <3> QED
        BY <2>2, <3>1, ExpectedStays DEF Settled
    <2> QED
      BY <2>7, <2>9, <2>10
  <1>3. CASE Task!uses(u)
    <2>1. PICK q \in {p_task, found[u]} :
            IF q \in taskAlive
            THEN /\ Task!Goto(u, "use", "copy")
                 /\ IF op[u] = "nr_hashed"
                    THEN /\ pid_ns' = [pid_ns EXCEPT ![u] = NsOf[q]]
                         /\ nr_hashed' = [nr_hashed EXCEPT
                              ![u] = pid_allocated[NsOf[q]]]
                    ELSE UNCHANGED <<pid_ns, nr_hashed>>
            ELSE /\ Task!Goto(u, "use", "oops")
                 /\ UNCHANGED <<pid_ns, nr_hashed>>
      BY <1>3 DEF Task!uses
    <2>2. /\ found' = [found EXCEPT ![u] = NoTask]
          /\ UNCHANGED <<taskAlive, pid_allocated, pid_no, p_task, added, torn>>
      BY <1>3 DEF Task!uses, Task!history
    <2>3. /\ taskPc[u] = "use"
          /\ taskPc'[u] = IF q \in taskAlive THEN "copy" ELSE "oops"
          /\ \A v \in Users : v # u => taskPc'[v] = taskPc[v]
      BY <1>a, <2>1, TaskMoves DEF Task!Places
    <2>4. /\ \A v \in Users : v # u => pid_ns'[v] = pid_ns[v]
          /\ pid_ns'[u] \in {pid_ns[u], NsOf[q]}
      BY <1>a, <2>1 DEF Task!TypeOK
    <2>5. \A v \in Users : taskPc'[v] \in BeforeUse => pid_ns'[v] = NoNs
      BY <2>3, <2>4 DEF AddInv, BeforeUse
    <2>6. SUFFICES ASSUME ~torn
                   PROVE  /\ \A v, w \in Task!Busy' : v = w
                          /\ \A v \in Users : AddingInv(v)'
                          /\ \A n \in Namespaces : Settled(n)'
      BY <2>2, <2>5 DEF AddInv
    <2>7. \A v \in Users : v # u => taskPc[v] = "idle"
      BY <2>3, <2>6 DEF AddInv, Task!Busy
    <2>8. \A v, w \in Task!Busy' : v = w
      BY <2>3, <2>7 DEF Task!Busy
    <2>9. pid_ns[u] = NoNs /\ q \in {pid_no, NoTask}
      BY <2>3, <2>6 DEF AddInv, AddingInv, BeforeUse
    <2>10. AddingInv(u)'
      BY <1>b, <2>2, <2>3, <2>4, <2>9 DEF AddingInv
    <2>11. \A v \in Users : AddingInv(v)'
      BY <2>3, <2>7, <2>10 DEF AddingInv
    <2>12. ASSUME NEW n \in Namespaces PROVE Settled(n)'
      <3>1. pid_allocated[n] = Expected(n)
        BY <2>3, <2>6, <2>7 DEF AddInv, Settled
      <3> QED
        BY <2>2, <3>1, ExpectedStays DEF Settled
    <2> QED
      BY <2>8, <2>11, <2>12
  <1> QED
    BY <1>1, <1>2, <1>3

\* An access ends without an addition.
LEMMA AddReturns ==
  ASSUME Task!TaskProcAssumption, TaskInv, AddInv, NEW u \in Users,
         Task!Goto(u, "copy", "idle"), Task!Returns(u),
         UNCHANGED <<taskAlive, pid_allocated, added, torn>>
  PROVE  AddInv'
  <1>a. Task!TypeOK
    BY DEF TaskInv
  <1>1. /\ taskPc'[u] = "idle" /\ taskPc[u] = "copy"
        /\ \A v \in Users : v # u => taskPc'[v] = taskPc[v]
    BY <1>a, TaskMoves DEF Task!Places
  <1>2. pid_ns'[u] = NoNs /\ \A v \in Users : v # u => pid_ns'[v] = pid_ns[v]
    BY <1>a, ReturnTypes
  <1>3. \A v \in Users : taskPc'[v] \in BeforeUse => pid_ns'[v] = NoNs
    BY <1>1, <1>2 DEF AddInv, BeforeUse
  <1>4. SUFFICES ASSUME ~torn
                 PROVE  /\ \A v, w \in Task!Busy' : v = w
                        /\ \A v \in Users : AddingInv(v)'
                        /\ \A n \in Namespaces : Settled(n)'
    BY <1>3 DEF AddInv
  <1>5. \A v \in Users : taskPc'[v] = "idle"
    BY <1>1, <1>4 DEF AddInv, Task!Busy
  <1>6. ASSUME NEW n \in Namespaces PROVE Settled(n)'
    <2>1. pid_allocated[n] = Expected(n)
      BY <1>1, <1>4, <1>5 DEF AddInv, Settled
    <2> QED
      BY <2>1, ExpectedStays DEF Settled
  <1> QED
    BY <1>5, <1>6 DEF Task!Busy, AddingInv

LEMMA AddWrites ==
  ASSUME Task!TaskProcAssumption, TaskInv, AddInv, NEW u \in Users,
         \/ Task!returns(u) \/ Task!sets_pid(u) \/ Task!sets_nr_hashed(u)
         \/ Task!loads(u) \/ Task!stores(u)
  PROVE  AddInv'
  <1>a. Task!TypeOK /\ Span \in Nat /\ Span > 0 /\ NoNs \notin Namespaces
    BY DEF TaskInv, Task!TaskProcAssumption
  <1>b. ASSUME ~torn, taskPc[u] # "idle"
        PROVE  \A v \in Users : v # u => taskPc[v] = "idle"
    BY <1>b DEF AddInv, Task!Busy
  <1>1. CASE Task!returns(u) \/ Task!sets_pid(u)
    <2>1. /\ Task!Goto(u, "copy", "idle") /\ Task!Returns(u)
          /\ UNCHANGED <<taskAlive, pid_allocated, added, torn>>
      BY <1>1 DEF Task!returns, Task!sets_pid, Task!history
    <2> QED
      BY <2>1, AddReturns
  <1>2. CASE Task!sets_nr_hashed(u)
    <2>1. UNCHANGED <<taskAlive, pid_allocated, pid_no, p_task, found, added, torn>>
      BY <1>2 DEF Task!sets_nr_hashed, Task!history
    <2>2. CASE pid_ns[u] = NoNs
      BY <1>2, <2>1, <2>2, AddReturns DEF Task!sets_nr_hashed
    <2>3. CASE pid_ns[u] # NoNs
      <3>1. Task!Goto(u, "copy", "add") /\ UNCHANGED pid_ns
        BY <1>2, <2>3 DEF Task!sets_nr_hashed
      <3>2. /\ taskPc'[u] = "add" /\ taskPc[u] = "copy"
            /\ \A v \in Users : v # u => taskPc'[v] = taskPc[v]
        BY <1>a, <3>1, TaskMoves DEF Task!Places
      <3>3. \A v \in Users : taskPc'[v] \in BeforeUse => pid_ns'[v] = NoNs
        BY <3>1, <3>2 DEF AddInv, BeforeUse
      <3>4. SUFFICES ASSUME ~torn
                     PROVE  /\ \A v, w \in Task!Busy' : v = w
                            /\ \A v \in Users : AddingInv(v)'
                            /\ \A n \in Namespaces : Settled(n)'
        BY <2>1, <3>3 DEF AddInv
      <3>5. \A v \in Users : v # u => taskPc'[v] = "idle"
        BY <1>b, <3>2, <3>4
      <3>6. AddingInv(u)
        BY <3>4 DEF AddInv
      <3>7. \A v \in Users : AddingInv(v)'
        BY <2>1, <3>1, <3>2, <3>5, <3>6 DEF AddingInv
      <3>8. ASSUME NEW n \in Namespaces PROVE Settled(n)'
        <4>1. pid_allocated[n] = Expected(n)
          BY <1>b, <3>2, <3>4 DEF AddInv, Settled
        <4> QED
          BY <2>1, <4>1, ExpectedStays DEF Settled
      <3> QED
        BY <3>5, <3>7, <3>8 DEF Task!Busy
    <2> QED
      BY <2>2, <2>3
  <1>3. CASE Task!loads(u)
    <2>1. /\ Task!Goto(u, "add", "store")
          /\ nr_hashed' = [nr_hashed EXCEPT
               ![u] = (@ + pid_allocated[pid_ns[u]]) % Span]
          /\ added' = [n \in Namespaces |->
               IF ~torn /\ NsOf[pid_no] = n
               THEN (added[n] + nr_hashed[u]) % Span ELSE added[n]]
          /\ UNCHANGED <<taskAlive, pid_allocated, pid_no, p_task, found, pid_ns, torn>>
      BY <1>3 DEF Task!loads
    <2>2. /\ taskPc'[u] = "store" /\ taskPc[u] = "add"
          /\ \A v \in Users : v # u => taskPc'[v] = taskPc[v]
      BY <1>a, <2>1, TaskMoves DEF Task!Places
    <2>3. \A v \in Users : taskPc'[v] \in BeforeUse => pid_ns'[v] = NoNs
      BY <2>1, <2>2 DEF AddInv, BeforeUse
    <2>4. SUFFICES ASSUME ~torn
                   PROVE  /\ \A v, w \in Task!Busy' : v = w
                          /\ \A v \in Users : AddingInv(v)'
                          /\ \A n \in Namespaces : Settled(n)'
      BY <2>1, <2>3 DEF AddInv
    <2>5. \A v \in Users : v # u => taskPc'[v] = "idle" /\ taskPc[v] = "idle"
      BY <1>b, <2>2, <2>4
    <2>6. pid_ns[u] \in Namespaces /\ pid_no \in Tasks /\ pid_ns[u] = NsOf[pid_no]
      <3>1. pid_ns[u] \in Namespaces
        BY <2>2 DEF TaskInv
      <3> QED
        BY <1>a, <2>2, <2>4, <3>1 DEF AddInv, AddingInv
    <2>7. \A n \in Namespaces : pid_allocated[n] = Expected(n)
      BY <2>2, <2>4, <2>5 DEF AddInv, Settled
    <2>8. \A n : Task!Living(n)' = Task!Living(n)
      BY <2>1 DEF Task!Living
    <2>9. nr_hashed'[u] = Expected(pid_ns[u])'
      <3> DEFINE n == pid_ns[u]
      <3>1. nr_hashed'[u] = (nr_hashed[u] + pid_allocated[n]) % Span
        BY <1>a, <2>1 DEF Task!TypeOK
      <3>2. pid_allocated[n] = (Task!Living(n) + added[n]) % Span
        BY <2>6, <2>7 DEF Expected
      <3>3. added'[n] = (added[n] + nr_hashed[u]) % Span
        BY <2>1, <2>4, <2>6
      <3>4. /\ Task!Living(n) \in 0 .. Span - 1
            /\ added[n] \in 0 .. Span - 1 /\ nr_hashed[u] \in 0 .. Span - 1
        BY <1>a, <2>6, LivingIs DEF Task!TypeOK
      <3>5. (nr_hashed[u] + ((Task!Living(n) + added[n]) % Span)) % Span
              = (Task!Living(n) + ((added[n] + nr_hashed[u]) % Span)) % Span
        BY <1>a, <3>4, RemaindersAdd
      <3>6. Expected(n)' = (Task!Living(n) + added'[n]) % Span
        BY <2>1, <2>8 DEF Expected
      <3> QED
        BY <3>1, <3>2, <3>3, <3>5, <3>6
    <2>10. \A v \in Users : AddingInv(v)'
      BY <2>1, <2>2, <2>5, <2>6, <2>9 DEF AddingInv
    <2>11. ASSUME NEW n \in Namespaces PROVE Settled(n)'
      <3>1. CASE n = pid_ns[u]
        BY <2>1, <2>2, <3>1 DEF Settled
      <3>2. CASE n # pid_ns[u]
        <4>1. added'[n] = added[n]
          BY <2>1, <2>6, <3>2
        <4> QED
          BY <2>1, <2>7, <2>8, <4>1 DEF Settled, Expected
      <3> QED
        BY <3>1, <3>2
    <2> QED
      BY <2>5, <2>10, <2>11 DEF Task!Busy
  <1>4. CASE Task!stores(u)
    <2>1. /\ Task!Goto(u, "store", "idle") /\ Task!Returns(u)
          /\ pid_allocated' = [pid_allocated EXCEPT ![pid_ns[u]] = nr_hashed[u]]
          /\ UNCHANGED <<taskAlive, pid_no, p_task, found, added, torn>>
      BY <1>4 DEF Task!stores, Task!history
    <2>2. /\ taskPc'[u] = "idle" /\ taskPc[u] = "store"
          /\ \A v \in Users : v # u => taskPc'[v] = taskPc[v]
      BY <1>a, <2>1, TaskMoves DEF Task!Places
    <2>3. pid_ns'[u] = NoNs /\ \A v \in Users : v # u => pid_ns'[v] = pid_ns[v]
      BY <1>a, <2>1, ReturnTypes
    <2>4. \A v \in Users : taskPc'[v] \in BeforeUse => pid_ns'[v] = NoNs
      BY <2>2, <2>3 DEF AddInv, BeforeUse
    <2>5. SUFFICES ASSUME ~torn
                   PROVE  /\ \A v, w \in Task!Busy' : v = w
                          /\ \A v \in Users : AddingInv(v)'
                          /\ \A n \in Namespaces : Settled(n)'
      BY <2>1, <2>4 DEF AddInv
    <2>6. \A v \in Users : taskPc'[v] = "idle"
      BY <1>b, <2>2, <2>5
    <2>7. nr_hashed[u] = Expected(pid_ns[u])
      BY <2>2, <2>5 DEF AddInv, AddingInv
    <2>8. ASSUME NEW n \in Namespaces PROVE pid_allocated'[n] = Expected(n)
      <3>1. CASE n = pid_ns[u]
        BY <1>a, <2>1, <2>7, <3>1 DEF Task!TypeOK
      <3>2. CASE n # pid_ns[u]
        <4>1. pid_allocated'[n] = pid_allocated[n]
          BY <1>a, <2>1, <3>2 DEF Task!TypeOK
        <4>2. Settled(n) /\ \A v \in Users : taskPc[v] = "store" => v = u
          BY <1>b, <2>2, <2>5 DEF AddInv
        <4> QED
          BY <3>2, <4>1, <4>2 DEF Settled
      <3> QED
        BY <3>1, <3>2
    <2>9. \A n \in Namespaces : Settled(n)'
      BY <2>1, <2>8, ExpectedStays DEF Settled
    <2> QED
      BY <2>6, <2>9 DEF Task!Busy, AddingInv
  <1> QED
    BY <1>1, <1>2, <1>3, <1>4

LEMMA AddStep ==
  ASSUME Task!TaskProcAssumption, TaskInv, AddInv, [Task!Next]_(Task!vars)
  PROVE  AddInv'
  BY AddOutsideSteps, AddLooks, AddWrites DEF Task!Next, Task!Access

---------------------------------------------------------------------------
\* The nodes of /proc together: while one module runs, the others stand still.
ProcInv == ParInv /\ SigInv /\ TaskInv /\ AddInv

LEMMA ProcInitially == ASSUME ProcInit PROVE ProcInv
  BY ProcAssumption, ParInit, SigInit, TaskInit, AddInit DEF ProcInit, ProcInv

LEMMA ProcSteps == ASSUME ProcInv, [ProcNext]_procVars PROVE ProcInv'
  <1>1. /\ [Par!Next]_(Par!vars) /\ [Sig!Next]_(Sig!vars)
        /\ [Task!Next]_(Task!vars)
    <2>1. parVars' = parVars => UNCHANGED Par!vars
      BY DEF parVars, Par!vars, Par!readerVars
    <2>2. sigVars' = sigVars => UNCHANGED Sig!vars
      BY DEF sigVars, Sig!vars, Sig!history
    <2>3. taskVars' = taskVars => UNCHANGED Task!vars
      BY DEF taskVars, Task!vars, Task!local, Task!history
    <2> QED
      BY <2>1, <2>2, <2>3 DEF ProcNext, procVars
  <1> QED
    BY <1>1, ProcAssumption, ParStep, SigStep, TaskStep, AddStep DEF ProcInv

THEOREM ProcInvariant == ProcSpec => []ProcInv
  BY ProcInitially, ProcSteps, PTL DEF ProcSpec

(***************************************************************************)
(* The variables of the /proc modules keep their types: the file offsets   *)
(* of my_proc_read() stay within a text, and pid_allocated and the numbers *)
(* written to it within an unsigned int.                                   *)
(***************************************************************************)
THEOREM ProcTypeCorrect == ProcSpec => []ProcTypeOK
  <1>1. ProcInv => ProcTypeOK
    BY DEF ProcInv, ParInv, SigInv, TaskInv, ProcTypeOK
  <1> QED
    BY <1>1, ProcInvariant, PTL

(***************************************************************************)
(* A reader of a parameter that is not written meanwhile gets it from      *)
(* my_proc_read() exactly once before the end of the file, whatever the    *)
(* length of its text.                                                     *)
(***************************************************************************)
THEOREM ParameterReadOnce == ProcSpec => []ReadOnce
  <1>1. ProcInv => ReadOnce
    BY DEF ProcInv, ParInv, Undisturbed, ReaderInv, ReadOnce, Par!ReadOnce
  <1> QED
    BY <1>1, ProcInvariant, PTL

(***************************************************************************)
(* A write to "signal" of sig_proc.c that no other write overlaps sends    *)
(* its signal to the process it has printed, provided that the latest      *)
(* choice of a process was made by one writer alone: two writers of "pid"  *)
(* can leave the pid of one process and the task of another.               *)
(***************************************************************************)
THEOREM NamedIsSignalled == ProcSpec => []SignalsTheNamed
  <1>1. ProcInv => SignalsTheNamed
    BY SigInvImplies DEF ProcInv, SignalsTheNamed
  <1> QED
    BY <1>1, ProcInvariant, PTL

(***************************************************************************)
(* Although task_proc.c looks at pid_no twice and shares p_task, no access *)
(* dereferences NULL while every process that was named lives.             *)
(***************************************************************************)
THEOREM NamedLiveNoOops == ProcSpec => []NoOopsWhileNamedLive
  <1>1. ProcInv => NoOopsWhileNamedLive
    BY DEF ProcInv, TaskInv, LookupInv, NoOopsWhileNamedLive,
           Task!NoOopsWhileNamedLive
  <1> QED
    BY <1>1, ProcInvariant, PTL

(***************************************************************************)
(* The additions to pid_allocated through "nr_hashed" that overlap with    *)
(* nothing add up, for every width of the counter and every number of      *)
(* processes and namespaces.                                               *)
(***************************************************************************)
THEOREM AdditionsAddUp == ProcSpec => []AddsAddUp
  <1>1. ProcInv => AddsAddUp
    BY DEF ProcInv, AddInv, Settled, Expected, AddsAddUp, Task!AddsAddUp
  <1> QED
    BY <1>1, ProcInvariant, PTL
---------------------------------------------------------------------------
(***************************************************************************)
(* Morse, the speaker.  While the gate is open somebody sounds; a writer   *)
(* that is not crowded is alone, opens and closes the gate itself, and     *)
(* finds the PIT as it has left it.  Nobody writes before cdev_add(), and  *)
(* what can be held when a step of morse_init() fails is the region.       *)
(***************************************************************************)
PitchInv(w) ==
  /\ gate <=> pc[w] \in Sounding
  /\ pc[w] = "low" => pit.next = "low"
  /\ pc[w] = "high" => pit.next = "high" /\ pit.low = LowByte(Divisor(w))
  /\ pc[w] = "tone" => pit.divisor = Divisor(w)

SpeakerInv ==
  /\ step <= 1 => held = {}
  /\ step = 2 => held \subseteq {"region"}
  /\ step <= 3 => "live" \notin held /\ Busy = {}
  /\ gate => \E w \in Writers : pc[w] \in Sounding
  /\ \A w \in Busy \ crowded : Busy = {w} /\ PitchInv(w)

(***************************************************************************)
(* Morse, the letters.  sent[w] has an entry for each character that was   *)
(* taken, all complete but the last one while its letter is played.  What  *)
(* is left in c then is the code of the letter without the signals that    *)
(* have been played.                                                       *)
(***************************************************************************)
Powers == <<1, 2, 4, 8, 16>>

\* The code of a letter after k signals.
Rest(l, k) == codes[l + 33] \div Powers[k + 1]

\* What is played for a character.
Played(ch) == IF LetterNo(ch) = 0 THEN <<>> ELSE InMorse(ch)

TakenInv(w) ==
  /\ Len(asked[w]) = Len(sent[w]) + Len(text[w])
  /\ \A i \in 1 .. Len(text[w]) : text[w][i] = asked[w][Len(sent[w]) + i]
  /\ \A i \in 1 .. Len(sent[w]) :
       i < Len(sent[w]) \/ pc[w] = "char" => sent[w][i] = Played(asked[w][i])

LetterInv(w) ==
  LET last   == sent[w][Len(sent[w])]
      letter == LetterNo(asked[w][Len(sent[w])])
      code   == International[letter]
  IN  /\ Len(sent[w]) > 0 /\ letter # 0
      /\ Len(last) <= Len(code)
      /\ \A i \in 1 .. Len(last) : last[i] = code[i]
      /\ c[w] = Rest(letter, Len(last))

WriterInv(w) ==
  /\ pc[w] = "idle" => sent[w] = <<>>
  /\ pc[w] # "idle" => TakenInv(w)
  /\ pc[w] \notin {"idle", "char"} => LetterInv(w)

PlayInv == \A w \in Writers : WriterInv(w)

MorseInv == TypeOK /\ SpeakerInv /\ PlayInv

\* The table on its own: the characters that have a code are the letters, ...
LEMMA CharacterIs ==
  ASSUME NEW ch \in 1 .. 255
  PROVE  /\ LetterNo(ch) \in 0 .. 26
         /\ Skipped(ch) <=> LetterNo(ch) = 0
         /\ ~Skipped(ch) => Code(ch) = codes[LetterNo(ch) + 33]
  <1>1. LetterNo(ch) \in 0 .. 26 /\ (Skipped(ch) <=> LetterNo(ch) = 0)
    BY DEF LetterNo, Skipped, ToUpper
  <1>2. ~Skipped(ch) => ToUpper(ch) - 32 + 1 = LetterNo(ch) + 33
    BY DEF LetterNo, Skipped, ToUpper
  <1> QED
    BY <1>1, <1>2 DEF Code

\* ... and their codes, lowest bit first, are the international ones.
LowestFirst(l) ==
  LET code == International[l]
  IN  /\ code \in Seq({".", "-"}) /\ codes[l + 33] = Rest(l, 0)
      /\ \A k \in 0 .. Len(code) :
           /\ Rest(l, k) \in 0 .. 255
           /\ Rest(l, k) > 1 <=> k < Len(code)
           /\ k < Len(code) =>
                /\ Rest(l, k) \div 2 = Rest(l, k + 1)
                /\ code[k + 1] = IF Rest(l, k) % 2 = 1 THEN "-" ELSE "."

LEMMA CodesAreInternational == ASSUME NEW l \in 1 .. 26 PROVE LowestFirst(l)
  <1>1. /\ Powers[1] = 1 /\ Powers[2] = 2 /\ Powers[3] = 4
        /\ Powers[4] = 8 /\ Powers[5] = 16
    BY DEF Powers
  <1> USE <1>1 DEF LowestFirst, Rest, codes, International
  <1>2. LowestFirst(1) OBVIOUS
  <1>3. LowestFirst(2) OBVIOUS
  <1>4. LowestFirst(3) OBVIOUS
  <1>5. LowestFirst(4) OBVIOUS
  <1>6. LowestFirst(5) OBVIOUS
  <1>7. LowestFirst(6) OBVIOUS
  <1>8. LowestFirst(7) OBVIOUS
  <1>9. LowestFirst(8) OBVIOUS
  <1>10. LowestFirst(9) OBVIOUS
  <1>11. LowestFirst(10) OBVIOUS
  <1>12. LowestFirst(11) OBVIOUS
  <1>13. LowestFirst(12) OBVIOUS
  <1>14. LowestFirst(13) OBVIOUS
  <1>15. LowestFirst(14) OBVIOUS
  <1>16. LowestFirst(15) OBVIOUS
  <1>17. LowestFirst(16) OBVIOUS
  <1>18. LowestFirst(17) OBVIOUS
  <1>19. LowestFirst(18) OBVIOUS
  <1>20. LowestFirst(19) OBVIOUS
  <1>21. LowestFirst(20) OBVIOUS
  <1>22. LowestFirst(21) OBVIOUS
  <1>23. LowestFirst(22) OBVIOUS
  <1>24. LowestFirst(23) OBVIOUS
  <1>25. LowestFirst(24) OBVIOUS
  <1>26. LowestFirst(25) OBVIOUS
  <1>27. LowestFirst(26) OBVIOUS
  <1> HIDE <1>1 DEF LowestFirst, Rest, codes, International
  <1>28. l \in {1, 2, 3, 4, 5, 6, 7, 8, 9, 10, 11, 12, 13, 14, 15, 16, 17, 18, 19,
              20, 21, 22, 23, 24, 25, 26}
    OBVIOUS
  <1> QED
    BY <1>2, <1>3, <1>4, <1>5, <1>6, <1>7, <1>8, <1>9, <1>10, <1>11, <1>12, <1>13, <1>14,
       <1>15, <1>16, <1>17, <1>18, <1>19, <1>20, <1>21,
       <1>22, <1>23, <1>24, <1>25, <1>26, <1>27, <1>28

LEMMA LetterIs ==
  ASSUME NEW ch \in 1 .. 255, ~Skipped(ch)
  PROVE  /\ LetterNo(ch) \in 1 .. 26 /\ Code(ch) = Rest(LetterNo(ch), 0)
         /\ Code(ch) \in 0 .. 255 /\ Code(ch) # MORSE_SPACE_MASK
  <1>1. LetterNo(ch) \in 1 .. 26 /\ Code(ch) = codes[LetterNo(ch) + 33]
    BY CharacterIs, SMTT(30)
  <1>2. LowestFirst(LetterNo(ch))
    BY <1>1, CodesAreInternational
  <1>3. Rest(LetterNo(ch), 0) \in 0 .. 255 /\ Code(ch) = Rest(LetterNo(ch), 0)
    <2>1. Len(International[LetterNo(ch)]) \in Nat
      BY <1>2, LenProperties DEF LowestFirst
    <2>2. 0 \in 0 .. Len(International[LetterNo(ch)])
      BY <2>1
    <2>3. Rest(LetterNo(ch), 0) \in 0 .. 255
      BY <1>2, <2>2, Zenon DEF LowestFirst
    <2> QED
      BY <1>1, <1>2, <2>3, Zenon DEF LowestFirst
  <1> QED
    BY <1>1, <1>3 DEF MORSE_SPACE_MASK

LEMMA SendsIs ==
  ASSUME TypeOK, NEW w \in Writers, Len(sent[w]) > 0, NEW signal \in Signals,
         Sends(w, signal)
  PROVE  /\ sent' \in [Writers -> Seq(Seq(Signals))]
         /\ \A v \in Writers : v # w => sent'[v] = sent[v]
         /\ Len(sent'[w]) = Len(sent[w])
         /\ \A i \in 1 .. Len(sent[w]) :
              sent'[w][i] = IF i = Len(sent[w]) THEN Append(sent[w][i], signal)
                                                ELSE sent[w][i]
  <1> DEFINE s == sent[w]
             e == Append(s[Len(s)], signal)
  <1>1. s \in Seq(Seq(Signals)) /\ sent \in [Writers -> Seq(Seq(Signals))]
    BY DEF TypeOK
  <1>2. Len(s) \in 1 .. Len(s)
    BY <1>1, LenProperties
  <1>3. s[Len(s)] \in Seq(Signals)
    BY <1>1, <1>2, LenProperties
  <1>4. e \in Seq(Signals)
    BY <1>3, AppendProperties
  <1>5. sent' = [sent EXCEPT ![w] = [s EXCEPT ![Len(s)] = e]]
    BY DEF Sends
  <1> HIDE DEF s, e
  <1>6. /\ [s EXCEPT ![Len(s)] = e] \in Seq(Seq(Signals))
        /\ Len([s EXCEPT ![Len(s)] = e]) = Len(s)
        /\ \A j \in 1 .. Len(s) :
             [s EXCEPT ![Len(s)] = e][j] = IF j = Len(s) THEN e ELSE s[j]
    BY <1>1, <1>2, <1>4, ExceptSeq
  <1>7. /\ sent'[w] = [s EXCEPT ![Len(s)] = e]
        /\ \A v \in Writers : v # w => sent'[v] = sent[v]
        /\ sent' \in [Writers -> Seq(Seq(Signals))]
    BY <1>1, <1>5, <1>6
  <1> QED
    BY <1>6, <1>7 DEF s, e

\* A writer moves on.
LEMMA MorseMoves ==
  ASSUME TypeOK, NEW w \in Writers, NEW to \in Silent \cup Sounding,
         pc' = [pc EXCEPT ![w] = to]
  PROVE  /\ pc' \in [Writers -> Silent \cup Sounding] /\ pc'[w] = to
         /\ \A v \in Writers : v # w => pc'[v] = pc[v]
  BY DEF TypeOK

LEMMA MorseInit == ASSUME Init PROVE MorseInv
  <1>1. TypeOK
    <2>1. /\ text \in [Writers -> Seq(1 .. 255)] /\ asked \in [Writers -> Seq(1 .. 255)]
          /\ sent \in [Writers -> Seq(Seq(Signals))]
      BY EmptySeq DEF Init
    <2>2. /\ pit \in [next : {"low", "high"}, low : 0 .. 255, divisor : Divisors]
          /\ c \in [Writers -> 0 .. 255]
      <3>1. 0 \in Divisors
        BY DEF Divisors
      <3> QED
        BY <3>1 DEF Init
    <2>3. step \in 0 .. 6
      BY DEF Init
    <2> QED
      BY <2>1, <2>2, <2>3, Zenon DEF Init, TypeOK, Silent
  <1>2. SpeakerInv /\ PlayInv
    BY DEF Init, SpeakerInv, PlayInv, WriterInv, Busy
  <1> QED
    BY <1>1, <1>2 DEF MorseInv

\* The divisors of all minor numbers fit the counter of the PIT.
LEMMA DivisorIs ==
  ASSUME NEW w \in Writers
  PROVE  /\ Divisor(w) \in {596, 298, 198}
         /\ LowByte(Divisor(w)) \in 0 .. 255 /\ HighByte(Divisor(w)) \in 0 .. 255
         /\ 256 * HighByte(Divisor(w)) + LowByte(Divisor(w)) = Divisor(w)
  <1>1. minor_no[w] \in {1, 2, 3}
    BY WriterAssumption
  <1>2. Divisor(w) \in {596, 298, 198}
    BY <1>1 DEF Divisor, MORSE_CLK_FREQ, MORSE_FREQUENCY
  <1> QED
    BY <1>2 DEF LowByte, HighByte

LEMMA BytesFit ==
  ASSUME NEW i \in Nat, i < 256, NEW j \in Nat, j < 256 PROVE 256 * i + j \in Divisors
  BY DEF Divisors

LEMMA PitDataIs ==
  ASSUME TypeOK, NEW byte \in 0 .. 255, PitData(byte)
  PROVE  /\ pit' \in [next : {"low", "high"}, low : 0 .. 255, divisor : Divisors]
         /\ pit.next = "low" => pit'.next = "high" /\ pit'.low = byte
         /\ pit.next = "high" => pit'.divisor = 256 * byte + pit.low
  <1>1. /\ pit.next \in {"low", "high"} /\ pit.low \in 0 .. 255
        /\ pit \in [next : {"low", "high"}, low : 0 .. 255, divisor : Divisors]
    BY DEF TypeOK
  <1>2. byte \in Nat /\ byte < 256 /\ pit.low \in Nat /\ pit.low < 256
    BY <1>1
  <1>3. 256 * byte + pit.low \in Divisors
    BY <1>2, BytesFit
  <1> QED
    BY <1>1, <1>3 DEF PitData

\* The steps of morse_init().
LEMMA InitSteps ==
  ASSUME held \subseteq Resources, morse_init
  PROVE  /\ step \in {1, 2, 3, 4, 5} /\ step' = step + 1
         /\ held' \subseteq Resources
         /\ step = 1 => held' = held \cup {"region"}
         /\ step = 2 => held' = held \cup {"cdev"}
  <1>1. step \in {1, 2, 3, 4, 5} /\ step' = step + 1
    BY DEF morse_init, InitOrder
  <1>2. CASE step = 1
    <2>1. held' = held \cup {"region"}
      BY <1>2 DEF morse_init, InitOrder, Acquired
    <2> QED
      BY <1>1, <1>2, <2>1 DEF Resources
  <1>3. CASE step = 2
    <2>1. held' = held \cup {"cdev"}
      BY <1>3 DEF morse_init, InitOrder, Acquired
    <2> QED
      BY <1>1, <1>3, <2>1 DEF Resources
  <1>4. CASE step \in {3, 4, 5}
    <2>1. Acquired[InitOrder[step]] \in Resources
      BY <1>4 DEF InitOrder, Acquired, Resources
    <2> QED
      BY <1>1, <1>4, <2>1 DEF morse_init
  <1> QED
    BY <1>1, <1>2, <1>3, <1>4

LEMMA MorseTypeStep == ASSUME MorseInv, [Next]_vars PROVE TypeOK'
  <1>a. TypeOK
    BY DEF MorseInv
  <1>b. /\ step \in 0 .. 6 /\ held \subseteq Resources /\ gate \in BOOLEAN
        /\ pit \in [next : {"low", "high"}, low : 0 .. 255, divisor : Divisors]
        /\ pc \in [Writers -> Silent \cup Sounding] /\ value \in [Writers -> BOOLEAN]
        /\ text \in [Writers -> Seq(1 .. 255)] /\ c \in [Writers -> 0 .. 255]
        /\ asked \in [Writers -> Seq(1 .. 255)]
        /\ sent \in [Writers -> Seq(Seq(Signals))] /\ crowded \subseteq Writers
    BY <1>a DEF TypeOK
  <1>c. \A w \in Writers, to \in Silent \cup Sounding :
          pc' = [pc EXCEPT ![w] = to] => pc' \in [Writers -> Silent \cup Sounding]
    BY <1>b
  <1>d. \A w \in Writers, n \in 0 .. 255 :
          c' = [c EXCEPT ![w] = n] => c' \in [Writers -> 0 .. 255]
    <2>1. c \in [Writers -> 0 .. 255]
      BY <1>b
    <2> QED
      BY <2>1
  <1>1. CASE insmod \/ morse_init \/ morse_init_fails \/ morse_exit
    <2>1. UNCHANGED <<gate, pit, pc, value, text, c, asked, sent, crowded>>
      BY <1>1 DEF insmod, morse_init, morse_init_fails, morse_exit, otherVars
    <2>2. step' \in 0 .. 6 /\ held' \subseteq Resources
      <3>1. CASE insmod
        BY <1>b, <3>1 DEF insmod
      <3>2. CASE morse_init
        BY <1>b, <3>2, InitSteps
      <3>3. CASE morse_init_fails \/ morse_exit
        BY <1>b, <3>3 DEF morse_init_fails, morse_exit
      <3> QED
        BY <1>1, <3>1, <3>2, <3>3
    <2> QED
      BY <1>b, <2>1, <2>2, Zenon DEF TypeOK
  <1>2. ASSUME NEW w \in Writers, m_write(w) PROVE TypeOK'
    <2>1. /\ pc' = [pc EXCEPT ![w] = "char"]
          /\ crowded' \in {crowded \ {w}, crowded \cup Busy \cup {w}}
          /\ UNCHANGED <<step, held, gate, pit, value, c, sent>>
      BY <1>2 DEF m_write, modVars
    <2>2. PICK t \in Texts[w] : /\ text' = [text EXCEPT ![w] = t]
                                /\ asked' = [asked EXCEPT ![w] = t]
      BY <1>2 DEF m_write
    <2>3. t \in Seq(1 .. 255)
      BY WriterAssumption
    <2>4. /\ text' \in [Writers -> Seq(1 .. 255)] /\ asked' \in [Writers -> Seq(1 .. 255)]
      BY <1>b, <2>2, <2>3
    <2>5. pc' \in [Writers -> Silent \cup Sounding] /\ crowded' \subseteq Writers
      BY <1>b, <1>c, <2>1 DEF Busy, Silent
    <2> QED
      BY <1>b, <2>1, <2>4, <2>5, Zenon DEF TypeOK
  <1>3. ASSUME NEW w \in Writers, morse_returns(w) PROVE TypeOK'
    <2>1. /\ pc' = [pc EXCEPT ![w] = "idle"] /\ c' = [c EXCEPT ![w] = 0]
          /\ asked' = [asked EXCEPT ![w] = <<>>] /\ sent' = [sent EXCEPT ![w] = <<>>]
          /\ value' = [value EXCEPT ![w] = FALSE] /\ crowded' = crowded \ {w}
          /\ UNCHANGED <<step, held, gate, pit, text>>
      BY <1>3 DEF morse_returns, modVars
    <2>2. /\ asked' \in [Writers -> Seq(1 .. 255)]
          /\ sent' \in [Writers -> Seq(Seq(Signals))]
      BY <1>b, <2>1, EmptySeq
    <2>3. pc' \in [Writers -> Silent \cup Sounding] /\ c' \in [Writers -> 0 .. 255]
      <3>1. pc' = [pc EXCEPT ![w] = "idle"] /\ c' = [c EXCEPT ![w] = 0]
        BY <2>1
      <3> QED
        <4>1. "idle" \in Silent \cup Sounding
          BY DEF Silent
        <4>2. 0 \in 0 .. 255
          OBVIOUS
        <4>3. c' \in [Writers -> 0 .. 255]
          BY <1>d, <3>1, <4>2, Zenon
        <4> QED
          BY <1>c, <3>1, <4>1, <4>3
    <2>4. value' \in [Writers -> BOOLEAN] /\ crowded' \subseteq Writers
      BY <1>b, <2>1
    <2> QED
      BY <1>b, <2>1, <2>2, <2>3, <2>4, Zenon DEF TypeOK
  <1>4. ASSUME NEW w \in Writers, NextChar(w) PROVE TypeOK'
    <2> DEFINE ch == Head(text[w])
    <2>1. ch \in 1 .. 255 /\ Tail(text[w]) \in Seq(1 .. 255)
      BY <1>4, <1>b, HeadTailProperties DEF NextChar
    <2>2. /\ text' = [text EXCEPT ![w] = Tail(@)]
          /\ UNCHANGED <<step, held, gate, pit, value, asked, crowded>>
      BY <1>4 DEF NextChar, modVars
    <2>3. text' \in [Writers -> Seq(1 .. 255)]
      BY <1>b, <2>1, <2>2
    <2>4. /\ sent' = [sent EXCEPT ![w] = Append(@, <<>>)]
          /\ \/ Skipped(ch) /\ UNCHANGED <<pc, c>>
             \/ /\ ~Skipped(ch) /\ c' = [c EXCEPT ![w] = Code(ch)]
                /\ pc' = [pc EXCEPT ![w] = "bits"]
      BY <1>4, <2>1, LetterIs DEF NextChar
    <2>5. Append(sent[w], <<>>) \in Seq(Seq(Signals))
      BY <1>b, EmptySeq, AppendProperties
    <2>6. sent' \in [Writers -> Seq(Seq(Signals))]
      BY <1>b, <2>4, <2>5
    <2>7. pc' \in [Writers -> Silent \cup Sounding]
      BY <1>b, <1>c, <2>4 DEF Silent
    <2>8. c' \in [Writers -> 0 .. 255]
      <3>1. ~Skipped(ch) => Code(ch) \in 0 .. 255
        BY <2>1, LetterIs
      <3> QED
        BY <1>b, <1>d, <2>4, <3>1
    <2> QED
      BY <1>b, <2>2, <2>3, <2>6, <2>7, <2>8, Zenon DEF TypeOK
  <1>5. ASSUME NEW w \in Writers, NextBit(w) \/ letter_space(w) PROVE TypeOK'
    <2>1. /\ pc[w] = "bits" /\ \E signal \in Signals : Sends(w, signal)
          /\ UNCHANGED <<step, held, gate, pit, value, text, asked, crowded>>
      BY <1>5 DEF NextBit, letter_space, modVars, Signals
    <2>2. Len(sent[w]) > 0
      BY <2>1 DEF MorseInv, PlayInv, WriterInv, LetterInv
    <2>3. sent' \in [Writers -> Seq(Seq(Signals))]
      BY <1>a, <2>1, <2>2, SendsIs
    <2>4. c' \in [Writers -> 0 .. 255]
      <3>1. \A i \in 0 .. 255 : i \div 2 \in 0 .. 255
        OBVIOUS
      <3> QED
        <4>1. c[w] \in 0 .. 255
          BY <1>b
        <4>2. c' = c \/ c' = [c EXCEPT ![w] = c[w] \div 2]
          BY <1>5 DEF NextBit, letter_space
        <4> QED
          BY <1>b, <1>d, <3>1, <4>1, <4>2
    <2>5. pc' \in [Writers -> Silent \cup Sounding]
      BY <1>5, <1>b, <1>c DEF NextBit, letter_space, Silent
    <2> QED
      BY <1>b, <2>1, <2>3, <2>4, <2>5, Zenon DEF TypeOK
  <1>6. ASSUME NEW w \in Writers,
               \/ sound_reads(w) \/ sound_opens(w) \/ sound_setup(w)
               \/ sound_low(w) \/ sound_high(w) \/ nosound(w)
        PROVE  TypeOK'
    <2>1. UNCHANGED <<step, held, text, c, asked, sent, crowded>>
      BY <1>6 DEF sound_reads, sound_opens, sound_setup, sound_low, sound_high,
                  nosound, modVars, soundVars
    <2>2. pc' \in [Writers -> Silent \cup Sounding]
      <3>1. \E to \in Silent \cup Sounding : pc' = [pc EXCEPT ![w] = to]
        BY <1>6 DEF sound_reads, sound_opens, sound_setup, sound_low, sound_high,
                    nosound, Goto, Silent, Sounding
      <3> QED
        BY <1>c, <3>1
    <2>3. value' \in [Writers -> BOOLEAN]
      BY <1>6, <1>b, Zenon DEF sound_reads, sound_opens, sound_setup, sound_low,
                               sound_high, nosound
    <2>4. gate' \in BOOLEAN
      BY <1>6, <1>b, Zenon DEF sound_reads, sound_opens, sound_setup, sound_low,
                               sound_high, nosound
    <2>5. pit' \in [next : {"low", "high"}, low : 0 .. 255, divisor : Divisors]
      <3>1. CASE \E byte \in 0 .. 255 : PitData(byte)
        BY <1>a, <3>1, PitDataIs
      <3>2. CASE pit' = pit \/ pit' = [pit EXCEPT !.next = "low"]
        <4>1. pit \in [next : {"low", "high"}, low : 0 .. 255, divisor : Divisors]
          BY <1>b, Zenon
        <4> QED
          BY <3>2, <4>1
      <3> QED
        BY <1>6, <3>1, <3>2, DivisorIs DEF sound_reads, sound_opens, sound_setup,
                                         sound_low, sound_high, nosound
    <2> QED
      BY <1>b, <2>1, <2>2, <2>3, <2>4, <2>5, Zenon DEF TypeOK
  <1>7. CASE UNCHANGED vars
    <2>1. UNCHANGED <<step, held, gate, pit, pc, value, text, c, asked, sent, crowded>>
      BY <1>7 DEF vars, modVars
    <2> QED
      BY <1>b, <2>1, Zenon DEF TypeOK
  <1> QED
    BY <1>1, <1>2, <1>3, <1>4, <1>5, <1>6, <1>7 DEF Next, Step

LEMMA SpeakerOutsideSteps ==
  ASSUME MorseInv,
         insmod \/ morse_init \/ morse_init_fails \/ morse_exit \/ UNCHANGED vars
  PROVE  SpeakerInv'
  <1>a. SpeakerInv /\ Busy \subseteq Writers /\ held \subseteq Resources
    BY DEF MorseInv, Busy, TypeOK
  <1>b. step \in 0 .. 6
    BY DEF MorseInv, TypeOK
  <1>1. UNCHANGED <<gate, pit, pc, crowded>>
    BY DEF insmod, morse_init, morse_init_fails, morse_exit, vars, otherVars
  <1>2. Busy' = Busy /\ \A w \in Writers : PitchInv(w) => PitchInv(w)'
    BY <1>1 DEF Busy, PitchInv
  <1>3. /\ step' <= 1 => held' = {}
        /\ step' = 2 => held' \subseteq {"region"}
        /\ step' <= 3 => "live" \notin held' /\ Busy' = {}
    <2>1. /\ step <= 1 => held = {}
          /\ step = 2 => held \subseteq {"region"}
          /\ step <= 3 => "live" \notin held /\ Busy = {}
      BY <1>a DEF SpeakerInv
    <2>2. CASE insmod \/ UNCHANGED vars
      BY <1>2, <2>1, <2>2 DEF insmod, vars, modVars
    <2>3. CASE morse_init
      BY <1>a, <1>2, <2>1, <2>3, InitSteps
    <2>4. CASE morse_init_fails
      <3>1. step \in {1, 2} /\ step' = 0 /\ held' = held \ Unwound(InitOrder[step])
        BY <2>4 DEF morse_init_fails, InitOrder
      <3>2. step = 2 => held' = held \ {"region"}
        BY <3>1 DEF InitOrder, Unwound
      <3>3. held' = {}
        BY <2>1, <3>1, <3>2
      <3> QED
        BY <1>2, <2>1, <3>1, <3>3
    <2>5. CASE morse_exit
      BY <1>a, <1>2, <2>5 DEF morse_exit, Resources
    <2> QED
      BY <2>2, <2>3, <2>4, <2>5
  <1> QED
    BY <1>a, <1>1, <1>2, <1>3 DEF SpeakerInv

LEMMA SpeakerBegins ==
  ASSUME MorseInv, NEW w \in Writers, m_write(w) PROVE SpeakerInv'
  <1>a. TypeOK /\ SpeakerInv
    BY DEF MorseInv
  <1>1. /\ "live" \in held /\ pc[w] = "idle" /\ pc' = [pc EXCEPT ![w] = "char"]
        /\ crowded' = IF Busy = {} THEN crowded \ {w} ELSE crowded \cup Busy \cup {w}
        /\ UNCHANGED <<step, held, gate, pit>>
    BY DEF m_write, modVars
  <1>2. pc'[w] = "char" /\ \A v \in Writers : v # w => pc'[v] = pc[v]
    BY <1>a, <1>1, MorseMoves DEF Silent
  <1>3. step \in {4, 5, 6}
    <2>1. ~(step <= 3)
      BY <1>a, <1>1 DEF SpeakerInv
    <2>2. step \in 0 .. 6
      BY <1>a DEF TypeOK
    <2> QED
      BY <2>1, <2>2
  <1>4. Busy' = Busy \cup {w}
    BY <1>1, <1>2 DEF Busy
  <1>5. gate' => \E v \in Writers : pc'[v] \in Sounding
    <2>1. pc[w] \notin Sounding
      BY <1>1 DEF Sounding
    <2> QED
      BY <1>a, <1>1, <1>2, <2>1 DEF SpeakerInv
  <1>6. CASE Busy = {}
    <2>1. gate = FALSE
      <3>1. \A v \in Writers : pc[v] \notin Sounding
        BY <1>6 DEF Busy, Sounding
      <3>2. gate \in BOOLEAN
        BY <1>a DEF TypeOK
      <3> QED
        BY <1>a, <3>1, <3>2 DEF SpeakerInv
    <2>2. PitchInv(w)'
      BY <1>1, <1>2, <2>1 DEF PitchInv, Sounding
    <2> QED
      BY <1>1, <1>3, <1>4, <1>5, <1>6, <2>2 DEF SpeakerInv
  <1>7. CASE Busy # {}
    <2>1. Busy' \ crowded' = {}
      BY <1>1, <1>4, <1>7
    <2> QED
      BY <1>1, <1>3, <1>5, <2>1 DEF SpeakerInv
  <1> QED
    BY <1>6, <1>7

LEMMA SpeakerReturns ==
  ASSUME MorseInv, NEW w \in Writers, morse_returns(w) PROVE SpeakerInv'
  <1>a. TypeOK /\ SpeakerInv
    BY DEF MorseInv
  <1>1. /\ pc[w] = "char" /\ pc' = [pc EXCEPT ![w] = "idle"] /\ crowded' = crowded \ {w}
        /\ UNCHANGED <<step, held, gate, pit>>
    BY DEF morse_returns, TextEnds, modVars
  <1>2. pc'[w] = "idle" /\ \A v \in Writers : v # w => pc'[v] = pc[v]
    BY <1>a, <1>1, MorseMoves DEF Silent
  <1>3. w \in Busy /\ Busy' = Busy \ {w}
    BY <1>1, <1>2 DEF Busy
  <1>4. step \in {4, 5, 6}
    <2>1. ~(step <= 3)
      BY <1>a, <1>3 DEF SpeakerInv
    <2>2. step \in 0 .. 6
      BY <1>a DEF TypeOK
    <2> QED
      BY <2>1, <2>2
  <1>5. gate' => \E v \in Writers : pc'[v] \in Sounding
    <2>1. pc[w] \notin Sounding
      BY <1>1 DEF Sounding
    <2> QED
      BY <1>a, <1>1, <1>2, <2>1 DEF SpeakerInv
  <1>6. Busy' \ crowded' = {}
    BY <1>a, <1>1, <1>3 DEF SpeakerInv
  <1> QED
    BY <1>1, <1>4, <1>5, <1>6 DEF SpeakerInv

\* Between two signals the speaker is left alone.
LEMMA SpeakerRests ==
  ASSUME MorseInv, NEW w \in Writers,
         NextChar(w) \/ NextBit(w) \/ letter_space(w)
  PROVE  SpeakerInv'
  <1>a. TypeOK /\ SpeakerInv
    BY DEF MorseInv
  <1>1. /\ pc[w] \in {"char", "bits"}
        /\ \E to \in {"char", "bits", "inb"} : pc' = [pc EXCEPT ![w] = to]
        /\ UNCHANGED <<step, held, gate, pit, crowded>>
    <2>1. CASE NextChar(w)
      <3>1. pc[w] = "char" /\ UNCHANGED <<step, held, gate, pit, crowded>>
        BY <2>1 DEF NextChar, modVars
      <3>2. pc' = pc \/ pc' = [pc EXCEPT ![w] = "bits"]
        BY <2>1 DEF NextChar
      <3>3. pc' = pc => pc' = [pc EXCEPT ![w] = "char"]
        BY <1>a, <3>1 DEF TypeOK
      <3> QED
        BY <3>1, <3>2, <3>3
    <2>2. CASE NextBit(w) \/ letter_space(w)
      BY <2>2 DEF NextBit, letter_space, modVars
    <2> QED
      BY <2>1, <2>2
  <1>2. /\ pc'[w] \in {"char", "bits", "inb"}
        /\ \A v \in Writers : v # w => pc'[v] = pc[v]
    BY <1>a, <1>1, MorseMoves DEF Silent
  <1>3. Busy' = Busy /\ w \in Busy
    BY <1>1, <1>2 DEF Busy
  <1>4. pc[w] \notin Sounding /\ pc'[w] \notin Sounding
    BY <1>1, <1>2 DEF Sounding
  <1>5. gate' => \E v \in Writers : pc'[v] \in Sounding
    BY <1>a, <1>1, <1>2, <1>4 DEF SpeakerInv
  <1>6. ASSUME NEW v \in Busy \ crowded PROVE v = w /\ PitchInv(w)'
    <2>1. v = w /\ PitchInv(w)
      BY <1>a, <1>3, <1>6 DEF SpeakerInv
    <2> QED
      BY <1>1, <1>2, <1>4, <2>1 DEF PitchInv
  <1> QED
    BY <1>a, <1>1, <1>3, <1>5, <1>6 DEF SpeakerInv

\* A signal: sound() and nosound().
LEMMA SpeakerSounds ==
  ASSUME MorseInv, NEW w \in Writers,
         \/ sound_reads(w) \/ sound_opens(w) \/ sound_setup(w)
         \/ sound_low(w) \/ sound_high(w) \/ nosound(w)
  PROVE  SpeakerInv'
  <1>a. TypeOK /\ SpeakerInv
    BY DEF MorseInv
  <1>b. gate \in BOOLEAN
      /\ pit \in [next : {"low", "high"}, low : 0 .. 255, divisor : Divisors]
    BY <1>a DEF TypeOK
  <1>1. /\ pc[w] \in {"inb", "on", "setup", "low", "high", "tone"}
        /\ \E to \in {"bits", "on", "setup", "low", "high", "tone"} :
             pc' = [pc EXCEPT ![w] = to]
        /\ UNCHANGED <<step, held, crowded>>
    BY DEF sound_reads, sound_opens, sound_setup, sound_low, sound_high, nosound,
           Goto, modVars, soundVars
  <1>2. /\ pc'[w] \in {"bits", "on", "setup", "low", "high", "tone"}
        /\ \A v \in Writers : v # w => pc'[v] = pc[v]
        /\ \A to \in Silent \cup Sounding : pc' = [pc EXCEPT ![w] = to] => pc'[w] = to
    BY <1>a, <1>1, MorseMoves DEF Silent, Sounding
  <1>3. Busy' = Busy /\ w \in Busy
    BY <1>1, <1>2 DEF Busy
  <1>4. /\ gate' => \E v \in Writers : pc'[v] \in Sounding
        /\ PitchInv(w) => PitchInv(w)'
    <2>1. CASE sound_reads(w)
      <3>1. /\ pc[w] = "inb" /\ pc' = [pc EXCEPT ![w] = IF gate THEN "low" ELSE "on"]
            /\ UNCHANGED <<gate, pit>>
        BY <2>1 DEF sound_reads, Goto
      <3>2. pc'[w] = IF gate THEN "low" ELSE "on"
        BY <1>2, <3>1 DEF Silent, Sounding
      <3> QED
        BY <1>b, <3>1, <3>2 DEF PitchInv, Sounding
    <2>2. CASE sound_opens(w)
      <3>1. pc' = [pc EXCEPT ![w] = "setup"] /\ gate' = TRUE
        BY <2>2 DEF sound_opens, Goto
      <3>2. pc'[w] = "setup"
        BY <1>2, <3>1 DEF Sounding
      <3> QED
        BY <3>1, <3>2 DEF PitchInv, Sounding
    <2>3. CASE sound_setup(w)
      <3>1. /\ pc[w] = "setup" /\ pc' = [pc EXCEPT ![w] = "low"]
            /\ pit' = [pit EXCEPT !.next = "low"] /\ gate' = gate
        BY <2>3 DEF sound_setup, Goto
      <3>2. pc'[w] = "low" /\ pit'.next = "low"
        BY <1>b, <1>2, <3>1 DEF Sounding
      <3> QED
        BY <3>1, <3>2 DEF PitchInv, Sounding
    <2>4. CASE sound_low(w)
      <3>1. /\ pc[w] = "low" /\ pc' = [pc EXCEPT ![w] = "high"]
            /\ PitData(LowByte(Divisor(w))) /\ gate' = gate
        BY <2>4 DEF sound_low, Goto
      <3>2. pc'[w] = "high"
        BY <1>2, <3>1 DEF Sounding
      <3>3. pit.next = "low" => pit'.next = "high" /\ pit'.low = LowByte(Divisor(w))
        BY <1>a, <3>1, PitDataIs, DivisorIs
      <3> QED
        BY <3>1, <3>2, <3>3 DEF PitchInv, Sounding
    <2>5. CASE sound_high(w)
      <3>1. /\ pc[w] = "high" /\ pc' = [pc EXCEPT ![w] = "tone"]
            /\ PitData(HighByte(Divisor(w))) /\ gate' = gate
        BY <2>5 DEF sound_high, Goto
      <3>2. pc'[w] = "tone"
        BY <1>2, <3>1 DEF Sounding
      <3>3. pit.next = "high" => pit'.divisor = 256 * HighByte(Divisor(w)) + pit.low
        <4>1. HighByte(Divisor(w)) \in 0 .. 255
          BY DivisorIs
        <4> QED
          BY <1>a, <3>1, <4>1, PitDataIs, Zenon
      <3>4. PitchInv(w) => pit'.divisor = Divisor(w)
        BY <3>1, <3>3, DivisorIs DEF PitchInv
      <3> QED
        BY <3>1, <3>2, <3>4 DEF PitchInv, Sounding
    <2>6. CASE nosound(w)
      <3>1. pc' = [pc EXCEPT ![w] = "bits"] /\ gate' = FALSE
        BY <2>6 DEF nosound, Goto
      <3>2. pc'[w] = "bits"
        BY <1>2, <3>1 DEF Silent
      <3> QED
        BY <3>1, <3>2 DEF PitchInv, Sounding
    <2> QED
      BY <2>1, <2>2, <2>3, <2>4, <2>5, <2>6
  <1>5. \A v \in Busy \ crowded : v = w /\ PitchInv(w)'
    BY <1>a, <1>3, <1>4 DEF SpeakerInv
  <1> QED
    BY <1>a, <1>1, <1>3, <1>4, <1>5 DEF SpeakerInv

LEMMA SpeakerStep == ASSUME MorseInv, [Next]_vars PROVE SpeakerInv'
  BY SpeakerOutsideSteps, SpeakerBegins, SpeakerReturns, SpeakerRests, SpeakerSounds
     DEF Next, Step

LEMMA WriterStays ==
  ASSUME NEW w \in Writers, WriterInv(w),
         pc'[w] = pc[w] \/ {pc[w], pc'[w]} \cap {"idle", "char"} = {},
         text'[w] = text[w], c'[w] = c[w], asked'[w] = asked[w], sent'[w] = sent[w]
  PROVE  WriterInv(w)'
  <1>1. TakenInv(w) => TakenInv(w)'
    <2>1. pc'[w] = "char" => pc[w] = "char"
      OBVIOUS
    <2> QED
      BY <2>1 DEF TakenInv
  <1>2. LetterInv(w) => LetterInv(w)'
    BY DEF LetterInv
  <1> QED
    BY <1>1, <1>2 DEF WriterInv

\* Only the writer that moves is disturbed.
LEMMA PlayOthers ==
  ASSUME PlayInv, NEW w \in Writers, WriterInv(w)',
         \A v \in Writers : v # w =>
           /\ pc'[v] = pc[v] /\ text'[v] = text[v] /\ c'[v] = c[v]
           /\ asked'[v] = asked[v] /\ sent'[v] = sent[v]
  PROVE  PlayInv'
  BY WriterStays DEF PlayInv

LEMMA PlayWaits ==
  ASSUME MorseInv,
         \/ UNCHANGED pc
         \/ \E w \in Writers :
              /\ pc[w] \notin {"idle", "char"}
              /\ \E to \in (Silent \cup Sounding) \ {"idle", "char"} :
                   pc' = [pc EXCEPT ![w] = to],
         UNCHANGED <<text, c, asked, sent>>
  PROVE  PlayInv'
  <1>1. \A w \in Writers : \/ pc'[w] = pc[w]
                           \/ {pc[w], pc'[w]} \cap {"idle", "char"} = {}
    BY DEF MorseInv, TypeOK
  <1>2. \A w \in Writers : WriterInv(w)
    BY DEF MorseInv, PlayInv
  <1>3. \A w \in Writers : WriterInv(w)'
    BY <1>1, <1>2, WriterStays
  <1> QED
    BY <1>3 DEF PlayInv

LEMMA PlayBegins ==
  ASSUME MorseInv, NEW w \in Writers, m_write(w) PROVE PlayInv'
  <1>a. TypeOK /\ PlayInv
    BY DEF MorseInv
  <1>1. /\ pc[w] = "idle" /\ pc' = [pc EXCEPT ![w] = "char"] /\ UNCHANGED <<c, sent>>
    BY DEF m_write
  <1>2. PICK q \in Texts[w] : /\ text' = [text EXCEPT ![w] = q]
                              /\ asked' = [asked EXCEPT ![w] = q]
    BY DEF m_write
  <1>3. q \in Seq(1 .. 255)
    BY WriterAssumption
  <1>4. pc'[w] = "char" /\ text'[w] = q /\ asked'[w] = q /\ sent'[w] = <<>>
    BY <1>a, <1>1, <1>2 DEF TypeOK, PlayInv, WriterInv
  <1>5. TakenInv(w)'
    BY <1>3, <1>4 DEF TakenInv
  <1>6. \A v \in Writers : v # w =>
          /\ pc'[v] = pc[v] /\ text'[v] = text[v] /\ c'[v] = c[v]
          /\ asked'[v] = asked[v] /\ sent'[v] = sent[v]
    BY <1>a, <1>1, <1>2 DEF TypeOK
  <1> QED
    BY <1>a, <1>4, <1>5, <1>6, PlayOthers DEF WriterInv

LEMMA PlayReturns ==
  ASSUME MorseInv, NEW w \in Writers, morse_returns(w) PROVE PlayInv'
  <1>a. TypeOK /\ PlayInv
    BY DEF MorseInv
  <1>1. /\ pc' = [pc EXCEPT ![w] = "idle"] /\ c' = [c EXCEPT ![w] = 0]
        /\ asked' = [asked EXCEPT ![w] = <<>>] /\ sent' = [sent EXCEPT ![w] = <<>>]
        /\ UNCHANGED text
    BY DEF morse_returns
  <1>2. pc'[w] = "idle" /\ sent'[w] = <<>>
    BY <1>a, <1>1 DEF TypeOK
  <1>3. \A v \in Writers : v # w =>
          /\ pc'[v] = pc[v] /\ text'[v] = text[v] /\ c'[v] = c[v]
          /\ asked'[v] = asked[v] /\ sent'[v] = sent[v]
    BY <1>a, <1>1 DEF TypeOK
  <1> QED
    BY <1>a, <1>2, <1>3, PlayOthers DEF WriterInv

\* A character is taken: it is passed over, or a letter begins.
LEMMA PlayTakes ==
  ASSUME MorseInv, NEW w \in Writers, NextChar(w) PROVE PlayInv'
  <1>a. TypeOK /\ PlayInv
    BY DEF MorseInv
  <1>b. /\ text[w] \in Seq(1 .. 255) /\ asked[w] \in Seq(1 .. 255)
        /\ sent[w] \in Seq(Seq(Signals))
    BY <1>a DEF TypeOK
  <1> DEFINE ch == Head(text[w])
             n  == Len(sent[w])
  <1>1. /\ pc[w] = "char" /\ text[w] # <<>> /\ text' = [text EXCEPT ![w] = Tail(@)]
        /\ UNCHANGED asked
    BY DEF NextChar
  <1>2. /\ ch \in 1 .. 255 /\ ch = text[w][1] /\ Len(text[w]) \in Nat /\ Len(text[w]) > 0
        /\ Len(Tail(text[w])) = Len(text[w]) - 1
        /\ \A i \in 1 .. Len(Tail(text[w])) : Tail(text[w])[i] = text[w][i + 1]
    BY <1>b, <1>1, HeadTailProperties, LenProperties, EmptySeq, SMTT(30)
  <1>3. /\ sent' = [sent EXCEPT ![w] = Append(@, <<>>)]
        /\ \/ Skipped(ch) /\ UNCHANGED <<pc, c>>
           \/ /\ ~Skipped(ch) /\ c' = [c EXCEPT ![w] = Code(ch)]
              /\ pc' = [pc EXCEPT ![w] = "bits"]
    BY <1>2, LetterIs DEF NextChar
  <1>4. \A v \in Writers : v # w =>
          /\ pc'[v] = pc[v] /\ text'[v] = text[v] /\ c'[v] = c[v]
          /\ asked'[v] = asked[v] /\ sent'[v] = sent[v]
    BY <1>a, <1>1, <1>3 DEF TypeOK
  <1>5. /\ text'[w] = Tail(text[w]) /\ asked'[w] = asked[w]
        /\ sent'[w] = Append(sent[w], <<>>)
        /\ \/ Skipped(ch) /\ pc'[w] = "char"
           \/ ~Skipped(ch) /\ pc'[w] = "bits" /\ c'[w] = Code(ch)
    BY <1>a, <1>1, <1>3 DEF TypeOK
  <1>6. /\ n \in Nat /\ Len(sent'[w]) = n + 1 /\ sent'[w][n + 1] = <<>>
        /\ \A i \in 1 .. n : sent'[w][i] = sent[w][i]
    BY <1>b, <1>5, EmptySeq, AppendProperties, LenProperties
  <1>7. /\ Len(asked[w]) = n + Len(text[w])
        /\ \A i \in 1 .. Len(text[w]) : text[w][i] = asked[w][n + i]
        /\ \A i \in 1 .. n : sent[w][i] = Played(asked[w][i])
    BY <1>a, <1>1 DEF PlayInv, WriterInv, TakenInv
  <1> HIDE DEF ch, n
  <1>8. asked[w][n + 1] = ch
    BY <1>2, <1>7
  <1>9. TakenInv(w)'
    <2>1. Len(asked'[w]) = Len(sent'[w]) + Len(text'[w])
      <3>1. Len(text'[w]) = Len(text[w]) - 1
        BY <1>2, <1>5
      <3>2. /\ Len(asked'[w]) = n + Len(text[w]) /\ Len(sent'[w]) = n + 1
            /\ n \in Nat /\ Len(text[w]) \in Nat
        BY <1>2, <1>5, <1>6, <1>7
      <3>3. \A i, j \in Nat : i + j = (i + 1) + (j - 1)
        OBVIOUS
      <3> QED
        BY <3>1, <3>2, <3>3, Zenon
    <2>2. ASSUME NEW i \in 1 .. Len(text'[w])
          PROVE  text'[w][i] = asked'[w][Len(sent'[w]) + i]
      <3>1. i + 1 \in 1 .. Len(text[w]) /\ text'[w][i] = text[w][i + 1]
        BY <1>2, <1>5, <2>2
      <3>2. text[w][i + 1] = asked[w][n + (i + 1)]
        BY <1>7, <3>1
      <3>3. n + (i + 1) = (n + 1) + i
        BY <1>6, <2>2, <1>2, <1>5
      <3> QED
        BY <1>5, <1>6, <3>1, <3>2, <3>3
    <2>3. ASSUME NEW i \in 1 .. Len(sent'[w]), i < Len(sent'[w]) \/ pc'[w] = "char"
          PROVE  sent'[w][i] = Played(asked'[w][i])
      <3>1. CASE i \in 1 .. n
        BY <1>5, <1>6, <1>7, <3>1
      <3>2. CASE i = n + 1
        <4>1. Skipped(ch)
          BY <1>5, <1>6, <2>3, <3>2
        <4>2. Played(ch) = <<>>
          BY <1>2, <4>1, CharacterIs DEF Played
        <4> QED
          BY <1>5, <1>6, <1>8, <3>2, <4>2
      <3> QED
        BY <1>6, <2>3, <3>1, <3>2
    <2> QED
      BY <2>1, <2>2, <2>3 DEF TakenInv
  <1>10. ASSUME ~Skipped(ch) PROVE LetterInv(w)'
    <2>1. LetterNo(ch) \in 1 .. 26 /\ c'[w] = Rest(LetterNo(ch), 0)
      BY <1>2, <1>5, <1>10, LetterIs
    <2>2. Len(International[LetterNo(ch)]) \in Nat
      BY <2>1, CodesAreInternational, LenProperties DEF LowestFirst
    <2>3. Len(sent'[w][n + 1]) = 0
      BY <1>6
    <2>4. /\ sent'[w][Len(sent'[w])] = <<>> /\ Len(sent'[w]) > 0
          /\ asked'[w][Len(sent'[w])] = ch
      BY <1>5, <1>6, <1>8
    <2>5. LetterNo(ch) # 0
      BY <2>1
    <2>6. 0 <= Len(International[LetterNo(ch)])
      BY <2>2
    <2> QED
      BY <2>1, <2>3, <2>4, <2>5, <2>6, <1>6 DEF LetterInv
  <1>11. WriterInv(w)'
    BY <1>5, <1>9, <1>10 DEF WriterInv
  <1> QED
    BY <1>a, <1>4, <1>11, PlayOthers

\* A signal of a letter, which is the next one of its code, ...
LEMMA PlaySignal ==
  ASSUME MorseInv, NEW w \in Writers, NextBit(w) \/ letter_space(w)
  PROVE  PlayInv'
  <1>a. TypeOK /\ PlayInv
    BY DEF MorseInv
  <1>b. sent[w] \in Seq(Seq(Signals)) /\ asked[w] \in Seq(1 .. 255)
    BY <1>a DEF TypeOK
  <1> DEFINE n    == Len(sent[w])
             last == sent[w][n]
             l    == LetterNo(asked[w][n])
             code == International[l]
             k    == Len(last)
             signal == IF NextBit(w) THEN (IF c[w] % 2 = 1 THEN "-" ELSE ".")
                                     ELSE "letter"
  <1>1. pc[w] = "bits" /\ UNCHANGED <<text, asked>>
    BY DEF NextBit, letter_space
  <1>2. TakenInv(w) /\ LetterInv(w)
    BY <1>a, <1>1 DEF PlayInv, WriterInv
  <1>3. /\ n \in Nat /\ n > 0 /\ l # 0 /\ k <= Len(code)
        /\ \A i \in 1 .. k : last[i] = code[i]
        /\ c[w] = Rest(l, k)
    BY <1>b, <1>2, LenProperties DEF LetterInv
  <1>c. n \in Nat /\ n > 0
    BY <1>3
  <1>4. asked[w][n] \in 1 .. 255
    <2>1. Len(text[w]) \in Nat /\ Len(asked[w]) = n + Len(text[w])
      BY <1>a, <1>2, LenProperties DEF TypeOK, TakenInv
    <2>2. n \in 1 .. Len(asked[w])
      <3> HIDE DEF n
      <3> QED
        BY <1>c, <2>1
    <2> QED
      BY <1>b, <2>2, LenProperties, ZenonT(30)
  <1>5. l \in 1 .. 26
    <2>1. l \in 0 .. 26 /\ l # 0
      BY <1>3, <1>4, CharacterIs
    <2> HIDE DEF l
    <2> QED
      BY <2>1
  <1>6. /\ code \in Seq({".", "-"}) /\ Len(code) \in Nat
        /\ LowestFirst(l)
    <2>1. LowestFirst(l)
      BY <1>5, CodesAreInternational
    <2>2. code \in Seq({".", "-"})
      BY <2>1 DEF LowestFirst
    <2> QED
      BY <2>1, <2>2, LenProperties
  <1>7. last \in Seq(Signals) /\ k \in Nat
    BY <1>b, <1>3, LenProperties
  <1>8. k \in 0 .. Len(code)
    BY <1>3, <1>6, <1>7
  <1>9. /\ Rest(l, k) > 1 <=> k < Len(code)
        /\ k < Len(code) =>
             /\ Rest(l, k) \div 2 = Rest(l, k + 1)
             /\ code[k + 1] = IF Rest(l, k) % 2 = 1 THEN "-" ELSE "."
    BY <1>6, <1>8, Zenon DEF LowestFirst
  <1>10. signal \in Signals /\ Sends(w, signal)
    BY DEF NextBit, letter_space, Signals, BitsLeft
  <1>11. /\ \A v \in Writers : v # w => sent'[v] = sent[v]
         /\ Len(sent'[w]) = n
         /\ \A i \in 1 .. n :
              sent'[w][i] = IF i = n THEN Append(last, signal) ELSE sent[w][i]
    <2> HIDE DEF signal
    <2> QED
      BY <1>a, <1>c, <1>10, SendsIs
  <1>12. /\ Append(last, signal) \in Seq(Signals) /\ Len(Append(last, signal)) = k + 1
         /\ \A i \in 1 .. k : Append(last, signal)[i] = last[i]
         /\ Append(last, signal)[k + 1] = signal
    BY <1>7, <1>10, AppendProperties
  <1>13. sent'[w][n] = Append(last, signal)
    <2>1. n \in 1 .. n
      BY <1>c
    <2> HIDE DEF n, last, signal
    <2> QED
      BY <1>11, <2>1
  <1>14. \A i \in 1 .. n : i < n => sent'[w][i] = Played(asked[w][i])
    BY <1>2, <1>3, <1>11 DEF TakenInv
  <1>15. /\ Len(asked'[w]) = Len(sent'[w]) + Len(text'[w])
         /\ \A i \in 1 .. Len(text'[w]) : text'[w][i] = asked'[w][Len(sent'[w]) + i]
    BY <1>1, <1>2, <1>11 DEF TakenInv
  <1>16. CASE NextBit(w)
    <2>1. /\ c[w] > 1 /\ c' = [c EXCEPT ![w] = @ \div 2]
          /\ pc' = [pc EXCEPT ![w] = "inb"]
      BY <1>16 DEF NextBit, BitsLeft
    <2>2. pc'[w] = "inb" /\ c'[w] = c[w] \div 2
      BY <1>a, <2>1 DEF TypeOK
    <2>3. k < Len(code) /\ signal = code[k + 1] /\ c'[w] = Rest(l, k + 1)
      BY <1>3, <1>9, <1>16, <2>1, <2>2
    <2> HIDE DEF n, last, l, code, k, signal
    <2>4. \A i \in 1 .. n :
            i < Len(sent'[w]) \/ pc'[w] = "char" => sent'[w][i] = Played(asked'[w][i])
      BY <1>1, <1>11, <1>14, <2>2
    <2>5. TakenInv(w)'
      BY <1>11, <1>15, <2>4 DEF TakenInv
    <2>6. ASSUME NEW i \in 1 .. k + 1 PROVE Append(last, signal)[i] = code[i]
      <3>1. CASE i \in 1 .. k
        BY <1>3, <1>12, <3>1
      <3>2. CASE i = k + 1
        BY <1>12, <2>3, <3>2
      <3>3. i \in 1 .. k \/ i = k + 1
        BY <1>7, <2>6
      <3> QED
        BY <3>1, <3>2, <3>3
    <2>7. k + 1 <= Len(code)
      BY <1>6, <1>7, <2>3
    <2>8. /\ sent'[w][Len(sent'[w])] = Append(last, signal)
          /\ International[LetterNo(asked'[w][Len(sent'[w])])] = code
          /\ LetterNo(asked'[w][Len(sent'[w])]) = l
      BY <1>1, <1>11, <1>13 DEF code, l, n
    <2>9. LetterInv(w)'
      BY <1>3, <1>11, <1>12, <2>3, <2>6, <2>7, <2>8, Zenon DEF LetterInv
    <2>10. WriterInv(w)'
      BY <2>2, <2>5, <2>9 DEF WriterInv
    <2>11. \A v \in Writers : v # w =>
             /\ pc'[v] = pc[v] /\ text'[v] = text[v] /\ c'[v] = c[v]
             /\ asked'[v] = asked[v] /\ sent'[v] = sent[v]
      BY <1>a, <1>1, <1>11, <2>1 DEF TypeOK
    <2> QED
      BY <1>a, <2>10, <2>11, PlayOthers
  <1>17. CASE ~NextBit(w)
    <2>1. ~(c[w] > 1) /\ UNCHANGED c /\ pc' = [pc EXCEPT ![w] = "char"]
      BY <1>17 DEF letter_space, BitsLeft
    <2>2. pc'[w] = "char"
      BY <1>a, <2>1 DEF TypeOK
    <2>3. signal = "letter" /\ ~(k < Len(code))
      BY <1>3, <1>9, <1>17, <2>1
    <2> HIDE DEF n, last, l, code, k, signal
    <2>4. k = Len(code)
      BY <1>6, <1>8, <2>3
    <2>5. last = code
      <3>1. code \in Seq(Signals)
        <4>1. {".", "-"} \subseteq Signals
          BY DEF Signals
        <4> QED
          BY <1>6, <4>1
      <3>2. Len(last) = Len(code) /\ \A i \in 1 .. Len(last) : last[i] = code[i]
        BY <1>3, <2>4 DEF k
      <3> QED
        BY <1>7, <3>1, <3>2, SeqEqual
    <2>6. Append(last, signal) = Played(asked[w][n])
      BY <1>3, <2>3, <2>5 DEF Played, InMorse, code, l
    <2>7. \A i \in 1 .. n : sent'[w][i] = Played(asked[w][i])
      BY <1>3, <1>13, <1>14, <2>6
    <2>8. TakenInv(w)'
      BY <1>1, <1>11, <1>15, <2>7 DEF TakenInv
    <2>9. \A v \in Writers : v # w =>
            /\ pc'[v] = pc[v] /\ text'[v] = text[v] /\ c'[v] = c[v]
            /\ asked'[v] = asked[v] /\ sent'[v] = sent[v]
      BY <1>a, <1>1, <1>11, <2>1 DEF TypeOK
    <2>10. WriterInv(w)'
      BY <2>2, <2>8 DEF WriterInv
    <2> QED
      BY <1>a, <2>9, <2>10, PlayOthers
  <1> QED
    BY <1>16, <1>17

LEMMA PlayStep == ASSUME MorseInv, [Next]_vars PROVE PlayInv'
  <1>1. CASE insmod \/ morse_init \/ morse_init_fails \/ morse_exit \/ UNCHANGED vars
    BY <1>1, PlayWaits
    DEF insmod, morse_init, morse_init_fails, morse_exit, vars, otherVars
  <1>2. ASSUME NEW w \in Writers,
               \/ sound_reads(w) \/ sound_opens(w) \/ sound_setup(w)
               \/ sound_low(w) \/ sound_high(w) \/ nosound(w)
        PROVE  PlayInv'
    <2>1. /\ pc[w] \notin {"idle", "char"} /\ UNCHANGED <<text, c, asked, sent>>
          /\ \E to \in {"bits", "on", "setup", "low", "high", "tone"} :
               pc' = [pc EXCEPT ![w] = to]
      BY <1>2 DEF sound_reads, sound_opens, sound_setup, sound_low, sound_high,
                  nosound, Goto, soundVars
    <2> QED
      BY <2>1, PlayWaits DEF Silent, Sounding
  <1> QED
    BY <1>1, <1>2, PlayBegins, PlayReturns, PlayTakes, PlaySignal DEF Next, Step

THEOREM MorseInvariant == Spec => []MorseInv
  <1>1. MorseInv /\ [Next]_vars => MorseInv'
    BY MorseTypeStep, SpeakerStep, PlayStep DEF MorseInv
  <1> QED
    BY <1>1, MorseInit, PTL DEF Spec

(***************************************************************************)
(* The variables of morse_io.c and of the PIT keep their types, whatever   *)
(* the writers: every code that is played is below 256, which the loop of  *)
(* morse() relies on, and what the PIT holds is a byte or a divisor.       *)
(***************************************************************************)
THEOREM MorseTypeCorrect == Spec => []TypeOK
  <1>1. MorseInv => TypeOK
    BY DEF MorseInv
  <1> QED
    BY <1>1, MorseInvariant, PTL

(***************************************************************************)
(* m_write() plays every letter of its text as its international Morse     *)
(* code and a letter space, for every text, however many other writers     *)
(* play at the same time.                                                  *)
(***************************************************************************)
THEOREM EveryTextPlayed == Spec => []PlaysMorse
  <1>1. ASSUME MorseInv, NEW w \in Writers, TextEnds(w)
        PROVE  /\ Len(sent[w]) = Len(asked[w])
               /\ \A i \in 1 .. Len(asked[w]) :
                    LetterNo(asked[w][i]) # 0 => sent[w][i] = InMorse(asked[w][i])
    <2>1. /\ sent[w] \in Seq(Seq(Signals)) /\ Len(sent[w]) \in Nat
          /\ DOMAIN sent[w] = 1 .. Len(sent[w])
      BY <1>1, LenProperties DEF MorseInv, TypeOK
    <2>2. pc[w] = "char" /\ text[w] = <<>>
      BY <1>1 DEF TextEnds
    <2>3. TakenInv(w)
      BY <1>1, <2>2 DEF MorseInv, PlayInv, WriterInv
    <2>4. Len(asked[w]) = Len(sent[w])
      BY <2>1, <2>2, <2>3 DEF TakenInv
    <2>5. \A i \in 1 .. Len(sent[w]) : sent[w][i] = Played(asked[w][i])
      BY <2>2, <2>3 DEF TakenInv
    <2> QED
      BY <2>4, <2>5 DEF Played
  <1>2. MorseInv => PlaysMorse
    BY <1>1 DEF PlaysMorse
  <1> QED
    BY <1>2, MorseInvariant, PTL

(***************************************************************************)
(* A writer that is alone on the device sounds in the pitch of its minor   *)
(* number, whatever the writers before it have left in the PIT.            *)
(***************************************************************************)
THEOREM AloneInTune == Spec => []OwnPitch
  <1>1. MorseInv => OwnPitch
    BY DEF MorseInv, SpeakerInv, PitchInv, Busy, Sounding, OwnPitch
  <1> QED
    BY <1>1, MorseInvariant, PTL

(***************************************************************************)
(* The speaker is silent when the last writer has returned from m_write(), *)
(* however the writers interleaved on the port, and a module that is not   *)
(* loaded holds nothing.                                                   *)
(***************************************************************************)
THEOREM SilentAtTheEnd == Spec => []LeavesNothing
  <1>1. MorseInv => LeavesNothing
    BY DEF MorseInv, SpeakerInv, Busy, Sounding, LeavesNothing
  <1> QED
    BY <1>1, MorseInvariant, PTL
=============================================================================
