SPECIFICATION ProcSpec
CONSTANTS
  n1 = n1
  n2 = n2
  Nodes = {n1, n2}
  Initial <- MCInitial
  strlen <- MCstrlen
  Readers = {r1}
  Values = {7, 8, 42, 100, 200}
  SigWriters = {w1, w2, w3}
  Targets = {q1}
  Users = {u1, u2}
  t1 = t1
  t2 = t2
  ns1 = ns1
  ns2 = ns2
  Tasks = {t1, t2}
  Namespaces = {ns1, ns2}
  NsOf <- MCNsOf
  NoTask = NoTask
  NoNs = NoNs
  Amounts = {3}
  Span = 4
  MaxAdds = 2
INVARIANTS
  ProcTypeOK
  ReadOnce
  SignalsTheNamed
  NoOopsWhileNamedLive
  AddsAddUp
PROPERTY
  ReadingEnds
\* Threads that have oopsed stop for good.
CHECK_DEADLOCK FALSE
