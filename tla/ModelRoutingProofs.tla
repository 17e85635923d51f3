------------------------- MODULE ModelRoutingProofs -------------------------
(***************************************************************************)
(* Proofs about ModelRouting, for every number of tasks, calls, requests,  *)
(* rules and rows: versions only grow on the way from the database to a    *)
(* task's copy, to its answers and to its requests, and a request that has *)
(* the latest version of a row has that row.                               *)
(***************************************************************************)
EXTENDS ModelRouting, TLAPS

\* The rows of the database and of a task's copy are rows.
LEMMA RowFacts ==
  ASSUME TypeOK
  PROVE  /\ \A r \in Rows : rows[r] \in Row /\ rows[r].version \in Nat
         /\ \A t \in Tasks, r \in Rows :
              loaded[t].rows[r] \in Row /\ loaded[t].rows[r].version \in Nat
  BY DEF TypeOK, Row, Copy

\* The table of a row is one of the two, and the row is in it.
LEMMA TableFacts ==
  /\ \A r \in Rows : TableOf(r) \in {Routes, Prices} /\ r \in TableOf(r) /\ TableOf(r) \subseteq Rows
  /\ \A table \in {Routes, Prices} : table \subseteq Rows
  BY DEF TableOf, Rows

\* A call that has read its table, and a copy of rows that is installed.
LEMMA InstallFacts ==
  ASSUME TypeOK, NEW c \in Calls, call[c].pc = "install"
  PROVE  /\ call[c].task \in Tasks /\ call[c].row \in Rows /\ call[c] # Idle
         /\ call[c].copy \in [Routes -> Row] \cup [Prices -> Row]
         /\ DOMAIN call[c].copy \subseteq Rows
         /\ \A r \in DOMAIN call[c].copy : call[c].copy[r] \in Row /\ call[c].copy[r].version \in Nat
<1>1. call[c] \in Installs
  BY DEF TypeOK, Idle, Reloads
<1> QED
  BY <1>1 DEF Installs, Idle, Rows, Row

LEMMA InstalledTyped ==
  ASSUME NEW copy, copy \in [Routes -> Row] \cup [Prices -> Row], NEW old \in [Rows -> Row]
  PROVE  Installed(copy, old) \in [Rows -> Row]
  BY DEF Installed, Rows

\* A price row is for a model.
LEMMA PriceIsModel == ASSUME TypeOK, NEW p \in Prices PROVE rows[p].value # NoId
  BY RoutingAssumption DEF TypeOK, ValuesOf, Rows

\* What a save does to the rows: each is as it was, or has a later version.
RowsForward == \A r \in Rows : rows'[r] = rows[r] \/ rows'[r].version > rows[r].version

\* A row whose last write a request knows of was not written in this step.
LEMMA SettledKept ==
  ASSUME TypeOK, Ordered, RowsForward, NEW q \in Requests, request[q] # Idle,
         NEW r \in Rows, rows'[r].version = known[q][r]
  PROVE  rows'[r] = rows[r] /\ Settled(q, r)
<1>1. request[q].task \in Tasks
  BY DEF TypeOK, Idle
<1>2. known[q][r] <= acked[request[q].task][r]
        /\ acked[request[q].task][r] <= loaded[request[q].task].rows[r].version
        /\ loaded[request[q].task].rows[r].version <= rows[r].version
  BY <1>1 DEF Ordered, Older
<1>3. known[q][r] \in Nat /\ acked[request[q].task][r] \in Nat
        /\ loaded[request[q].task].rows[r].version \in Nat /\ rows[r].version \in Nat
  BY <1>1, RowFacts DEF TypeOK
<1> QED
  BY <1>2, <1>3 DEF RowsForward, Settled

\* What a request has read is not undone by a step that leaves it alone.
LEMMA ReadKept ==
  ASSUME TypeOK, TypeOK', Ordered, RowsForward, NEW q \in Requests,
         request[q] # Idle, request'[q] = request[q], known'[q] = known[q]
  PROVE  /\ RouteRead(q) => RouteRead(q)'
         /\ PriceRead(q) => PriceRead(q)'
<1>1. \A r \in Rows : Settled(q, r)' => Settled(q, r) /\ rows'[r] = rows[r]
  BY SettledKept DEF Settled
<1>2. ASSUME RouteRead(q)
      PROVE  RouteRead(q)'
  <2>1. request[q].route \in Rows
    BY <1>2 DEF RouteRead, Rows
  <2>2. Older(RowRead(q), rows'[request[q].route])
    <3>1. Older(RowRead(q), rows[request[q].route]) /\ RowRead(q).version \in Nat
      BY <1>2 DEF RouteRead, RowRead
    <3>2. rows[request[q].route].version \in Nat /\ rows'[request[q].route].version \in Nat
      BY <2>1, RowFacts DEF TypeOK, Row
    <3> QED
      BY <2>1, <3>1, <3>2 DEF RowsForward, Older
  <2>3. \A r \in Routes : r \in Rows
    BY DEF Rows
  <2> QED
    BY <1>1, <1>2, <2>2, <2>3 DEF RouteRead, RowRead
<1>3. ASSUME PriceRead(q)
      PROVE  PriceRead(q)'
  <2>1. \A p \in Prices : p \in Rows
    BY DEF Rows
  <2> QED
    BY <1>1, <1>3, <2>1 DEF PriceRead
<1> QED
  BY <1>2, <1>3

\* The tables and the calls move, the requests do not.
LEMMA RequestsRest ==
  ASSUME TypeOK, TypeOK', Ordered, ReadsKept, RowsForward, UNCHANGED requests
  PROVE  ReadsKept'
<1> SUFFICES ASSUME NEW q \in Requests, request[q].pc \in {"price", "called"}
             PROVE  RouteRead(q)' /\ (request[q].pc = "called" => PriceRead(q)')
  BY DEF ReadsKept, requests
<1>1. request[q] # Idle
  BY DEF Idle
<1> QED
  BY <1>1, ReadKept DEF ReadsKept, requests

\* Each step of an administration call keeps the invariant.
LEMMA CallKeepsInv ==
  ASSUME IInv, NEW c \in Calls, CallStep(c)
  PROVE  IInv'
<1> USE DEF IInv
<1>1. ASSUME NEW t \in Tasks, NEW r \in Rows, NEW v \in ValuesOf(r), Save(c, t, r, v)
      PROVE  IInv'
  <2>1. rows' = [rows EXCEPT ![r] = [version |-> rows[r].version + 1, value |-> v]]
    BY <1>1 DEF Save
  <2>2. RowsForward
    BY RowFacts, <2>1 DEF RowsForward, TypeOK
  <2>3. [version |-> rows[r].version + 1, value |-> v] \in Row 
    BY DEF Row, ValuesOf, TypeOK
  <2>4. TypeOK'
    <3>1. rows' \in [Rows -> Row]
      BY <2>1, <2>3 DEF TypeOK
    <3>2. ASSUME NEW x \in Rows
          PROVE  rows'[x].value \in ValuesOf(x)
      <4>1. rows[x].value \in ValuesOf(x) /\ v \in ValuesOf(r)
        BY DEF TypeOK
      <4>2. rows'[x] = rows[x] \/ (x = r /\ rows'[x].value = v)
        BY <2>1 DEF TypeOK
      <4> QED
        BY <4>1, <4>2
    <3>3. saved' \in [Calls -> Nat]
      BY RowFacts, <1>1 DEF Save, TypeOK
    <3>4. call' \in [Calls -> {Idle} \cup Reloads \cup Installs]
      BY <1>1 DEF Save, TypeOK, Reloads
    <3>5. UNCHANGED <<aliases, loaded, acked, request, known>> /\ writes' \in Nat
      BY <1>1 DEF Save, TypeOK, requests
    <3> QED
      BY <3>1, <3>2, <3>3, <3>4, <3>5 DEF TypeOK
  <2>5. Ordered'
    <3>1. ASSUME NEW s \in Tasks, NEW x \in Rows
          PROVE  Older(loaded[s].rows[x], rows'[x])
      <4>1. loaded[s].rows[x].version \in Nat /\ rows[x].version \in Nat
        BY RowFacts
      <4>2. rows'[x].version \in Nat
        BY <2>4 DEF TypeOK, Row
      <4>3. Older(loaded[s].rows[x], rows[x])
        BY DEF Ordered
      <4> QED
        BY <2>2, <4>1, <4>2, <4>3 DEF Older, RowsForward
    <3>2. saved'[c] = rows'[r].version /\ call'[c].row = r
      BY <1>1, <2>1 DEF Save, TypeOK
    <3>3. \A d \in Calls : d # c => saved'[d] = saved[d] /\ call'[d] = call[d]
      BY <1>1 DEF Save, TypeOK
    <3>4. ASSUME NEW d \in Calls, call'[d] # Idle
          PROVE  saved'[d] <= rows'[call'[d].row].version
      <4>1. CASE d = c
        BY <3>2, <4>1, <2>4 DEF TypeOK, Row
      <4>2. CASE d # c
        <5>1. call[d].row \in Rows
          BY <3>3, <3>4, <4>2 DEF TypeOK, Reloads, Installs
        <5>2. saved[d] <= rows[call[d].row].version
          BY <3>3, <3>4, <4>2 DEF Ordered
        <5>3. rows'[call[d].row].version \in Nat /\ saved[d] \in Nat
          BY <5>1, <2>4 DEF TypeOK, Row
        <5> QED
          BY RowFacts, <2>2, <3>3, <4>2, <5>1, <5>2, <5>3 DEF RowsForward
      <4> QED
        BY <4>1, <4>2
    <3>5. call'[c].pc = "reload"
      BY <1>1 DEF Save, TypeOK
    <3>6. ASSUME NEW d \in Calls, call'[d].pc = "install", NEW x \in DOMAIN call'[d].copy
          PROVE  Older(call'[d].copy[x], rows'[x])
      <4>1. d # c /\ call'[d] = call[d]
        BY <3>3, <3>5, <3>6
      <4>2. Older(call[d].copy[x], rows[x]) /\ x \in Rows /\ call[d].copy[x].version \in Nat
        BY <3>6, <4>1, InstallFacts DEF Ordered, CopiesInOrder
      <4>3. rows[x].version \in Nat /\ rows'[x].version \in Nat
        BY <4>2, <2>4, RowFacts DEF TypeOK, Row
      <4> QED
        BY <2>2, <4>1, <4>2, <4>3 DEF Older, RowsForward
    <3>7. acked' = acked /\ loaded' = loaded /\ UNCHANGED requests
      BY <1>1 DEF Save
    <3>8. CopiesInOrder'
      BY <3>3, <3>5, <3>6, <3>7 DEF Ordered, CopiesInOrder
    <3>9. OneReload'
      BY <3>3, <3>5 DEF Ordered, OneReload
    <3> QED
      BY <3>1, <3>4, <3>7, <3>8, <3>9 DEF Ordered, requests
  <2>6. ReadsKept'
    BY <1>1, <2>2, <2>4, RequestsRest DEF Save
  <2> QED
    BY <2>4, <2>5, <2>6
<1>2. CASE BeginReload(c)
  <2> DEFINE r == call[c].row
             copy == [x \in TableOf(r) |-> rows[x]]
  <2>1. /\ call[c] \in Reloads /\ call[c].task \in Tasks /\ r \in Rows
        /\ call[c] # Idle /\ call[c].pc = "reload"
    BY <1>2 DEF BeginReload, TypeOK, Idle, Reloads, Installs
  <2>2. /\ call' = [call EXCEPT ![c] =
              [pc |-> "install", task |-> @.task, row |-> @.row, copy |-> copy]]
        /\ UNCHANGED <<tables, loaded, saved, acked, requests>>
    BY <1>2 DEF BeginReload
  <2>3. call'[c] = [pc |-> "install", task |-> call[c].task, row |-> r, copy |-> copy]
    BY <2>2 DEF TypeOK
  <2>4. \A d \in Calls : d # c => call'[d] = call[d]
    BY <2>2 DEF TypeOK
  <2>5. TypeOK'
    <3>1. copy \in [Routes -> Row] \cup [Prices -> Row]
      BY <2>1, TableFacts DEF TypeOK
    <3>2. call'[c] \in Installs
      BY <2>1, <2>3, <3>1 DEF Installs
    <3>3. call' \in [Calls -> {Idle} \cup Reloads \cup Installs]
      BY <2>2, <2>3, <3>2 DEF TypeOK
    <3> QED
      BY <2>2, <3>3 DEF TypeOK, tables, requests
  <2>6. CopiesInOrder'
    <3>1. ASSUME NEW x \in TableOf(r)
          PROVE  acked[call[c].task][x] <= rows[x].version /\ Older(rows[x], rows[x])
      <4>1. x \in Rows
        BY <2>1, TableFacts
      <4>2. acked[call[c].task][x] <= loaded[call[c].task].rows[x].version
              /\ loaded[call[c].task].rows[x].version <= rows[x].version
        BY <2>1, <4>1 DEF Ordered, Older
      <4>3. acked[call[c].task][x] \in Nat /\ loaded[call[c].task].rows[x].version \in Nat
              /\ rows[x].version \in Nat
        BY <2>1, <4>1, RowFacts DEF TypeOK
      <4> QED
        BY <4>2, <4>3 DEF Older
    <3>2. saved[c] <= rows[r].version /\ r \in TableOf(r)
      BY <2>1, TableFacts DEF Ordered
    <3> QED
      BY <2>2, <2>3, <2>4, <3>1, <3>2 DEF Ordered, CopiesInOrder, tables
  <2>7. OneReload'
    <3>1. \A d \in Calls :
            call[d].pc = "install" /\ call[d].task = call[c].task => TableOf(call[d].row) # TableOf(r)
      BY <1>2 DEF BeginReload
    <3> QED
      BY <2>3, <2>4, <3>1 DEF Ordered, OneReload
  <2>8. Ordered'
    BY <2>1, <2>2, <2>3, <2>4, <2>6, <2>7 DEF Ordered, tables, requests
  <2>9. RowsForward
    BY <2>2 DEF RowsForward, tables
  <2> QED
    BY <2>2, <2>5, <2>8, <2>9, RequestsRest
<1>3. CASE InstallAndAnswer(c)
  <2> DEFINE t == call[c].task
             r == call[c].row
             copy == call[c].copy
             now == Installed(copy, loaded[t].rows)
  <2>1. call[c].pc = "install" /\ t \in Tasks /\ r \in Rows /\ call[c] # Idle
    BY <1>3, InstallFacts DEF InstallAndAnswer
  <2>2. /\ loaded' = [loaded EXCEPT ![t].rows = now]
        /\ acked' = [acked EXCEPT ![t][r] = IF @ < saved[c] THEN saved[c] ELSE @]
        /\ UNCHANGED <<tables, requests>>
    BY <1>3 DEF InstallAndAnswer
  <2>3. \A d \in Calls : d # c => saved'[d] = saved[d] /\ call'[d] = call[d]
    BY <1>3 DEF InstallAndAnswer, Leave, TypeOK
  <2>4. TypeOK'
    <3>1. loaded[t].rows \in [Rows -> Row] /\ loaded[t] \in Copy
      BY <2>1 DEF TypeOK, Copy
    <3>2. now \in [Rows -> Row]
      BY <2>1, <3>1, InstallFacts, InstalledTyped
    <3>3. [loaded[t] EXCEPT !.rows = now] \in Copy
      BY <3>1, <3>2 DEF Copy
    <3>4. loaded' \in [Tasks -> Copy]
      BY <2>1, <2>2, <3>3 DEF TypeOK
    <3>5. acked' \in [Tasks -> [Rows -> Nat]]
      BY <2>1, <2>2 DEF TypeOK
    <3>6. /\ call' \in [Calls -> {Idle} \cup Reloads \cup Installs]
          /\ saved' \in [Calls -> Nat]
      BY <1>3 DEF InstallAndAnswer, Leave, TypeOK
    <3> QED
      BY <2>2, <3>4, <3>5, <3>6 DEF TypeOK, tables, requests
  <2>5. RowsForward
    BY <2>2 DEF RowsForward, tables
  <2>6. \A s \in Tasks, x \in Rows :
          /\ acked'[s][x] >= acked[s][x]
          /\ acked'[s][x] # acked[s][x] => s = t /\ x = r
          /\ acked'[s][x] <= loaded'[s].rows[x].version
          /\ Older(loaded'[s].rows[x], rows[x])
    <3> SUFFICES ASSUME NEW s \in Tasks, NEW x \in Rows
                 PROVE  /\ acked'[s][x] >= acked[s][x]
                        /\ acked'[s][x] # acked[s][x] => s = t /\ x = r
                        /\ acked'[s][x] <= loaded'[s].rows[x].version
                        /\ Older(loaded'[s].rows[x], rows[x])
      OBVIOUS
    <3>1. acked[s][x] <= loaded[s].rows[x].version /\ Older(loaded[s].rows[x], rows[x])
      BY DEF Ordered
    <3>2. acked[s][x] \in Nat /\ saved[c] \in Nat
      BY DEF TypeOK
    <3>3. /\ DOMAIN copy = TableOf(r) /\ r \in DOMAIN copy
          /\ saved[c] <= copy[r].version
          /\ x \in DOMAIN copy => acked[t][x] <= copy[x].version /\ Older(copy[x], rows[x])
      BY <2>1, TableFacts DEF Ordered, CopiesInOrder
    <3>4. CASE s = t /\ x \in DOMAIN copy
      <4>1. loaded'[s].rows[x] = copy[x] /\ copy[x].version \in Nat
        BY <2>1, <2>2, <3>4, InstallFacts DEF TypeOK, Copy, Installed
      <4>2. acked'[s][x] = acked[s][x] \/ (x = r /\ acked'[s][x] = saved[c] /\ acked[s][x] < saved[c])
        BY <2>1, <2>2, <3>4 DEF TypeOK
      <4> QED
        BY <3>2, <3>3, <3>4, <4>1, <4>2
    <3>5. CASE s = t /\ x \notin DOMAIN copy
      <4>1. loaded'[s].rows[x] = loaded[s].rows[x]
        BY <2>1, <2>2, <3>5 DEF TypeOK, Copy, Installed
      <4>2. acked'[s][x] = acked[s][x]
        BY <2>1, <2>2, <3>3, <3>5 DEF TypeOK
      <4> QED
        BY <3>1, <3>2, <4>1, <4>2
    <3>6. CASE s # t
      <4>1. loaded'[s] = loaded[s] /\ acked'[s] = acked[s]
        BY <2>1, <2>2, <3>6 DEF TypeOK
      <4> QED
        BY <3>1, <3>2, <4>1
    <3> QED
      BY <3>4, <3>5, <3>6
  <2>7. call'[c] = Idle
    BY <1>3 DEF InstallAndAnswer, Leave, TypeOK
  <2>8. \A q \in Requests : request'[q] # Idle =>
          \A x \in Rows : known'[q][x] <= acked'[request'[q].task][x]
    <3> SUFFICES ASSUME NEW q \in Requests, request[q] # Idle, NEW x \in Rows
                 PROVE  known[q][x] <= acked'[request[q].task][x]
      BY <2>2 DEF requests
    <3>1. request[q].task \in Tasks
      BY DEF TypeOK, Idle
    <3>2. known[q][x] <= acked[request[q].task][x] /\ known[q][x] \in Nat
            /\ acked[request[q].task][x] \in Nat /\ acked'[request[q].task][x] \in Nat
      BY <3>1, <2>4 DEF Ordered, TypeOK
    <3> QED
      BY <3>1, <3>2, <2>6
  <2>9. CopiesInOrder'
    <3> SUFFICES ASSUME NEW d \in Calls, call'[d].pc = "install"
                 PROVE  /\ DOMAIN call'[d].copy = TableOf(call'[d].row)
                        /\ saved'[d] <= call'[d].copy[call'[d].row].version
                        /\ \A x \in DOMAIN call'[d].copy :
                             /\ acked'[call'[d].task][x] <= call'[d].copy[x].version
                             /\ Older(call'[d].copy[x], rows'[x])
      BY DEF CopiesInOrder
    <3>1. d # c /\ call'[d] = call[d] /\ saved'[d] = saved[d] /\ rows' = rows
      BY <2>2, <2>3, <2>7 DEF Idle, tables
    <3>2. /\ DOMAIN call[d].copy = TableOf(call[d].row)
          /\ saved[d] <= call[d].copy[call[d].row].version
          /\ \A x \in DOMAIN call[d].copy :
               acked[call[d].task][x] <= call[d].copy[x].version /\ Older(call[d].copy[x], rows[x])
      BY <3>1 DEF Ordered, CopiesInOrder
    <3>3. call[d].task = t => TableOf(call[d].row) # TableOf(r)
      BY <2>1, <3>1 DEF Ordered, OneReload
    <3>4. r \notin DOMAIN call[d].copy \/ call[d].task # t
      <4>1. call[d].row \in Rows
        BY <3>1, InstallFacts
      <4> QED
        BY <2>1, <3>2, <3>3, <4>1, RoutingAssumption DEF TableOf, Rows
    <3>5. ASSUME NEW x \in DOMAIN call[d].copy
          PROVE  acked'[call[d].task][x] = acked[call[d].task][x]
      BY <2>6, <3>1, <3>4, InstallFacts
    <3> QED
      BY <3>1, <3>2, <3>5
  <2>10. OneReload'
    BY <2>3, <2>7 DEF Ordered, OneReload, Idle
  <2>11. \A d \in Calls : call'[d] # Idle => saved'[d] <= rows'[call'[d].row].version
    BY <2>2, <2>3, <2>7 DEF Ordered, tables
  <2>12. Ordered'
    BY <2>2, <2>6, <2>8, <2>9, <2>10, <2>11 DEF Ordered, tables
  <2> QED
    BY <2>2, <2>4, <2>5, <2>12, RequestsRest
<1>4. CASE UpdateFails(c)
  <2>1. TypeOK'
    BY <1>4 DEF UpdateFails, Leave, TypeOK, tables, requests
  <2>2. /\ call'[c] = Idle
        /\ \A d \in Calls : d # c => call'[d] = call[d] /\ saved'[d] = saved[d]
        /\ UNCHANGED <<tables, loaded, acked, requests>>
    BY <1>4 DEF UpdateFails, Leave, TypeOK
  <2>3. CopiesInOrder' /\ OneReload'
    BY <2>2 DEF Ordered, CopiesInOrder, OneReload, Idle, tables
  <2>4. Ordered'
    BY <2>2, <2>3 DEF Ordered, tables, requests
  <2>5. RowsForward
    BY <2>2 DEF tables, RowsForward
  <2> QED
    BY <2>1, <2>2, <2>4, <2>5, RequestsRest
<1> QED
  BY <1>1, <1>2, <1>3, <1>4 DEF CallStep

\* A step of one request leaves what the others have read alone.
LEMMA OthersRest ==
  ASSUME TypeOK, TypeOK', Ordered, ReadsKept, NEW q \in Requests,
         UNCHANGED <<tables, loaded, calls>>,
         \A p \in Requests : p # q => request'[p] = request[p] /\ known'[p] = known[p],
         /\ request'[q].pc \in {"price", "called"} => RouteRead(q)'
         /\ request'[q].pc = "called" => PriceRead(q)'
  PROVE  ReadsKept'
<1> SUFFICES ASSUME NEW p \in Requests, request'[p].pc \in {"price", "called"}
             PROVE  RouteRead(p)' /\ (request'[p].pc = "called" => PriceRead(p)')
  BY DEF ReadsKept
<1>1. RowsForward
  BY DEF RowsForward, tables
<1>2. CASE p = q
  BY <1>2
<1>3. CASE p # q
  <2>1. request[p] # Idle /\ request'[p] = request[p] /\ known'[p] = known[p]
    BY <1>3 DEF Idle
  <2> QED
    BY <1>1, <2>1, ReadKept DEF ReadsKept
<1> QED
  BY <1>2, <1>3

\* A request that takes a step at its own task keeps the order of versions.
LEMMA OrderRests ==
  ASSUME TypeOK, TypeOK', Ordered, NEW q \in Requests, UNCHANGED <<tables, loaded, calls>>,
         \A p \in Requests : p # q => request'[p] = request[p] /\ known'[p] = known[p],
         request'[q] # Idle =>
           \A r \in Rows : known'[q][r] <= acked[request'[q].task][r]
  PROVE  Ordered'
  BY DEF Ordered, CopiesInOrder, OneReload, tables, calls

\* Each step of a request keeps the invariant.
LEMMA RequestKeepsInv ==
  ASSUME IInv, NEW q \in Requests,
         RequestStep(q) \/ \E t \in Tasks, m \in Models : Arrive(q, t, m)
  PROVE  IInv'
<1> USE DEF IInv
<1> DEFINE others == \A p \in Requests : p # q => request'[p] = request[p] /\ known'[p] = known[p]
           at == request[q].task
<1>1. ASSUME NEW t \in Tasks, NEW m \in Models, Arrive(q, t, m)
      PROVE  IInv'
  <2>1. /\ request'[q] = [pc |-> "alias", task |-> t, model |-> m]
        /\ known'[q] = acked[t]
        /\ others
    BY <1>1 DEF Arrive, TypeOK
  <2>2. TypeOK'
    BY <1>1, <2>1 DEF Arrive, TypeOK, tables, calls, Idle
  <2>3. Ordered'
    <3>1. \A r \in Rows : acked[t][r] \in Nat
      BY DEF TypeOK
    <3> QED
      BY <1>1, <2>1, <2>2, <3>1, OrderRests DEF Arrive
  <2> QED
    BY <1>1, <2>1, <2>2, <2>3, OthersRest DEF Arrive
<1>2. CASE ReadAlias(q)
  <2>1. PICK a \in Highest(MatchingRules(q)) :
          request' = [request EXCEPT ![q] =
            [pc |-> "route", task |-> @.task, model |-> @.model, logical |-> a.logical]]
    BY <1>2 DEF ReadAlias
  <2>2. at \in Tasks /\ request[q] # Idle
    BY <1>2 DEF ReadAlias, TypeOK, Idle
  <2>3. request'[q].pc = "route" /\ request'[q].task = at /\ others /\ known' = known
    BY <1>2, <2>1 DEF ReadAlias, TypeOK
  <2>4. TypeOK'
    BY <1>2, <2>1, <2>2, <2>3 DEF ReadAlias, TypeOK, tables, calls
  <2>5. Ordered'
    BY <1>2, <2>2, <2>3, <2>4, OrderRests DEF ReadAlias, Ordered
  <2> QED
    BY <1>2, <2>3, <2>4, <2>5, OthersRest DEF ReadAlias
<1>3. CASE ReadRoute(q)
  <2> DEFINE copy == loaded[at].rows
  <2>1. PICK r \in PreferredRoutes(q) :
          /\ copy[r].value.api = "converse"
          /\ request' = [request EXCEPT ![q] =
               [pc |-> "price", task |-> @.task, model |-> @.model, logical |-> @.logical,
                route |-> r, version |-> copy[r].version, value |-> copy[r].value]]
    BY <1>3 DEF ReadRoute
  <2>2. at \in Tasks /\ request[q] # Idle
    BY <1>3 DEF ReadRoute, TypeOK, Idle
  <2>3. /\ request'[q].pc = "price" /\ request'[q].task = at
        /\ request'[q].logical = request[q].logical
        /\ request'[q].route = r /\ request'[q].version = copy[r].version
        /\ request'[q].value = copy[r].value
        /\ others /\ known' = known
    BY <1>3, <2>1 DEF ReadRoute, TypeOK
  <2>4. TypeOK'
    BY <1>3, <2>1, <2>2, <2>3 DEF ReadRoute, TypeOK, tables, calls
  <2>5. Ordered'
    BY <1>3, <2>2, <2>3, <2>4, OrderRests DEF ReadRoute, Ordered
  <2>6. r \in Routes /\ copy[r].value.active /\ copy[r].value.logical = request[q].logical
          /\ \A s \in Routes : copy[s].value.active /\ copy[s].value.logical = request[q].logical
               => copy[s].value.priority <= copy[r].value.priority
    BY DEF PreferredRoutes, MatchingRoutes
  <2>7. \A s \in Rows : known[q][s] <= copy[s].version /\ Older(copy[s], rows[s])
    <3> SUFFICES ASSUME NEW s \in Rows
                 PROVE  known[q][s] <= copy[s].version /\ Older(copy[s], rows[s])
      OBVIOUS
    <3>1. known[q][s] <= acked[at][s] /\ acked[at][s] <= copy[s].version
            /\ Older(copy[s], rows[s])
      BY <2>2 DEF Ordered
    <3>2. known[q][s] \in Nat /\ acked[at][s] \in Nat /\ copy[s].version \in Nat
      BY <2>2, RowFacts DEF TypeOK
    <3> QED
      BY <3>1, <3>2
  <2>8. \A s \in Rows : Settled(q, s) => copy[s] = rows[s]
    <3> SUFFICES ASSUME NEW s \in Rows, Settled(q, s)
                 PROVE  copy[s] = rows[s]
      OBVIOUS
    <3>1. copy[s].version \in Nat /\ rows[s].version \in Nat /\ known[q][s] \in Nat
      BY <2>2, RowFacts DEF TypeOK
    <3> QED
      BY <2>7, <3>1 DEF Settled, Older
  <2>9. RouteRead(q)'
    <3>1. r \in Rows /\ (\A s \in Routes : s \in Rows)
      BY <2>6 DEF Rows
    <3>2. copy[r] \in Row /\ rows[r] \in Row /\ rows' = rows
      BY <1>3, <2>2, <3>1, RowFacts DEF ReadRoute, tables
    <3>3. RowRead(q)' = copy[r]
      BY <2>3, <3>2 DEF RowRead, Row
    <3>4. request'[q].version >= known'[q][r] /\ request'[q].version \in Nat
      BY <2>3, <2>7, <3>1, <3>2 DEF TypeOK, Row
    <3>5. \A s \in Routes : Settled(q, s)' /\ rows'[s].value.active
              /\ rows'[s].value.logical = request'[q].logical
            => rows'[s].value.priority <= request'[q].value.priority
      BY <2>3, <2>6, <2>8, <3>1, <3>2 DEF Settled
    <3> QED
      BY <2>1, <2>3, <2>6, <2>7, <3>1, <3>2, <3>3, <3>4, <3>5 DEF RouteRead
  <2> QED
    BY <1>3, <2>3, <2>4, <2>5, <2>9, OthersRest DEF ReadRoute
<1>4. ASSUME NEW price, NEW version, request[q].pc = "price", CallBedrock(q, price, version),
             price # NoId =>
               price \in PricesFor(q) /\ version = loaded[at].rows[price].version,
             price = NoId => PricesFor(q) = {}
      PROVE  IInv'
  <2> DEFINE copy == loaded[at].rows
  <2>1. /\ request' = [request EXCEPT ![q] =
             [pc |-> "called", task |-> @.task, model |-> @.model, logical |-> @.logical,
              route |-> @.route, version |-> @.version, value |-> @.value,
              target |-> TargetOf(@.value), price |-> price, priceVersion |-> version]]
        /\ UNCHANGED <<tables, loaded, calls, known>>
    BY <1>4 DEF CallBedrock
  <2>2. at \in Tasks /\ request[q] # Idle /\ RouteRead(q)
    BY <1>4 DEF TypeOK, Idle, ReadsKept
  <2>3. /\ request'[q].pc = "called" /\ request'[q].task = at
        /\ request'[q].logical = request[q].logical
        /\ request'[q].route = request[q].route /\ request'[q].version = request[q].version
        /\ request'[q].value = request[q].value
        /\ request'[q].target = TargetOf(request[q].value)
        /\ request'[q].price = price /\ request'[q].priceVersion = version
        /\ others
    BY <2>1 DEF TypeOK
  <2>4. TypeOK'
    BY <2>1, <2>2, <2>3 DEF TypeOK, tables, calls
  <2>5. Ordered'
    BY <2>1, <2>2, <2>3, <2>4, OrderRests DEF Ordered
  <2>6. RouteRead(q)'
    BY <2>1, <2>2, <2>3 DEF RouteRead, RowRead, Settled, tables
  <2>7. \A p \in Prices :
          known[q][p] <= copy[p].version /\ (Settled(q, p) => copy[p] = rows[p])
    <3> SUFFICES ASSUME NEW p \in Prices
                 PROVE  known[q][p] <= copy[p].version /\ (Settled(q, p) => copy[p] = rows[p])
      OBVIOUS
    <3>1. p \in Rows
      BY DEF Rows
    <3>2. known[q][p] <= acked[at][p] /\ acked[at][p] <= copy[p].version
            /\ Older(copy[p], rows[p])
      BY <2>2, <3>1 DEF Ordered
    <3>3. known[q][p] \in Nat /\ acked[at][p] \in Nat /\ copy[p].version \in Nat
            /\ rows[p].version \in Nat
      BY <2>2, <3>1, RowFacts DEF TypeOK
    <3> QED
      BY <3>2, <3>3 DEF Older, Settled
  <2>8. PriceRead(q)'
    <3>1. price # NoId => price \in Prices /\ version >= known[q][price]
      <4> SUFFICES ASSUME price # NoId
                   PROVE  price \in Prices /\ version >= known[q][price]
        OBVIOUS
      <4>1. price \in Prices /\ version = copy[price].version
        BY <1>4 DEF PricesFor
      <4>2. version \in Nat /\ known[q][price] \in Nat
        BY <2>2, <4>1, RowFacts DEF TypeOK, Rows
      <4> QED
        BY <2>7, <4>1, <4>2
    <3>2. ASSUME price = NoId, NEW p \in Prices, Settled(q, p)
          PROVE  rows[p].value # request[q].value.model
      <4>1. request[q].value.model = NoId \/ copy[p].value # request[q].value.model
        BY <1>4, <3>2 DEF PricesFor
      <4>2. rows[p].value # NoId
        BY PriceIsModel DEF Rows
      <4> QED
        BY <2>7, <3>2, <4>1, <4>2
    <3> QED
      BY <2>1, <2>3, <3>1, <3>2 DEF PriceRead, Settled, tables
  <2> QED
    BY <2>1, <2>3, <2>4, <2>5, <2>6, <2>8, OthersRest
<1>5. CASE ReadPrice(q)
  <2>1. ASSUME NEW p \in PricesFor(q), CallBedrock(q, p, loaded[at].rows[p].version)
        PROVE  IInv'
    <3>1. p # NoId
      BY RoutingAssumption DEF PricesFor, Rows
    <3> QED
      BY <1>4, <1>5, <2>1, <3>1 DEF ReadPrice
  <2>2. CASE PricesFor(q) = {} /\ CallBedrock(q, NoId, 0)
    BY <1>4, <1>5, <2>2 DEF ReadPrice
  <2> QED
    BY <1>5, <2>1, <2>2 DEF ReadPrice
<1>6. CASE Finish(q)
  <2>1. /\ request'[q] = Idle
        /\ others
    BY <1>6 DEF Finish, TypeOK
  <2>2. TypeOK'
    BY <1>6, <2>1 DEF Finish, TypeOK, NoneKnown, tables, calls, Idle
  <2>3. Ordered'
    BY <1>6, <2>1, <2>2, OrderRests DEF Finish
  <2> QED
    BY <1>6, <2>1, <2>2, <2>3, OthersRest DEF Finish, Idle
<1> QED
  BY <1>1, <1>2, <1>3, <1>5, <1>6 DEF RequestStep

\* Initially every copy is fresh and nothing was written, answered or read.
LEMMA InitInv == Init => IInv
<1> SUFFICES ASSUME Init
             PROVE  IInv
  OBVIOUS
<1> USE RoutingAssumption DEF Init, Idle, NoneKnown
<1>1. \A r \in Rows : SeedValues[r] \in RouteValues \cup ModelIds
  BY DEF ValuesOf
<1>2. rows \in [Rows -> Row] /\ \A r \in Rows : rows[r].value \in ValuesOf(r)
  BY <1>1 DEF Row
<1>3. loaded \in [Tasks -> Copy]
  BY <1>2 DEF Copy
<1>4. TypeOK
  BY <1>2, <1>3 DEF TypeOK
<1>5. Ordered
  BY DEF Ordered, CopiesInOrder, OneReload, Older
<1>6. ReadsKept
  BY DEF ReadsKept
<1> QED
  BY <1>4, <1>5, <1>6 DEF IInv

\* A hand edit of the alias rules, or a task that reloads on its own.
LEMMA OutsideKeepsInv ==
  ASSUME IInv, (\E s \in SUBSET AliasRules : EditAliases(s)) \/ (\E t \in Tasks : Refresh(t))
  PROVE  IInv'
<1> USE DEF IInv
<1>1. RowsForward
  BY DEF RowsForward, EditAliases, Refresh, tables
<1>2. ASSUME NEW s \in SUBSET AliasRules, EditAliases(s)
      PROVE  IInv'
  <2>1. TypeOK' /\ Ordered'
    BY <1>2 DEF EditAliases, TypeOK, Ordered, CopiesInOrder, OneReload, calls, requests
  <2> QED
    BY <1>1, <1>2, <2>1, RequestsRest DEF EditAliases
<1>3. ASSUME NEW t \in Tasks, Refresh(t)
      PROVE  IInv'
  <2>1. UNCHANGED <<tables, calls, requests>>
    BY <1>3 DEF Refresh
  <2>2. ASSUME loaded' = [loaded EXCEPT ![t].aliases = aliases]
        PROVE  TypeOK' /\ Ordered'
    <3>1. loaded' \in [Tasks -> Copy]
      BY <2>2 DEF TypeOK, Copy
    <3>2. \A s \in Tasks : loaded'[s].rows = loaded[s].rows
      BY <2>2 DEF TypeOK, Copy
    <3>3. TypeOK'
      BY <2>1, <3>1 DEF TypeOK, tables, calls, requests
    <3>4. CopiesInOrder' /\ OneReload'
      BY <2>1 DEF Ordered, CopiesInOrder, OneReload, tables, calls
    <3>5. \A s \in Tasks, r \in Rows :
            acked[s][r] <= loaded'[s].rows[r].version /\ Older(loaded'[s].rows[r], rows[r])
      BY <3>2 DEF Ordered
    <3>6. Ordered'
      BY <2>1, <3>4, <3>5 DEF Ordered, tables, calls, requests
    <3> QED
      BY <3>3, <3>6
  <2>3. ASSUME NEW table \in {Routes, Prices},
               loaded' = [loaded EXCEPT ![t].rows = Installed([r \in table |-> rows[r]], @)]
        PROVE  TypeOK' /\ Ordered'
    <3> DEFINE now == Installed([r \in table |-> rows[r]], loaded[t].rows)
    <3>1. [r \in table |-> rows[r]] \in [Routes -> Row] \cup [Prices -> Row]
      BY TableFacts DEF TypeOK
    <3>2. now \in [Rows -> Row] /\ loaded[t] \in Copy
      BY <3>1, InstalledTyped DEF TypeOK, Copy
    <3>3. loaded' = [loaded EXCEPT ![t].rows = now]
      BY <2>3
    <3>4. loaded' \in [Tasks -> Copy]
      BY <3>2, <3>3 DEF TypeOK, Copy
    <3>5. ASSUME NEW s \in Tasks, NEW r \in Rows
          PROVE  loaded'[s].rows[r] \in {loaded[s].rows[r], rows[r]}
      <4>1. CASE s = t
        <5>1. loaded'[s].rows = now
          BY <3>2, <3>3, <4>1 DEF TypeOK, Copy
        <5>2. now[r] \in {loaded[t].rows[r], rows[r]}
          BY DEF Installed
        <5> QED
          BY <4>1, <5>1, <5>2
      <4>2. CASE s # t
        BY <3>3, <4>2 DEF TypeOK
      <4> QED
        BY <4>1, <4>2
    <3>6. ASSUME NEW s \in Tasks, NEW r \in Rows
          PROVE  acked[s][r] <= loaded'[s].rows[r].version /\ Older(loaded'[s].rows[r], rows[r])
      <4>1. acked[s][r] <= loaded[s].rows[r].version /\ Older(loaded[s].rows[r], rows[r])
        BY DEF Ordered
      <4>2. acked[s][r] \in Nat /\ loaded[s].rows[r].version \in Nat /\ rows[r].version \in Nat
        BY RowFacts DEF TypeOK
      <4> QED
        BY <3>5, <4>1, <4>2 DEF Older
    <3>7. TypeOK'
      BY <2>1, <3>4 DEF TypeOK, tables, calls, requests
    <3>8. CopiesInOrder' /\ OneReload'
      BY <2>1 DEF Ordered, CopiesInOrder, OneReload, tables, calls
    <3> QED
      BY <2>1, <3>6, <3>7, <3>8 DEF Ordered, tables, calls, requests
  <2>4. TypeOK' /\ Ordered'
    BY <1>3, <2>2, <2>3 DEF Refresh
  <2> QED
    BY <1>1, <2>1, <2>4, RequestsRest
<1> QED
  BY <1>2, <1>3

\* Every step keeps the invariant.
LEMMA InvStep == IInv /\ [Next]_vars => IInv'
<1> SUFFICES ASSUME IInv, [Next]_vars
             PROVE  IInv'
  OBVIOUS
<1>1. CASE UNCHANGED vars
  BY <1>1 DEF vars, tables, calls, requests, IInv, TypeOK, Ordered, CopiesInOrder, OneReload,
     ReadsKept, RouteRead,
     RowRead, PriceRead, Settled
<1>2. CASE Next
  BY <1>2, CallKeepsInv, RequestKeepsInv, OutsideKeepsInv DEF Next
<1> QED
  BY <1>1, <1>2

\* Versions keep their order on the way from the tables to the requests.
THEOREM InvariantHolds == Spec => []IInv
  BY InitInv, InvStep, PTL DEF Spec

\* No request is served from a row older than one its task had answered for
\* when it arrived.
THEOREM AcknowledgedServed == Spec => []AcknowledgedIsServed
<1>1. IInv => AcknowledgedIsServed
  BY DEF IInv, ReadsKept, RouteRead, PriceRead, AcknowledgedIsServed
<1> QED
  BY <1>1, InvariantHolds, PTL

\* An acknowledged route is obeyed until somebody writes to it again.
THEOREM PreferredServed == Spec => []PreferredIsServed
<1>1. ASSUME IInv, NEW q \in Requests, request[q].pc = "called", Settled(q, request[q].route)
      PROVE  request[q].value = rows[request[q].route].value
  <2> DEFINE r == request[q].route
  <2>1. RouteRead(q) /\ r \in Rows /\ request[q] # Idle
    BY <1>1 DEF IInv, ReadsKept, RouteRead, Rows, Idle
  <2>2. request[q].version \in Nat /\ rows[r].version \in Nat /\ known[q][r] \in Nat
    BY <2>1, <1>1, RowFacts DEF RouteRead, IInv, TypeOK
  <2>3. request[q].version = rows[r].version
    BY <1>1, <2>1, <2>2 DEF RouteRead, RowRead, Older, Settled
  <2> QED
    BY <2>1, <2>3 DEF RouteRead, RowRead, Older
<1>2. IInv => PreferredIsServed
  BY <1>1 DEF IInv, ReadsKept, RouteRead, PriceRead, PreferredIsServed
<1> QED
  BY <1>2, InvariantHolds, PTL
=============================================================================
