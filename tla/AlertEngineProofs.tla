--------------------------- MODULE AlertEngineProofs ---------------------------
(***************************************************************************)
(* Theorems about the alert job and the handlers that edit alerts under    *)
(* it, for every set of drafts, number of alerts, edits and failures.      *)
(***************************************************************************)
EXTENDS AlertEngine, SequenceTheorems, FiniteSetTheorems, TLAPS

-----------------------------------------------------------------------------
(* The invariants.                                                         *)

\* The job records an alert it was armed for when it was listed, and the list
\* names no alert twice.
Control ==
    /\ pc = "record" => listed # <<>> /\ Current.row.status = "armed"
    /\ \A j, k \in DOMAIN listed : listed[j].id = listed[k].id => j = k

\* One more firing is due: the alert is armed, or was when the job listed it and
\* has not been visited since.  An edit may have changed the one but not the other.
Due(i) ==
    \/ i \in Ids /\ alerts[i].status = "armed"
    \/ \E k \in DOMAIN listed : listed[k].id = i /\ listed[k].row.status = "armed"

\* The firing due counts as one of the armings.
FiringsLeft == \A i \in 1..MaxAlerts : Fired(i) + (IF Due(i) THEN 1 ELSE 0) <= armings[i]

\* The delivery under way is the one that may be ahead of the history.
BeingRecorded(i) == pc = "record" /\ Current.id = i
SentIsRecorded ==
    \A i \in 1..MaxAlerts :
        sent[i] <= Fired(i) + failures + (IF BeingRecorded(i) THEN 1 ELSE 0)

AlertInv == TypeOK /\ Control /\ FiringsLeft /\ SentIsRecorded
-----------------------------------------------------------------------------
(* Types and control.                                                      *)

\* A function on 1..n is a sequence.
LEMMA SeqOfFunction ==
    ASSUME NEW S, NEW n \in Nat, NEW f \in [1..n -> S]
    PROVE  f \in Seq(S) /\ Len(f) = n
<1>1. f \in Seq(S)
  BY SeqDef
<1>2. DOMAIN f = 1..n
  OBVIOUS
<1> QED
  BY <1>1, <1>2, LenProperties

\* The rows by id, and what the job has listed.
LEMMA Rows ==
    ASSUME TypeOK
    PROVE  /\ Len(alerts) \in Nat /\ Ids = 1..Len(alerts) /\ Ids \subseteq 1..MaxAlerts
           /\ \A i \in Ids : alerts[i] \in Row
           /\ Len(listed) \in Nat /\ DOMAIN listed = 1..Len(listed)
           /\ \A k \in DOMAIN listed : listed[k].id \in Ids /\ listed[k].row \in Row
<1>1. /\ Len(alerts) \in Nat /\ Ids = 1..Len(alerts) /\ \A i \in Ids : alerts[i] \in Row
  BY DEF TypeOK, Ids
<1>2. Len(alerts) <= MaxAlerts /\ MaxAlerts \in Nat
  BY AlertAssumption DEF TypeOK
<1>3. /\ Len(listed) \in Nat /\ DOMAIN listed = 1..Len(listed)
      /\ \A k \in DOMAIN listed : listed[k].id \in Ids /\ listed[k].row \in Row
  <2> DEFINE Item == [id: Ids, row: Row]
  <2>1. listed \in Seq(Item)
    BY DEF TypeOK
  <2>2. \A x \in Item : x.id \in Ids /\ x.row \in Row
    OBVIOUS
  <2> HIDE DEF Item
  <2>3. Len(listed) \in Nat /\ DOMAIN listed = 1..Len(listed)
        /\ \A k \in DOMAIN listed : listed[k] \in Item
    BY <2>1
  <2> QED
    BY <2>2, <2>3
<1> QED
  BY <1>1, <1>2, <1>3

\* The first of the list, and the rest.
LEMMA Rest ==
    ASSUME TypeOK, Control, listed # <<>>
    PROVE  /\ 1 \in DOMAIN listed /\ Current = listed[1] /\ Current.id \in Ids
           /\ Current.row \in Row
           /\ Tail(listed) \in Seq([id: Ids, row: Row])
           /\ \A k \in DOMAIN Tail(listed) : k + 1 \in DOMAIN listed /\ Tail(listed)[k] = listed[k + 1]
           /\ \A k \in DOMAIN Tail(listed) : Tail(listed)[k].id # Current.id
<1> DEFINE Item == [id: Ids, row: Row]
<1>1. listed \in Seq(Item)
  BY DEF TypeOK
<1> HIDE DEF Item
<1>2. /\ Len(listed) \in Nat \ {0} /\ DOMAIN listed = 1..Len(listed)
      /\ Tail(listed) \in Seq(Item) /\ Len(Tail(listed)) = Len(listed) - 1
      /\ \A k \in 1..Len(Tail(listed)) : Tail(listed)[k] = listed[k + 1]
  BY <1>1, EmptySeq, HeadTailProperties
<1>3. /\ DOMAIN Tail(listed) = 1..(Len(listed) - 1) /\ 1 \in DOMAIN listed
      /\ \A k \in DOMAIN Tail(listed) : k + 1 \in DOMAIN listed /\ k + 1 # 1
  BY <1>2
<1>4. Current = listed[1] /\ listed[1] \in Item
  BY <1>1, <1>3 DEF Current
<1>5. Current.id \in Ids /\ Current.row \in Row
  BY <1>4 DEF Item
<1>6. \A k \in DOMAIN Tail(listed) : Tail(listed)[k].id # Current.id
  BY <1>2, <1>3, <1>4 DEF Control
<1> QED
  BY <1>2, <1>3, <1>4, <1>5, <1>6 DEF Item

\* list_alerts lists every alert once.
LEMMA Listing ==
    ASSUME TypeOK, List
    PROVE  /\ listed' \in Seq([id: Ids, row: Row])
           /\ \A k \in DOMAIN listed' : listed'[k].id \in Ids
                                        /\ listed'[k].row = alerts[listed'[k].id]
           /\ \A j, k \in DOMAIN listed' : listed'[j].id = listed'[k].id => j = k
<1> DEFINE n == Len(alerts)
           all == [i \in Ids |-> [id |-> i, row |-> alerts[i]]]
<1>1. n \in Nat /\ Ids = 1..n /\ \A i \in 1..n : alerts[i] \in Row
  BY Rows
<1> HIDE DEF n
<1>2. all \in Seq([id: Ids, row: Row]) /\ Len(all) = n
  <2>1. all \in [1..n -> [id: Ids, row: Row]]
    BY <1>1
  <2> HIDE DEF all
  <2> QED
    BY <1>1, <2>1, SeqOfFunction
<1>3. /\ listed' = [k \in 1..n |-> all[(n - k) + 1]]
  BY <1>2 DEF List, Reverse
<1>4. \A k \in 1..n : (n - k) + 1 \in 1..n
  BY <1>1
<1>5. \A k \in 1..n : listed'[k] = [id |-> (n - k) + 1, row |-> alerts[(n - k) + 1]]
  BY <1>1, <1>3, <1>4
<1>6. DOMAIN listed' = 1..n
  BY <1>3
<1>7. listed' \in Seq([id: Ids, row: Row])
  <2>1. listed' \in [1..n -> [id: Ids, row: Row]]
    BY <1>1, <1>3, <1>4
  <2> QED
    BY <1>1, <2>1, SeqOfFunction
<1>8. \A j, k \in 1..n : (n - j) + 1 = (n - k) + 1 => j = k
  BY <1>1
<1> HIDE DEF all
<1> QED
  BY <1>1, <1>4, <1>5, <1>6, <1>7, <1>8

\* A change to one row leaves the other rows and the ids.
LEMMA RowChanged ==
    ASSUME TypeOK, NEW i \in Ids, NEW row \in Row, alerts' = [alerts EXCEPT ![i] = row]
    PROVE  /\ alerts' \in Seq(Row) /\ Ids' = Ids /\ Len(alerts') = Len(alerts)
           /\ \A j \in Ids : alerts'[j] = IF j = i THEN row ELSE alerts[j]
<1>1. alerts \in Seq(Row) /\ i \in 1..Len(alerts) /\ Ids = 1..Len(alerts)
  BY Rows DEF TypeOK
<1>2. /\ alerts' \in Seq(Row) /\ Len(alerts') = Len(alerts)
      /\ \A j \in 1..Len(alerts) : alerts'[j] = IF j = i THEN row ELSE alerts[j]
  BY <1>1, ExceptSeq
<1>3. Ids' = 1..Len(alerts')
  BY <1>2 DEF Ids
<1> QED
  BY <1>1, <1>2, <1>3

\* A row added at the end of the table is its newest id and leaves the others.
LEMMA RowAdded ==
    ASSUME TypeOK, NEW row \in Row, alerts' = Append(alerts, row)
    PROVE  /\ alerts' \in Seq(Row) /\ Ids' = 1..(Len(alerts) + 1) /\ Len(alerts') = Len(alerts) + 1
           /\ alerts'[Len(alerts) + 1] = row
           /\ \A j \in Ids : alerts'[j] = alerts[j]
<1>1. alerts \in Seq(Row) /\ Ids = 1..Len(alerts)
  BY Rows DEF TypeOK
<1>2. /\ alerts' \in Seq(Row) /\ Len(alerts') = Len(alerts) + 1
      /\ alerts'[Len(alerts) + 1] = row
      /\ \A j \in 1..Len(alerts) : alerts'[j] = alerts[j]
  BY <1>1, AppendProperties
<1>3. Ids' = 1..Len(alerts')
  BY <1>2 DEF Ids
<1> QED
  BY <1>1, <1>2, <1>3

\* A PUT and the record of a firing are a change of a row.
LEMMA RecordFireRow ==
    ASSUME TypeOK, Control, RecordFire
    PROVE  /\ listed # <<>> /\ Current.id \in Ids /\ Current.row.status = "armed"
           /\ [alerts[Current.id] EXCEPT !.status = "fired"] \in Row
           /\ alerts' = [alerts EXCEPT ![Current.id]
                           = [alerts[Current.id] EXCEPT !.status = "fired"]]
<1>1. listed # <<>> /\ Current.row.status = "armed"
  BY DEF RecordFire, Control
<1>2. Current.id \in Ids
  BY <1>1, Rest
<1>3. alerts[Current.id] \in Row
  BY <1>2, Rows
<1> HIDE DEF Current
<1>4. alerts' = [alerts EXCEPT ![Current.id] = [alerts[Current.id] EXCEPT !.status = "fired"]]
  BY DEF RecordFire
<1> QED
  BY <1>1, <1>2, <1>3, <1>4 DEF Row

\* Every step keeps the types and the control of the job.
LEMMA ControlStep == ASSUME TypeOK, Control, [Next]_vars PROVE TypeOK' /\ Control'
<1>0. /\ bound \in Bindings /\ alerts \in Seq(Row) /\ Len(alerts) <= MaxAlerts
      /\ history \in Seq(Ids) /\ pc \in {"idle", "list", "visit", "record"}
      /\ listed \in Seq([id: Ids, row: Row])
      /\ edits \in 0..MaxEdits /\ failures \in 0..MaxFailures
      /\ armings \in [1..MaxAlerts -> Nat] /\ sent \in [1..MaxAlerts -> Nat]
      /\ MaxAlerts \in Nat /\ MaxEdits \in Nat /\ MaxFailures \in Nat
      /\ Len(alerts) \in Nat /\ Ids = 1..Len(alerts)
  BY Rows, AlertAssumption DEF TypeOK
<1>1. ASSUME NEW d \in Drafts, NEW status \in {"armed", "paused", "fired"}, Create(d, status)
      PROVE  TypeOK' /\ Control'
  <2> DEFINE row == [draft |-> d, status |-> status]
  <2>1. row \in Row /\ alerts' = Append(alerts, row)
    BY <1>1 DEF Row, Create
  <2> HIDE DEF row
  <2>2. /\ alerts' \in Seq(Row) /\ Ids' = 1..(Len(alerts) + 1) /\ Len(alerts') = Len(alerts) + 1
    BY <2>1, RowAdded
  <2>3. Ids \subseteq Ids' /\ Len(alerts') <= MaxAlerts
    BY <1>0, <1>1, <2>2 DEF Create
  <2>4. history \in Seq(Ids') /\ listed \in Seq([id: Ids', row: Row])
    <3> DEFINE before == [id: Ids, row: Row]
               after == [id: Ids', row: Row]
    <3>1. before \subseteq after
      BY <2>3
    <3>2. listed \in Seq(before) /\ history \in Seq(Ids)
      BY <1>0
    <3> HIDE DEF before, after
    <3>3. listed \in Seq(after)
      BY <3>1, <3>2, SeqMonotonic
    <3>4. history \in Seq(Ids')
      BY <2>3, <3>2, SeqMonotonic
    <3> QED
      BY <3>3, <3>4 DEF after
  <2>5. armings' \in [1..MaxAlerts -> Nat]
    BY <1>0, <1>1 DEF Create
  <2>6. UNCHANGED <<bound, history, market, job, edits, failures, sent>>
    BY <1>1 DEF Create
  <2> QED
    BY <1>0, <2>2, <2>3, <2>4, <2>5, <2>6 DEF TypeOK, Control, job, Current
<1>2. ASSUME NEW d \in Drafts, NEW status \in {"armed", "paused", "fired"}, NEW i \in Ids,
             Update(i, d, status)
      PROVE  TypeOK' /\ Control'
  <2>1. [draft |-> d, status |-> status] \in Row
        /\ alerts' = [alerts EXCEPT ![i] = [draft |-> d, status |-> status]]
    BY <1>2 DEF Row, Update
  <2>2. alerts' \in Seq(Row) /\ Ids' = Ids /\ Len(alerts') = Len(alerts)
    BY <2>1, RowChanged
  <2>3. edits' \in 0..MaxEdits /\ armings' \in [1..MaxAlerts -> Nat]
    <3>1. edits \in 0..MaxEdits /\ edits < MaxEdits /\ edits' = edits + 1 /\ MaxEdits \in Nat
      BY <1>0, <1>2 DEF Update
    <3>2. armings' = armings \/ armings' = [armings EXCEPT ![i] = @ + 1]
      BY <1>2 DEF Update
    <3> DEFINE every == 1..MaxAlerts
               more == [armings EXCEPT ![i] = @ + 1]
    <3>3. armings \in [1..MaxAlerts -> Nat]
      BY <1>0
    <3>4. more \in [1..MaxAlerts -> Nat]
      <4>1. armings \in [every -> Nat]
        BY <3>3
      <4>2. CASE i \in every
        <5>1. armings[i] + 1 \in Nat
          BY <4>1, <4>2
        <5> HIDE DEF every
        <5>2. more \in [every -> Nat]
          BY <4>1, <5>1
        <5> QED BY <5>2 DEF every
      <4>3. CASE i \notin every
        <5> HIDE DEF every
        <5>1. more = armings
          BY <4>1, <4>3
        <5> HIDE DEF more
        <5> QED BY <3>3, <5>1
      <4> QED BY <4>2, <4>3
    <3>5. armings' \in [1..MaxAlerts -> Nat]
      BY <3>2, <3>3, <3>4
    <3> QED BY <3>1, <3>5
  <2>4. UNCHANGED <<bound, history, market, job, failures, sent>>
    BY <1>2 DEF Update
  <2> QED
    BY <1>0, <2>2, <2>3, <2>4 DEF TypeOK, Control, job, Current
<1>3. CASE StartCycle
  <2>1. UNCHANGED <<bound, alerts, history, listed, edits, failures, armings, sent>>
        /\ pc' = "list"
    BY <1>3 DEF StartCycle, tables
  <2> QED
    BY <1>0, <2>1 DEF TypeOK, Control, Ids
<1>4. CASE List
  <2>1. UNCHANGED <<bound, alerts, history, edits, failures, armings, sent>> /\ pc' = "visit"
    BY <1>4 DEF List, tables
  <2> QED
    BY <1>0, <1>4, <2>1, Listing DEF TypeOK, Control, Ids
<1>5. CASE Skip
  <2>1. UNCHANGED <<bound, alerts, history, pc, edits, failures, armings, sent>>
        /\ pc = "visit" /\ listed # <<>> /\ listed' = Tail(listed)
    BY <1>5 DEF Skip, Visiting, tables
  <2>2. /\ listed' \in Seq([id: Ids, row: Row])
        /\ \A k \in DOMAIN listed' : k + 1 \in DOMAIN listed /\ listed'[k] = listed[k + 1]
        /\ \A k \in DOMAIN listed' : k \in Int
    BY <2>1, Rest
  <2>3. \A j, k \in DOMAIN listed' : listed'[j].id = listed'[k].id => j = k
    <3> SUFFICES ASSUME NEW j \in DOMAIN listed', NEW k \in DOMAIN listed',
                        listed'[j].id = listed'[k].id
                 PROVE  j = k
      OBVIOUS
    <3>1. j + 1 = k + 1
      BY <2>2 DEF Control
    <3> QED
      BY <2>2, <3>1
  <2> QED
    BY <1>0, <2>1, <2>2, <2>3 DEF TypeOK, Control, Ids
<1>6. CASE RecordFire
  <2>1. UNCHANGED <<bound, edits, failures, armings, sent>> /\ pc' = "visit"
        /\ listed # <<>> /\ listed' = Tail(listed) /\ history' = Append(history, Current.id)
    BY <1>6, RecordFireRow DEF RecordFire
  <2>2. /\ listed' \in Seq([id: Ids, row: Row])
        /\ \A k \in DOMAIN listed' : k + 1 \in DOMAIN listed /\ listed'[k] = listed[k + 1]
        /\ \A k \in DOMAIN listed' : k \in Int
        /\ Current.id \in Ids
    BY <2>1, Rest
  <2>3. \A j, k \in DOMAIN listed' : listed'[j].id = listed'[k].id => j = k
    <3> SUFFICES ASSUME NEW j \in DOMAIN listed', NEW k \in DOMAIN listed',
                        listed'[j].id = listed'[k].id
                 PROVE  j = k
      OBVIOUS
    <3>1. j + 1 = k + 1
      BY <2>2 DEF Control
    <3> QED
      BY <2>2, <3>1
  <2>4. alerts' \in Seq(Row) /\ Ids' = Ids /\ Len(alerts') = Len(alerts)
    BY <1>6, RecordFireRow, RowChanged
  <2>5. history' \in Seq(Ids)
    <3> DEFINE id == Current.id
    <3>1. id \in Ids
      BY <2>2
    <3>2. history' = Append(history, id)
      BY <2>1
    <3>3. history \in Seq(Ids)
      BY DEF TypeOK
    <3> HIDE DEF id
    <3> QED
      BY <3>1, <3>2, <3>3, AppendProperties
  <2> QED
    BY <1>0, <2>1, <2>2, <2>3, <2>4, <2>5 DEF TypeOK, Control
<1>7. CASE Deliver
  <2>1. UNCHANGED <<bound, alerts, history, listed, edits, failures, armings>> /\ pc' = "record"
        /\ listed # <<>> /\ Current.row.status = "armed"
    BY <1>7 DEF Deliver, Visiting, Evaluated, tables
  <2>2. sent' \in [1..MaxAlerts -> Nat]
    <3> DEFINE id == Current.id
    <3>1. id \in Ids /\ (sent' = [sent EXCEPT ![id] = @ + 1] \/ sent' = sent)
      BY <1>7, <2>1, Rest DEF Deliver
    <3>2. id \in 1..MaxAlerts
      BY <3>1, Rows
    <3> HIDE DEF id
    <3>3. CASE sent' = [sent EXCEPT ![id] = @ + 1]
      <4>1. sent \in [1..MaxAlerts -> Nat] /\ sent[id] + 1 \in Nat
        BY <1>0, <3>2
      <4> QED
        BY <3>3, <4>1
    <3> QED
      BY <1>0, <3>1, <3>3
  <2> QED
    BY <1>0, <2>1, <2>2 DEF TypeOK, Control, Ids, Current
<1>8. CASE Raise \/ EndCycle \/ Fail
  <2>1. UNCHANGED <<bound, alerts, history, edits, armings, sent>> /\ pc' = "idle" /\ listed' = <<>>
    BY <1>8 DEF Raise, EndCycle, Fail, Ended, tables
  <2>2. failures' \in 0..MaxFailures
    BY <1>0, <1>8 DEF Raise, EndCycle, Fail
  <2>3. listed' \in Seq([id: Ids, row: Row]) /\ DOMAIN listed' = {}
    BY <2>1
  <2> QED
    BY <1>0, <2>1, <2>2, <2>3 DEF TypeOK, Control, Ids
<1>9. CASE UNCHANGED vars \/ \E s \in Symbols, x \in Prices : NewCandle(s, x)
  <2>1. UNCHANGED <<bound, alerts, history, pc, listed, edits, failures, armings, sent>>
    BY <1>9 DEF vars, NewCandle, tables, job
  <2> QED
    BY <1>0, <2>1 DEF TypeOK, Control, Ids, Current
<1> QED
  BY <1>1, <1>2, <1>3, <1>4, <1>5, <1>6, <1>7, <1>8, <1>9 DEF Next, Cycle

\* The types and the control of the cycle hold in an empty table.
LEMMA ControlInit == ASSUME Init PROVE TypeOK /\ Control
<1>1. alerts = <<>> /\ history = <<>> /\ listed = <<>> /\ Ids = {} /\ Len(alerts) = 0
  BY DEF Init, Ids
<1>2. alerts \in Seq(Row) /\ history \in Seq(Ids) /\ listed \in Seq([id: Ids, row: Row])
  BY <1>1, EmptySeq
<1> QED
  BY <1>1, <1>2, AlertAssumption DEF Init, TypeOK, Control

\* The tables and the job keep their types, whatever handlers and failed cycles
\* come in between.
THEOREM AlertsKeepTypes == Spec => []TypeOK
<1>1. TypeOK /\ Control /\ [Next]_vars => TypeOK' /\ Control'
  BY ControlStep
<1>2. Init => TypeOK /\ Control
  BY ControlInit
<1> QED
  BY <1>1, <1>2, PTL DEF Spec

-----------------------------------------------------------------------------
(* Firings and deliveries.                                                 *)

\* How often an alert has fired is a number; a row of the history adds one, and
\* an id without an alert has none.
LEMMA FiredType == ASSUME TypeOK, NEW i PROVE Fired(i) \in Nat
<1>1. DOMAIN history = 1..Len(history) /\ Len(history) \in Nat
  BY DEF TypeOK
<1> DEFINE S == {k \in DOMAIN history : history[k] = i}
<1>2. IsFiniteSet(S)
  <2>1. IsFiniteSet(1..Len(history)) /\ S \in SUBSET (1..Len(history))
    BY <1>1, FS_Interval
  <2> QED
    BY <2>1, FS_Subset
<1> QED
  BY <1>2, FS_CardinalityType DEF Fired

\* A row of the history counts for the alert it names and for no other.
LEMMA FiredGrows ==
    ASSUME TypeOK, NEW j \in Ids, history' = Append(history, j), NEW i
    PROVE  Fired(i)' = Fired(i) + (IF i = j THEN 1 ELSE 0)
<1> DEFINE n == Len(history)
           S == {k \in DOMAIN history : history[k] = i}
           T == {k \in DOMAIN history' : history'[k] = i}
<1>1. n \in Nat /\ DOMAIN history = 1..n
  BY DEF TypeOK
<1>2. DOMAIN history' = 1..(n + 1) /\ history'[n + 1] = j /\ \A k \in 1..n : history'[k] = history[k]
  BY DEF TypeOK
<1> HIDE DEF n
<1>3. IsFiniteSet(S) /\ n + 1 \notin S
  <2>1. IsFiniteSet(1..n) /\ S \in SUBSET (1..n) /\ n + 1 \notin S
    BY <1>1, FS_Interval
  <2> HIDE DEF S
  <2> QED
    BY <2>1, FS_Subset
<1>4. T = IF i = j THEN S \cup {n + 1} ELSE S
  BY <1>1, <1>2
<1>5. Fired(i) = Cardinality(S) /\ Fired(i)' = Cardinality(T) /\ Cardinality(S) \in Nat
  BY <1>3, FS_CardinalityType DEF Fired
<1> HIDE DEF S, T
<1>6. Cardinality(S \cup {n + 1}) = Cardinality(S) + 1
  BY <1>3, FS_AddElement
<1> QED
  BY <1>4, <1>5, <1>6

\* An id that no alert has yet has no firing in the history.
LEMMA NeverFired == ASSUME TypeOK, NEW i, i \notin Ids PROVE Fired(i) = 0
<1>1. \A k \in DOMAIN history : history[k] \in Ids
  BY DEF TypeOK
<1>2. {k \in DOMAIN history : history[k] = i} = {}
  BY <1>1
<1> QED
  BY <1>2, FS_EmptySet DEF Fired

\* A row that is due makes its firing count, and the counts are numbers.
LEMMA Counts ==
    ASSUME TypeOK, NEW i \in 1..MaxAlerts
    PROVE  Fired(i) \in Nat /\ armings[i] \in Nat /\ sent[i] \in Nat /\ failures \in Nat
BY FiredType DEF TypeOK

\* With neither a firing nor an arming nor a new debt, the account stays.
LEMMA FiringsFrame ==
    ASSUME TypeOK, FiringsLeft, UNCHANGED <<history, armings>>,
           \A i \in 1..MaxAlerts : Due(i)' => Due(i)
    PROVE  FiringsLeft'
<1> SUFFICES ASSUME NEW i \in 1..MaxAlerts
             PROVE  Fired(i)' + (IF Due(i)' THEN 1 ELSE 0) <= armings'[i]
  BY DEF FiringsLeft
<1>1. Fired(i)' = Fired(i) /\ armings'[i] = armings[i] /\ (Due(i)' => Due(i))
  BY DEF Fired
<1>2. Fired(i) + (IF Due(i) THEN 1 ELSE 0) <= armings[i] /\ Fired(i) \in Nat /\ armings[i] \in Nat
  BY Counts DEF FiringsLeft
<1> HIDE DEF Due, Fired
<1> QED
  BY <1>1, <1>2

\* A step that changes the row of one alert and arms it no more often than it
\* makes it due.
LEMMA FiringsEdit ==
    ASSUME TypeOK, TypeOK', Control, FiringsLeft, UNCHANGED <<history, listed>>,
           NEW i \in 1..MaxAlerts, i \in Ids', Ids \subseteq Ids',
           \A j \in Ids' : j # i => j \in Ids /\ alerts'[j] = alerts[j],
           armings' = IF alerts'[i].status = "armed"
                      THEN [armings EXCEPT ![i] = IF i \in Ids THEN @ + 1 ELSE 1] ELSE armings
    PROVE  FiringsLeft'
<1> SUFFICES ASSUME NEW j \in 1..MaxAlerts
             PROVE  Fired(j)' + (IF Due(j)' THEN 1 ELSE 0) <= armings'[j]
  BY DEF FiringsLeft
<1>1. /\ Fired(j) + (IF Due(j) THEN 1 ELSE 0) <= armings[j]
      /\ Fired(j) \in Nat /\ armings[j] \in Nat /\ Fired(j)' = Fired(j)
      /\ armings \in [1..MaxAlerts -> Nat]
  <2>1. Fired(j)' = Fired(j)
    BY DEF Fired
  <2> QED
    BY <2>1, Counts DEF FiringsLeft, TypeOK
<1>2. CASE j # i
  <2>1. Due(j)' => Due(j)
    BY <1>2 DEF Due
  <2>2. armings'[j] = armings[j]
    BY <1>1, <1>2
  <2> HIDE DEF Due, Fired
  <2> QED
    BY <1>1, <2>1, <2>2
<1>3. CASE j = i /\ alerts'[i].status # "armed"
  <2>1. Due(j)' => Due(j)
    BY <1>3 DEF Due
  <2>2. armings'[j] = armings[j]
    BY <1>3
  <2> HIDE DEF Due, Fired
  <2> QED
    BY <1>1, <2>1, <2>2
<1>4. CASE j = i /\ alerts'[i].status = "armed" /\ i \in Ids
  <2>1. armings'[j] = armings[j] + 1
    BY <1>1, <1>4
  <2> HIDE DEF Due, Fired
  <2> QED
    BY <1>1, <2>1
<1>5. CASE j = i /\ alerts'[i].status = "armed" /\ i \notin Ids
  <2>1. armings'[j] = 1
    BY <1>1, <1>5
  <2>2. Fired(j) = 0
    BY <1>5, NeverFired
  <2> HIDE DEF Due, Fired
  <2> QED
    BY <1>1, <2>1, <2>2
<1> QED
  BY <1>2, <1>3, <1>4, <1>5

\* The delivery under way is one ahead, and a failure makes up for one.
LEMMA SentFrame ==
    ASSUME TypeOK, SentIsRecorded, UNCHANGED <<history, sent>>,
           \/ failures' = failures /\ \A i \in 1..MaxAlerts : BeingRecorded(i) => BeingRecorded(i)'
           \/ failures' = failures + 1
    PROVE  SentIsRecorded'
<1> SUFFICES ASSUME NEW i \in 1..MaxAlerts
             PROVE  sent'[i] <= Fired(i)' + failures' + (IF BeingRecorded(i)' THEN 1 ELSE 0)
  BY DEF SentIsRecorded
<1>1. /\ Fired(i)' = Fired(i) /\ sent'[i] = sent[i]
      /\ sent[i] <= Fired(i) + failures + (IF BeingRecorded(i) THEN 1 ELSE 0)
  BY DEF Fired, SentIsRecorded
<1>2. Fired(i) \in Nat /\ sent[i] \in Nat /\ failures \in Nat
  BY Counts
<1> HIDE DEF BeingRecorded, Fired
<1> QED
  BY <1>1, <1>2

\* What is left of the list after its first row owes no more.
LEMMA DueAfter ==
    ASSUME TypeOK, Control, listed # <<>>, UNCHANGED alerts, listed' = Tail(listed), NEW i, Due(i)'
    PROVE  Due(i)
BY Rest DEF Due, Ids

\* Every step keeps the account of firings and that of deliveries.
LEMMA AlertStep == ASSUME AlertInv, [Next]_vars PROVE AlertInv'
<1>0. TypeOK /\ Control /\ FiringsLeft /\ SentIsRecorded /\ TypeOK' /\ Control'
  BY ControlStep DEF AlertInv
<1>1. ASSUME FiringsLeft', SentIsRecorded' PROVE AlertInv'
  BY <1>0, <1>1 DEF AlertInv
<1>2. ASSUME NEW d \in Drafts, NEW status \in {"armed", "paused", "fired"}, Create(d, status)
      PROVE  AlertInv'
  <2> DEFINE row == [draft |-> d, status |-> status]
  <2>0. PICK i : i = Len(alerts) + 1
    OBVIOUS
  <2>1. row \in Row /\ alerts' = Append(alerts, row) /\ Len(alerts) < MaxAlerts
        /\ UNCHANGED <<history, listed, sent, failures, pc>>
        /\ armings' = IF status = "armed" THEN [armings EXCEPT ![i] = 1] ELSE armings
    BY <1>2, <2>0 DEF Row, Create, job
  <2>2. /\ Ids' = 1..i /\ alerts'[i] = row /\ \A j \in Ids : alerts'[j] = alerts[j]
        /\ Ids = 1..Len(alerts) /\ Len(alerts) \in Nat /\ MaxAlerts \in Nat
    <3> HIDE DEF row
    <3> QED
      BY <1>0, <2>0, <2>1, RowAdded, Rows, AlertAssumption
  <2>3. /\ i \in 1..MaxAlerts /\ i \in Ids' /\ Ids \subseteq Ids' /\ i \notin Ids
        /\ \A j \in Ids' : j # i => j \in Ids /\ alerts'[j] = alerts[j]
    BY <2>0, <2>1, <2>2
  <2>4. armings' = IF alerts'[i].status = "armed"
                   THEN [armings EXCEPT ![i] = IF i \in Ids THEN @ + 1 ELSE 1] ELSE armings
    <3>1. alerts'[i].status = status
      BY <2>2
    <3>2. [armings EXCEPT ![i] = IF i \in Ids THEN @ + 1 ELSE 1] = [armings EXCEPT ![i] = 1]
      BY <2>3
    <3> QED
      BY <2>1, <3>1, <3>2
  <2> HIDE DEF row
  <2>5. FiringsLeft'
    BY <1>0, <2>1, <2>3, <2>4, FiringsEdit
  <2>6. SentIsRecorded'
    BY <1>0, <2>1, SentFrame DEF BeingRecorded, Current
  <2> QED
    BY <1>1, <2>5, <2>6
<1>3. ASSUME NEW d \in Drafts, NEW status \in {"armed", "paused", "fired"}, NEW i \in Ids,
             Update(i, d, status)
      PROVE  AlertInv'
  <2> DEFINE row == [draft |-> d, status |-> status]
  <2>1. row \in Row /\ alerts' = [alerts EXCEPT ![i] = row]
        /\ UNCHANGED <<history, listed, sent, failures, pc>>
        /\ armings' = IF status = "armed" THEN [armings EXCEPT ![i] = @ + 1] ELSE armings
    BY <1>3 DEF Row, Update, job
  <2>2. Ids' = Ids /\ \A j \in Ids : alerts'[j] = IF j = i THEN row ELSE alerts[j]
    <3> HIDE DEF row
    <3> QED
      BY <1>0, <2>1, RowChanged
  <2>3. /\ i \in 1..MaxAlerts /\ i \in Ids' /\ Ids \subseteq Ids'
        /\ \A j \in Ids' : j # i => j \in Ids /\ alerts'[j] = alerts[j]
    BY <1>0, <2>2, Rows
  <2>4. armings' = IF alerts'[i].status = "armed"
                   THEN [armings EXCEPT ![i] = IF i \in Ids THEN @ + 1 ELSE 1] ELSE armings
    BY <2>1, <2>2
  <2> HIDE DEF row
  <2>5. FiringsLeft'
    BY <1>0, <2>1, <2>3, <2>4, FiringsEdit
  <2>6. SentIsRecorded'
    BY <1>0, <2>1, SentFrame DEF BeingRecorded, Current
  <2> QED
    BY <1>1, <2>5, <2>6
<1>4. CASE List
  <2>1. UNCHANGED <<alerts, history, armings, sent, failures>> /\ pc = "list"
    BY <1>4 DEF List, tables
  <2>2. ASSUME NEW i, Due(i)' PROVE Due(i)
    BY <1>0, <1>4, <2>1, <2>2, Listing DEF Due, Ids
  <2>3. FiringsLeft'
    BY <1>0, <2>1, <2>2, FiringsFrame
  <2>4. SentIsRecorded'
    BY <1>0, <2>1, SentFrame DEF BeingRecorded
  <2> QED
    BY <1>1, <2>3, <2>4
<1>5. CASE Skip
  <2>1. UNCHANGED <<alerts, history, armings, sent, failures, pc>> /\ pc = "visit"
        /\ listed # <<>> /\ listed' = Tail(listed)
    BY <1>5 DEF Skip, Visiting, tables
  <2>2. FiringsLeft'
    BY <1>0, <2>1, DueAfter, FiringsFrame
  <2>3. SentIsRecorded'
    BY <1>0, <2>1, SentFrame DEF BeingRecorded
  <2> QED
    BY <1>1, <2>2, <2>3
<1>6. CASE RecordFire
  <2>0. PICK id : id = Current.id
    OBVIOUS
  <2> DEFINE row == [alerts[id] EXCEPT !.status = "fired"]
  <2>1. /\ UNCHANGED <<armings, sent, failures>> /\ pc = "record" /\ pc' = "visit"
        /\ listed' = Tail(listed) /\ history' = Append(history, id)
        /\ listed # <<>> /\ Current.row.status = "armed" /\ id \in Ids /\ row \in Row
        /\ alerts' = [alerts EXCEPT ![id] = row]
    BY <1>0, <1>6, <2>0, RecordFireRow DEF RecordFire
  <2>2. row.status = "fired"
    BY <2>1 DEF Row
  <2>3. /\ Current = listed[1] /\ 1 \in DOMAIN listed
        /\ \A k \in DOMAIN listed' : k + 1 \in DOMAIN listed /\ listed'[k] = listed[k + 1]
        /\ \A k \in DOMAIN listed' : listed'[k].id # id
    BY <1>0, <2>0, <2>1, Rest
  <2> HIDE DEF row
  <2>4. Ids' = Ids /\ \A j \in Ids : alerts'[j] = IF j = id THEN row ELSE alerts[j]
    BY <1>0, <2>1, RowChanged
  <2>5. \A i \in 1..MaxAlerts : Fired(i)' = Fired(i) + (IF i = id THEN 1 ELSE 0)
    BY <1>0, <2>1, FiredGrows
  <2>6. Due(id) /\ ~Due(id)'
    <3>1. Due(id)
      BY <2>0, <2>1, <2>3 DEF Due
    <3>2. ~Due(id)'
      BY <2>1, <2>2, <2>3, <2>4 DEF Due
    <3> QED
      BY <3>1, <3>2
  <2>7. ASSUME NEW i, i # id, Due(i)' PROVE Due(i)
    BY <2>3, <2>4, <2>7 DEF Due
  <2>8. FiringsLeft'
    <3> SUFFICES ASSUME NEW i \in 1..MaxAlerts
                 PROVE  Fired(i)' + (IF Due(i)' THEN 1 ELSE 0) <= armings'[i]
      BY DEF FiringsLeft
    <3>1. /\ Fired(i) + (IF Due(i) THEN 1 ELSE 0) <= armings[i]
          /\ Fired(i) \in Nat /\ armings[i] \in Nat
          /\ Fired(i)' = Fired(i) + (IF i = id THEN 1 ELSE 0) /\ armings'[i] = armings[i]
      BY <1>0, <2>1, <2>5, Counts DEF FiringsLeft
    <3>2. CASE i = id
      <4>1. Due(i) /\ ~Due(i)'
        BY <2>6, <3>2
      <4> HIDE DEF Due, Fired
      <4> QED
        BY <3>1, <3>2, <4>1
    <3>3. CASE i # id
      <4>1. Due(i)' => Due(i)
        BY <2>7, <3>3
      <4> HIDE DEF Due, Fired
      <4> QED
        BY <3>1, <3>3, <4>1
    <3> QED
      BY <3>2, <3>3
  <2>9. SentIsRecorded'
    <3> SUFFICES ASSUME NEW i \in 1..MaxAlerts
                 PROVE  sent'[i] <= Fired(i)' + failures' + (IF BeingRecorded(i)' THEN 1 ELSE 0)
      BY DEF SentIsRecorded
    <3>1. /\ sent[i] <= Fired(i) + failures + (IF BeingRecorded(i) THEN 1 ELSE 0)
          /\ Fired(i) \in Nat /\ sent[i] \in Nat /\ failures \in Nat
          /\ Fired(i)' = Fired(i) + (IF i = id THEN 1 ELSE 0)
          /\ sent'[i] = sent[i] /\ failures' = failures
      BY <1>0, <2>1, <2>5, Counts DEF SentIsRecorded
    <3>2. BeingRecorded(i) => i = id
      BY <2>0 DEF BeingRecorded
    <3> HIDE DEF BeingRecorded, Fired
    <3> QED
      BY <3>1, <3>2
  <2> QED
    BY <1>1, <2>8, <2>9
<1>7. CASE Deliver
  <2>0. PICK id : id = Current.id
    OBVIOUS
  <2>1. UNCHANGED <<alerts, history, listed, armings, failures>> /\ pc = "visit" /\ pc' = "record"
        /\ listed # <<>>
        /\ (sent' = [sent EXCEPT ![id] = @ + 1] \/ sent' = sent)
    BY <1>7, <2>0 DEF Deliver, Visiting, tables
  <2>2. \A i \in 1..MaxAlerts : Due(i)' => Due(i)
    BY <2>1 DEF Due, Ids
  <2>3. FiringsLeft'
    BY <1>0, <2>1, <2>2, FiringsFrame
  <2>4. SentIsRecorded'
    <3> SUFFICES ASSUME NEW i \in 1..MaxAlerts
                 PROVE  sent'[i] <= Fired(i)' + failures' + (IF BeingRecorded(i)' THEN 1 ELSE 0)
      BY DEF SentIsRecorded
    <3>1. /\ ~BeingRecorded(i) /\ (BeingRecorded(i)' <=> i = id)
          /\ sent[i] <= Fired(i) + failures + (IF BeingRecorded(i) THEN 1 ELSE 0)
      BY <1>0, <2>0, <2>1 DEF BeingRecorded, Current, SentIsRecorded
    <3>2. Fired(i)' = Fired(i) /\ failures' = failures
      BY <2>1 DEF Fired
    <3>3. Fired(i) \in Nat /\ sent[i] \in Nat /\ failures \in Nat
      BY <1>0, Counts
    <3>4. \/ sent'[i] = sent[i]
          \/ i = id /\ sent'[i] = sent[i] + 1
      <4>1. sent \in [1..MaxAlerts -> Nat]
        BY <1>0 DEF TypeOK
      <4>2. CASE sent' = [sent EXCEPT ![id] = @ + 1]
        BY <4>1, <4>2
      <4> QED
        BY <2>1, <4>2
    <3> HIDE DEF BeingRecorded, Fired
    <3> QED
      BY <3>1, <3>2, <3>3, <3>4
  <2> QED
    BY <1>1, <2>3, <2>4
<1>8. CASE Raise \/ EndCycle
  <2>1. UNCHANGED <<alerts, history, armings, sent, failures>> /\ listed' = <<>> /\ pc = "visit"
    BY <1>8 DEF Raise, EndCycle, Ended, Visiting, tables
  <2>2. \A i \in 1..MaxAlerts : Due(i)' => Due(i)
    BY <2>1 DEF Due, Ids
  <2>3. FiringsLeft' /\ SentIsRecorded'
    BY <1>0, <2>1, <2>2, FiringsFrame, SentFrame DEF BeingRecorded
  <2> QED
    BY <1>1, <2>3
<1>9. CASE Fail
  <2>1. UNCHANGED <<alerts, history, armings, sent>> /\ listed' = <<>> /\ failures' = failures + 1
    BY <1>9 DEF Fail, Ended, tables
  <2>2. \A i \in 1..MaxAlerts : Due(i)' => Due(i)
    BY <2>1 DEF Due, Ids
  <2>3. FiringsLeft' /\ SentIsRecorded'
    BY <1>0, <2>1, <2>2, FiringsFrame, SentFrame
  <2> QED
    BY <1>1, <2>3
<1>10. ASSUME UNCHANGED <<alerts, history, listed, armings, sent, failures>>,
              pc' = pc \/ pc = "idle"
       PROVE  AlertInv'
  <2>1. \A i \in 1..MaxAlerts : Due(i)' => Due(i)
    BY <1>10 DEF Due, Ids
  <2>2. \A i \in 1..MaxAlerts : BeingRecorded(i) => BeingRecorded(i)'
    BY <1>10 DEF BeingRecorded, Current
  <2>3. FiringsLeft' /\ SentIsRecorded'
    BY <1>0, <1>10, <2>1, <2>2, FiringsFrame, SentFrame
  <2> QED
    BY <1>1, <2>3
<1>11. CASE StartCycle \/ UNCHANGED vars
  BY <1>10, <1>11 DEF StartCycle, vars, tables, job
<1>12. ASSUME NEW s \in Symbols, NEW x \in Prices, NewCandle(s, x) PROVE AlertInv'
  BY <1>10, <1>12 DEF NewCandle, tables, job
<1> QED
  BY <1>2, <1>3, <1>4, <1>5, <1>6, <1>7, <1>8, <1>9, <1>11, <1>12 DEF Next, Cycle

\* Nothing has fired, been sent or listed at the start.
LEMMA AlertInit == ASSUME Init PROVE AlertInv
<1>1. TypeOK /\ Control /\ Ids = {} /\ listed = <<>> /\ failures = 0 /\ pc = "idle"
  BY ControlInit DEF Init, Ids
<1>2. ASSUME NEW i \in 1..MaxAlerts
      PROVE  Fired(i) = 0 /\ ~Due(i) /\ armings[i] = 0 /\ sent[i] = 0 /\ ~BeingRecorded(i)
  BY <1>1, NeverFired DEF Init, Due, BeingRecorded
<1>3. FiringsLeft
  <2> HIDE DEF Fired, Due
  <2> QED
    BY <1>2 DEF FiringsLeft
<1>4. SentIsRecorded
  <2> HIDE DEF Fired, BeingRecorded
  <2> QED
    BY <1>1, <1>2 DEF SentIsRecorded
<1> QED
  BY <1>1, <1>3, <1>4 DEF AlertInv

\* However handlers re-arm, pause and rewrite alerts under a cycle that works
\* from the rows it listed, and however often cycles are cut short, an alert is
\* recorded as fired at most once for each time it was armed, and delivered at
\* most once more for each cycle that was cut short.
THEOREM FiresOncePerArming == Spec => []OncePerArming
<1>1. AlertInv /\ [Next]_vars => AlertInv'
  BY AlertStep
<1>2. ASSUME AlertInv PROVE OncePerArming
  <2> SUFFICES ASSUME NEW i \in Ids
               PROVE  Fired(i) <= armings[i] /\ sent[i] <= armings[i] + failures
    BY DEF OncePerArming
  <2>1. TypeOK /\ Control /\ i \in 1..MaxAlerts
    BY <1>2, Rows DEF AlertInv
  <2>2. /\ Fired(i) \in Nat /\ armings[i] \in Nat /\ sent[i] \in Nat /\ failures \in Nat
        /\ Fired(i) + (IF Due(i) THEN 1 ELSE 0) <= armings[i]
        /\ sent[i] <= Fired(i) + failures + (IF BeingRecorded(i) THEN 1 ELSE 0)
    BY <1>2, <2>1, Counts DEF AlertInv, FiringsLeft, SentIsRecorded
  <2>3. BeingRecorded(i) => Due(i)
    <3> SUFFICES ASSUME pc = "record", Current.id = i PROVE Due(i)
      BY DEF BeingRecorded
    <3>1. listed # <<>> /\ Current.row.status = "armed"
      BY <2>1 DEF Control
    <3>2. 1 \in DOMAIN listed /\ Current = listed[1]
      BY <2>1, <3>1, Rest
    <3> QED
      BY <3>1, <3>2 DEF Due
  <2> HIDE DEF Due, BeingRecorded, Fired
  <2> QED
    BY <2>2, <2>3
<1> QED
  BY <1>1, <1>2, AlertInit, PTL DEF Spec
================================================================================
