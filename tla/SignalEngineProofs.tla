--------------------------- MODULE SignalEngineProofs ---------------------------
(***************************************************************************)
(* What SignalEngine promises, proved for every value of its constants:    *)
(* its types, that every actionable signal served has its calibration row, *)
(* that a resolved row holds the first touch; what SetupFamilies makes of  *)
(* every bar; what LadderBacktest makes of every trade and every pooled    *)
(* sample; the macro reads and the narration's fact guard; and what        *)
(* Indicators says of every series of candles.                             *)
(***************************************************************************)
EXTENDS SignalEngine, SetupFamilies, LadderBacktest, Indicators, SequenceFacts

Ids == SeriesSet \X Nat \X STRING
Built == [at : Nat, says : STRING, version : Nat]
Outcomes == {"stopped", "target", "expired"}
Stages == {"idle", "read", "record", "put"}

\* A record is of a candle the series has, and of its first version unless the
\* candle was corrected.
Sound(s, built) ==
    /\ built.at \in 1..Newest(s)
    /\ built.at \notin revised[s] => built.version = 0
\* An actionable record has its row.
HasRow(s, built) == built.says \in Actionable => <<s, built.at, built.says>> \in DOMAIN rows
\* An outcome found on time, on candles nobody corrected, is the first touch.
Holds(id, outcome, late) ==
    (~late /\ revised[id[1]] \cap ((id[2] + 1)..Newest(id[1])) = {})
        => outcome = FirstTouch(SubSeq(feed[id[1]], id[2] + 1, Newest(id[1])))

FeedInv ==
    /\ feed \in [SeriesSet -> Seq(Kinds)]
    /\ revised \in [SeriesSet -> SUBSET Nat]
    /\ \A s \in SeriesSet : revised[s] \subseteq 1..Newest(s)
    /\ revisions \in Nat
RowsInv ==
    /\ IsFiniteSet(DOMAIN rows) /\ DOMAIN rows \subseteq Ids
    /\ rows \in [DOMAIN rows -> [version : Nat, outcome : Outcomes \cup {"pending"}, late : BOOLEAN]]
    /\ \A id \in DOMAIN rows :
          /\ id[2] \in 1..Newest(id[1])
          /\ id[2] \notin revised[id[1]] => rows[id].version = 0
TouchInv ==
    \A id \in DOMAIN rows :
        rows[id].outcome # "pending" => Holds(id, rows[id].outcome, rows[id].late)
CacheInv ==
    /\ cache \in [SeriesSet -> Seq(Built)]
    /\ \A s \in SeriesSet : cache[s] # <<>> => Sound(s, cache[s][1]) /\ HasRow(s, cache[s][1])
CompInv ==
    /\ comp \in [Computers -> [pc : Stages, todo : Seq(SeriesSet), read : Seq(Built)]]
    /\ \A k \in Computers :
          /\ (comp[k].pc = "idle") = (comp[k].todo = <<>>)
          /\ \A i \in DOMAIN comp[k].todo : Newest(comp[k].todo[i]) > 0
          /\ comp[k].pc \in {"record", "put"} =>
                comp[k].read # <<>> /\ Sound(Head(comp[k].todo), comp[k].read[1])
          /\ comp[k].pc = "put" => HasRow(Head(comp[k].todo), comp[k].read[1])
RepInv ==
    /\ rep \in [Reporters -> [todo : Seq(Ids), found : Outcomes \cup {"unread"}, late : BOOLEAN]]
    /\ \A r \in Reporters :
          /\ Len(rep[r].todo) <= ListLimit
          /\ \A i \in DOMAIN rep[r].todo : rep[r].todo[i] \in DOMAIN rows
          /\ rep[r].found # "unread" =>
                rep[r].todo # <<>> /\ Holds(Head(rep[r].todo), rep[r].found, rep[r].late)
EngineInv == FeedInv /\ RowsInv /\ TouchInv /\ CacheInv /\ CompInv /\ RepInv

-----------------------------------------------------------------------------
(* Sequences and numbers.                                                  *)

\* The first and the rest of a sequence that is not empty.
LEMMA FirstAndRest ==
    ASSUME NEW S, NEW q \in Seq(S), q # <<>>
    PROVE  /\ Len(q) \in Nat \ {0} /\ DOMAIN q = 1..Len(q)
           /\ 1 \in DOMAIN q /\ Len(q) \in DOMAIN q
           /\ Head(q) = q[1] /\ q[1] \in S /\ Last(q) = q[Len(q)] /\ q[Len(q)] \in S
           /\ Tail(q) \in Seq(S) /\ Len(Tail(q)) = Len(q) - 1
           /\ (Tail(q) = <<>>) <=> (Len(q) = 1)
           /\ DOMAIN Tail(q) = 1..(Len(q) - 1)
           /\ \A i \in DOMAIN Tail(q) : i + 1 \in DOMAIN q /\ Tail(q)[i] = q[i + 1]
<1>1. Len(q) \in Nat \ {0} /\ DOMAIN q = 1..Len(q) /\ 1 \in DOMAIN q /\ Len(q) \in DOMAIN q
  BY EmptySeq, LenProperties
<1>2. \A i \in DOMAIN q : q[i] \in S
  BY <1>1, ElementOfSeq
<1>3. /\ Tail(q) \in Seq(S) /\ Len(Tail(q)) = Len(q) - 1
      /\ \A i \in 1..Len(Tail(q)) : Tail(q)[i] = q[i + 1]
  BY HeadTailProperties
<1>4. DOMAIN Tail(q) = 1..(Len(q) - 1)
  BY <1>3
<1>5. \A i \in DOMAIN Tail(q) : i + 1 \in DOMAIN q
  BY <1>1, <1>4
<1>6. (Tail(q) = <<>>) <=> (Len(q) = 1)
  <2>1. Tail(q) = <<>> => Len(Tail(q)) = 0
    BY EmptySeq
  <2>2. Tail(q) # <<>> => Len(Tail(q)) > 0
    BY <1>3, EmptySeq
  <2> QED BY <1>1, <1>3, <2>1, <2>2
<1> QED
  BY <1>1, <1>2, <1>3, <1>4, <1>5, <1>6 DEF Last

\* The smaller of two numbers.
LEMMA MinOfTwo == \A a, b \in Int : Min({a, b}) = IF a <= b THEN a ELSE b
<1> SUFFICES ASSUME NEW a \in Int, NEW b \in Int PROVE Min({a, b}) = IF a <= b THEN a ELSE b
  OBVIOUS
<1> DEFINE m == IF a <= b THEN a ELSE b
<1>1. m \in {a, b} /\ \A y \in {a, b} : m <= y
  OBVIOUS
<1>2. \A x \in {a, b} : (\A y \in {a, b} : x <= y) => x = m
  OBVIOUS
<1> QED BY <1>1, <1>2 DEF Min

\* The least of some numbers.
LEMMA LeastOf ==
    ASSUME NEW S \in SUBSET Nat, S # {}
    PROVE  Min(S) \in S /\ \A y \in S : Min(S) <= y
<1> DEFINE Less == OpToRel(<, Nat)
<1>1. IsWellFoundedOn(Less, Nat)
  BY NatLessThanWellFounded
<1> HIDE DEF Less
<1>2. PICK x \in S : \A y \in S : ~(<<y, x>> \in Less)
  BY <1>1, WFMin
<1>3. ASSUME NEW y \in S PROVE x <= y
  <2>1. ~(y < x)
    BY <1>2 DEF OpToRel, Less
  <2> QED BY <2>1
<1> QED BY <1>3 DEF Min
-----------------------------------------------------------------------------
(* The first touch.                                                        *)

\* An outcome found on some candles is the outcome on all that follow: the
\* replay of a longer series finds the same first touch.
LEMMA TouchStands ==
    ASSUME NEW p \in Seq(Kinds), NEW q \in Seq(Kinds), Len(p) <= Len(q),
           \A i \in 1..Len(p) : q[i] = p[i], FirstTouch(p) # "pending"
    PROVE  FirstTouch(q) = FirstTouch(p)
<1> DEFINE m == Min({Horizon, Len(p)})
           n == Min({Horizon, Len(q)})
           P == {i \in 1..m : p[i].touches # {}}
           Q == {i \in 1..n : q[i].touches # {}}
<1>1. Horizon \in Nat /\ Len(p) \in Nat /\ Len(q) \in Nat
  BY EngineAssumption
<1>2. /\ m = (IF Horizon <= Len(p) THEN Horizon ELSE Len(p))
      /\ n = (IF Horizon <= Len(q) THEN Horizon ELSE Len(q))
  BY <1>1, MinOfTwo
<1>3. /\ FirstTouch(p) = IF P = {} THEN IF Len(p) >= Horizon THEN "expired" ELSE "pending"
                         ELSE IF "stop" \in p[Min(P)].touches THEN "stopped" ELSE "target"
      /\ FirstTouch(q) = IF Q = {} THEN IF Len(q) >= Horizon THEN "expired" ELSE "pending"
                         ELSE IF "stop" \in q[Min(Q)].touches THEN "stopped" ELSE "target"
  BY DEF FirstTouch
<1> HIDE DEF m, n
<1>4. m \in Nat /\ n \in Nat /\ m <= n /\ m <= Len(p)
  BY <1>1, <1>2
<1>5. \A i \in 1..m : q[i] = p[i]
  BY <1>1, <1>4
<1>6. P = Q \cap (1..m) /\ P \subseteq Nat /\ Q \subseteq Nat
  BY <1>4, <1>5
<1>7. CASE P = {}
  <2>1. Len(p) >= Horizon /\ m = n
    BY <1>1, <1>2, <1>3, <1>7
  <2>2. Q = {}
    BY <1>6, <1>7, <2>1
  <2> QED BY <1>1, <1>3, <1>7, <2>1, <2>2
<1>8. CASE P # {}
  <2>1. Min(P) \in P /\ \A y \in P : Min(P) <= y
    BY <1>6, <1>8, LeastOf
  <2>2. Min(Q) \in Q /\ \A y \in Q : Min(Q) <= y
    BY <1>6, <1>8, LeastOf
  <2>3. Min(Q) <= Min(P)
    BY <1>6, <2>1, <2>2
  <2>4. Min(Q) \in 1..m
    <3>1. Min(P) \in 1..m /\ Min(Q) \in 1..n
      BY <2>1, <2>2
    <3> QED BY <1>4, <2>3, <3>1
  <2>5. Min(P) <= Min(Q)
    BY <1>6, <2>1, <2>2, <2>4
  <2>6. Min(P) \in Nat /\ Min(Q) \in Nat
    BY <1>6, <2>1, <2>2
  <2>7. Min(P) = Min(Q)
    BY <2>3, <2>5, <2>6
  <2>8. q[Min(Q)] = p[Min(P)]
    BY <1>5, <2>4, <2>7
  <2> HIDE DEF P, Q
  <2> QED BY <1>3, <1>6, <1>8, <2>2, <2>8
<1> QED BY <1>7, <1>8

\* What the replay finds.
LEMMA TouchType == \A after : FirstTouch(after) \in Outcomes \cup {"pending"}
  BY DEF FirstTouch, Outcomes

\* Nothing is found on no candle.
LEMMA NothingTouched == FirstTouch(<<>>) = "pending"
<1>1. Len(<<>>) = 0 /\ Horizon \in Nat /\ Horizon > 0
  BY EngineAssumption, EmptySeq
<1>2. Min({Horizon, 0}) = 0
  BY <1>1, MinOfTwo
<1> QED BY <1>1, <1>2 DEF FirstTouch

\* The candles a report has read.
LEMMA CandlesAfter ==
    ASSUME FeedInv, NEW id \in Ids, id[2] \in 1..Newest(id[1])
    PROVE  /\ SubSeq(feed[id[1]], id[2] + 1, Newest(id[1])) \in Seq(Kinds)
           /\ Len(SubSeq(feed[id[1]], id[2] + 1, Newest(id[1]))) = Newest(id[1]) - id[2]
           /\ \A i \in 1..(Newest(id[1]) - id[2]) :
                 SubSeq(feed[id[1]], id[2] + 1, Newest(id[1]))[i] = feed[id[1]][i + id[2]]
           /\ Newest(id[1]) - id[2] <= Window
                 => After(id) = SubSeq(feed[id[1]], id[2] + 1, Newest(id[1]))
<1> DEFINE f == feed[id[1]]
           at == id[2]
           n == Newest(id[1])
<1>1. f \in Seq(Kinds) /\ n = Len(f) /\ n \in Nat /\ at \in 1..n /\ at + 1 \in Int
  BY DEF FeedInv, Ids, Newest
<1> HIDE DEF f, n, at
<1>2. \A i \in (at + 1)..n : f[i] \in Kinds
  BY <1>1, ElementOfSeq
<1>3. /\ SubSeq(f, at + 1, n) \in Seq(Kinds)
      /\ Len(SubSeq(f, at + 1, n)) = IF at + 1 <= n THEN (n - (at + 1)) + 1 ELSE 0
      /\ \A i \in 1..((n - (at + 1)) + 1) : SubSeq(f, at + 1, n)[i] = f[((at + 1) + i) - 1]
  BY <1>1, <1>2, SubSeqProperties
<1>4. Len(SubSeq(f, at + 1, n)) = n - at
  BY <1>1, <1>3
<1>5. \A i \in 1..(n - at) : SubSeq(f, at + 1, n)[i] = f[i + at]
  <2>1. (n - (at + 1)) + 1 = n - at /\ \A i \in 1..(n - at) : ((at + 1) + i) - 1 = i + at
    BY <1>1
  <2> QED BY <1>3, <2>1
<1>6. ASSUME n - at <= Window PROVE After(id) = SubSeq(f, at + 1, n)
  <2>1. ~((n - Window) + 1 > at + 1)
    BY <1>1, <1>6, EngineAssumption
  <2> QED BY <2>1 DEF After, f, n, at
<1> QED BY <1>3, <1>4, <1>5, <1>6 DEF f, n, at
-----------------------------------------------------------------------------
(* What no step takes back.                                                *)

\* Series only grow, a candle that changes is noted as corrected, and rows stay.
Grows ==
    /\ \A s \in SeriesSet :
          /\ Newest(s) <= Newest(s)'
          /\ revised[s] \subseteq revised'[s]
          /\ \A i \in 1..Newest(s) : feed'[s][i] = feed[s][i] \/ i \in revised'[s]
    /\ DOMAIN rows \subseteq DOMAIN rows'

\* The length of a series.
LEMMA Lengths == FeedInv => \A s \in SeriesSet : Newest(s) \in Nat /\ feed[s] \in Seq(Kinds)
  BY DEF FeedInv, Newest

\* A further candle.
LEMMA ArriveFeed ==
    ASSUME FeedInv, NEW s \in Growing, Arrive(s)
    PROVE  FeedInv' /\ Grows
<1>1. s \in SeriesSet
  BY EngineAssumption
<1>2. PICK kind \in Kinds : feed' = [feed EXCEPT ![s] = Append(@, kind)]
  BY DEF Arrive
<1>3. UNCHANGED <<revised, rows, revisions>>
  BY DEF Arrive
<1> DEFINE longer == Append(feed[s], kind)
<1>4. /\ feed[s] \in Seq(Kinds) /\ longer \in Seq(Kinds) /\ Len(longer) = Len(feed[s]) + 1
      /\ Len(feed[s]) \in Nat /\ \A i \in 1..Len(feed[s]) : longer[i] = feed[s][i]
  BY <1>1, AppendProperties DEF FeedInv
<1>5. feed' = [feed EXCEPT ![s] = longer]
  BY <1>2
<1> HIDE DEF longer
<1>6. feed' \in [SeriesSet -> Seq(Kinds)] /\ \A t \in SeriesSet : feed'[t] = IF t = s THEN longer ELSE feed[t]
  BY <1>1, <1>4, <1>5 DEF FeedInv
<1>7. \A t \in SeriesSet : Newest(t)' = IF t = s THEN Newest(t) + 1 ELSE Newest(t)
  BY <1>4, <1>6 DEF Newest
<1>8. \A t \in SeriesSet : Newest(t) \in Nat
  BY Lengths
<1>9. Grows
  BY <1>3, <1>4, <1>6, <1>7, <1>8 DEF Grows, Newest
<1>10. \A t \in SeriesSet : revised'[t] \subseteq 1..Newest(t)'
  BY <1>3, <1>7, <1>8 DEF FeedInv
<1> QED BY <1>3, <1>6, <1>9, <1>10 DEF FeedInv

\* A correction of the newest candle.
LEMMA ReviseFeed ==
    ASSUME FeedInv, NEW s \in Growing, Revise(s)
    PROVE  FeedInv' /\ Grows
<1>1. s \in SeriesSet /\ feed[s] # <<>>
  BY EngineAssumption DEF Revise
<1>2. PICK kind \in Kinds : feed' = [feed EXCEPT ![s][Newest(s)] = kind]
  BY DEF Revise
<1>3. rows' = rows /\ revisions' = revisions + 1 /\ revised' = [revised EXCEPT ![s] = @ \cup {Newest(s)}]
  BY DEF Revise
<1> DEFINE n == Newest(s)
           corrected == [feed[s] EXCEPT ![n] = kind]
<1>4. feed[s] \in Seq(Kinds) /\ n = Len(feed[s]) /\ n \in Nat \ {0}
  BY <1>1, FirstAndRest DEF FeedInv, Newest
<1>5. feed' = [feed EXCEPT ![s] = corrected]
  BY <1>2
<1> HIDE DEF n
<1>6. /\ corrected \in Seq(Kinds) /\ Len(corrected) = n
      /\ \A i \in 1..n : i # n => corrected[i] = feed[s][i]
  BY <1>4, ExceptSeq
<1> HIDE DEF corrected
<1>7. feed' \in [SeriesSet -> Seq(Kinds)] /\ \A t \in SeriesSet : feed'[t] = IF t = s THEN corrected ELSE feed[t]
  BY <1>1, <1>5, <1>6 DEF FeedInv
<1>8. \A t \in SeriesSet : Newest(t)' = Newest(t) /\ Newest(t) \in Nat
  BY <1>4, <1>6, <1>7, Lengths DEF Newest
<1>9. /\ revised' \in [SeriesSet -> SUBSET Nat]
      /\ \A t \in SeriesSet : revised'[t] = IF t = s THEN revised[t] \cup {n} ELSE revised[t]
  BY <1>1, <1>3, <1>4 DEF FeedInv, n
<1>10. Grows
  <2>1. ASSUME NEW t \in SeriesSet, NEW i \in 1..Newest(t) PROVE feed'[t][i] = feed[t][i] \/ i \in revised'[t]
    <3>1. CASE t # s
      BY <1>7, <3>1
    <3>2. CASE t = s /\ i = n
      BY <1>9, <3>2
    <3>3. CASE t = s /\ i # n
      BY <1>6, <1>7, <2>1, <3>3 DEF n
    <3> QED BY <3>1, <3>2, <3>3
  <2>2. \A t \in SeriesSet : Newest(t) <= Newest(t)'
    BY <1>8
  <2>3. \A t \in SeriesSet : revised[t] \subseteq revised'[t]
    BY <1>9
  <2> QED BY <1>3, <2>1, <2>2, <2>3 DEF Grows
<1>11. \A t \in SeriesSet : revised'[t] \subseteq 1..Newest(t)'
  <2>1. n \in 1..n
    BY <1>4
  <2> QED BY <1>8, <1>9, <2>1 DEF FeedInv, n
<1> QED BY <1>3, <1>7, <1>9, <1>10, <1>11 DEF FeedInv

\* A row resolved is typed as before.
LEMMA ResolveRows ==
    ASSUME FeedInv, RowsInv, RepInv, NEW r \in Reporters, Resolve(r)
    PROVE  /\ Head(rep[r].todo) \in DOMAIN rows
           /\ rows' \in [DOMAIN rows -> [version : Nat, outcome : Outcomes \cup {"pending"}, late : BOOLEAN]]
           /\ \A id \in DOMAIN rows : rows'[id].version = rows[id].version
           /\ \A id \in DOMAIN rows \ {Head(rep[r].todo)} : rows'[id] = rows[id]
           /\ rows'[Head(rep[r].todo)].outcome = rep[r].found
           /\ rows'[Head(rep[r].todo)].late = rep[r].late
<1> DEFINE id == Head(rep[r].todo)
           Row == [version : Nat, outcome : Outcomes \cup {"pending"}, late : BOOLEAN]
<1>1. id \in DOMAIN rows
  <2>1. rep[r].todo \in Seq(Ids) /\ rep[r].todo # <<>>
    BY DEF RepInv, Resolve
  <2> QED BY <2>1, FirstAndRest DEF RepInv
<1>2. rep[r].found \in Outcomes /\ rep[r].late \in BOOLEAN
  BY DEF RepInv, Resolve
<1>3. rows' = [rows EXCEPT ![id].outcome = rep[r].found, ![id].late = rep[r].late]
  BY DEF Resolve
<1>4. rows \in [DOMAIN rows -> Row]
  BY DEF RowsInv
<1> HIDE DEF id
<1>5. [rows[id] EXCEPT !.outcome = rep[r].found, !.late = rep[r].late] \in Row
  BY <1>1, <1>2, <1>4
<1>6. rows' = [rows EXCEPT ![id] = [rows[id] EXCEPT !.outcome = rep[r].found, !.late = rep[r].late]]
  BY <1>1, <1>3, <1>4
<1>7. rows' \in [DOMAIN rows -> Row]
  BY <1>1, <1>4, <1>5, <1>6
<1>8. /\ \A x \in DOMAIN rows \ {id} : rows'[x] = rows[x]
      /\ rows'[id] = [rows[id] EXCEPT !.outcome = rep[r].found, !.late = rep[r].late]
  BY <1>1, <1>6
<1>9. rows[id] \in Row
  BY <1>1, <1>4
<1>10. rows'[id].outcome = rep[r].found /\ rows'[id].late = rep[r].late /\ rows'[id].version = rows[id].version
  BY <1>8, <1>9
<1> QED BY <1>1, <1>7, <1>8, <1>10 DEF id

\* What a thread that works on a series is at.
LEMMA AtWork ==
    ASSUME CompInv, FeedInv, NEW k \in Computers, comp[k].pc # "idle"
    PROVE  /\ comp[k].todo \in Seq(SeriesSet) /\ comp[k].todo # <<>>
           /\ Head(comp[k].todo) \in SeriesSet /\ Newest(Head(comp[k].todo)) > 0
           /\ comp[k].pc \in {"record", "put"} => comp[k].read # <<>> /\ comp[k].read[1] \in Built
<1>1. comp[k].todo \in Seq(SeriesSet) /\ comp[k].todo # <<>> /\ comp[k].read \in Seq(Built)
  BY DEF CompInv
<1>2. Head(comp[k].todo) \in SeriesSet /\ Newest(Head(comp[k].todo)) > 0
  BY <1>1, FirstAndRest DEF CompInv
<1>3. comp[k].read # <<>> => comp[k].read[1] \in Built
  BY <1>1, FirstAndRest
<1> QED BY <1>1, <1>2, <1>3 DEF CompInv

\* A booked row is new, of a candle there is, and of its first version unless
\* that was corrected.
LEMMA RecordRows ==
    ASSUME FeedInv, RowsInv, CompInv, NEW k \in Computers, Record(k)
    PROVE  /\ RowsInv' /\ DOMAIN rows \subseteq DOMAIN rows'
           /\ \A id \in DOMAIN rows : rows'[id] = rows[id]
           /\ \A id \in DOMAIN rows' \ DOMAIN rows : rows'[id].outcome = "pending"
           /\ HasRow(Head(comp[k].todo), comp[k].read[1])'
<1> DEFINE s == Head(comp[k].todo)
           built == comp[k].read[1]
           id == <<s, built.at, built.says>>
           Row == [version : Nat, outcome : Outcomes \cup {"pending"}, late : BOOLEAN]
           fresh == [version |-> built.version, outcome |-> "pending", late |-> FALSE]
           booked == built.says \in Actionable /\ id \notin DOMAIN rows
<1>1. comp[k].pc = "record" /\ s \in SeriesSet /\ built \in Built /\ Sound(s, built)
  BY AtWork DEF Record, CompInv
<1>2. rows' = IF booked THEN Booked(id, built.version) ELSE rows
  BY DEF Record
<1>3. UNCHANGED <<feed, revised>> /\ comp' = [comp EXCEPT ![k].pc = "put"]
  BY DEF Record
<1>4. comp'[k].todo = comp[k].todo /\ comp'[k].read = comp[k].read
  BY <1>3 DEF CompInv
<1>5. HasRow(s, built)' = (built.says \in Actionable => id \in DOMAIN rows')
  BY <1>4 DEF HasRow
<1> HIDE DEF s, built
<1>6. id \in Ids /\ built.at \in Nat /\ built.version \in Nat /\ fresh \in Row
  BY <1>1 DEF Ids, Built
<1>7. id[1] = s /\ id[2] = built.at
  OBVIOUS
<1>8. /\ DOMAIN rows \subseteq Ids /\ IsFiniteSet(DOMAIN rows) /\ rows \in [DOMAIN rows -> Row]
      /\ \A x \in DOMAIN rows : /\ x[2] \in 1..Newest(x[1])
                                /\ x[2] \notin revised[x[1]] => rows[x].version = 0
  BY DEF RowsInv
<1>9. \A t : Newest(t)' = Newest(t) /\ revised'[t] = revised[t]
  BY <1>3 DEF Newest
<1>10. /\ id[2] \in 1..Newest(id[1])
       /\ id[2] \notin revised[id[1]] => fresh.version = 0
  BY <1>1, <1>7 DEF Sound
<1> HIDE DEF id, fresh
<1>11. CASE booked
  <2>1. rows' = [i \in DOMAIN rows \cup {id} |-> IF i = id THEN fresh ELSE rows[i]]
    BY <1>2, <1>11 DEF Booked, fresh
  <2>2. /\ DOMAIN rows' = DOMAIN rows \cup {id} /\ rows'[id] = fresh
        /\ \A x \in DOMAIN rows : rows'[x] = rows[x]
    BY <1>11, <2>1
  <2>3. rows' \in [DOMAIN rows' -> Row]
    BY <1>6, <1>8, <2>1
  <2>4. IsFiniteSet(DOMAIN rows')
    BY <1>8, <2>2, FS_AddElement
  <2>5. \A x \in DOMAIN rows' : /\ x[2] \in 1..Newest(x[1])'
                                /\ x[2] \notin revised'[x[1]] => rows'[x].version = 0
    BY <1>8, <1>9, <1>10, <2>2
  <2>6. RowsInv'
    BY <1>6, <1>8, <2>2, <2>3, <2>4, <2>5 DEF RowsInv
  <2>7. fresh.outcome = "pending"
    BY DEF fresh
  <2> QED BY <1>5, <2>2, <2>6, <2>7 DEF s, built
<1>12. CASE ~booked
  <2>1. rows' = rows
    BY <1>2, <1>12
  <2>2. RowsInv'
    BY <1>8, <1>9, <2>1 DEF RowsInv
  <2> QED BY <1>5, <1>12, <2>1, <2>2 DEF s, built
<1> QED BY <1>11, <1>12

\* Every step keeps the feed's types and grows.
LEMMA GrowsStep == ASSUME EngineInv, [EngineNext]_engine PROVE FeedInv' /\ Grows
<1> USE DEF EngineInv
<1>1. ASSUME UNCHANGED <<feed, revised, revisions>>, DOMAIN rows \subseteq DOMAIN rows' PROVE FeedInv' /\ Grows
  <2>1. \A s \in SeriesSet : Newest(s)' = Newest(s) /\ Newest(s) \in Nat
    BY <1>1, Lengths DEF Newest
  <2> QED BY <1>1, <2>1 DEF FeedInv, Grows
<1>2. ASSUME NEW s \in Growing, Arrive(s) \/ Revise(s) PROVE FeedInv' /\ Grows
  BY <1>2, ArriveFeed, ReviseFeed
<1>3. ASSUME NEW k \in Computers, Record(k) PROVE FeedInv' /\ Grows
  <2>1. UNCHANGED <<feed, revised, revisions>>
    BY <1>3 DEF Record
  <2> QED BY <1>1, <1>3, <2>1, RecordRows
<1>4. ASSUME NEW k \in Computers, Begin(k) \/ Read(k) \/ Put(k) \/ Abort(k) PROVE FeedInv' /\ Grows
  BY <1>1, <1>4 DEF Begin, Read, Put, Abort
<1>5. ASSUME NEW r \in Reporters, Ask(r) \/ Judge(r) PROVE FeedInv' /\ Grows
  BY <1>1, <1>5 DEF Ask, Judge
<1>6. ASSUME NEW r \in Reporters, Resolve(r) PROVE FeedInv' /\ Grows
  <2>1. UNCHANGED <<feed, revised, revisions>>
    BY <1>6 DEF Resolve
  <2>2. DOMAIN rows' = DOMAIN rows
    BY <1>6, ResolveRows
  <2> QED BY <1>1, <2>1, <2>2
<1>7. ASSUME RestartEngine \/ UNCHANGED engine PROVE FeedInv' /\ Grows
  BY <1>1, <1>7 DEF RestartEngine, engine
<1> QED BY <1>2, <1>3, <1>4, <1>5, <1>6, <1>7 DEF EngineNext, Compute, Report

\* A record stays sound, and keeps its row.
LEMMA SoundStays ==
    ASSUME FeedInv, FeedInv', Grows, NEW s \in SeriesSet, NEW built \in Built, Sound(s, built)
    PROVE  Sound(s, built)'
<1>1. Newest(s) \in Nat /\ Newest(s)' \in Nat /\ Newest(s) <= Newest(s)' /\ revised[s] \subseteq revised'[s]
  BY Lengths DEF Grows, FeedInv, Newest
<1>2. built.at \in Nat
  BY DEF Built
<1> QED BY <1>1, <1>2 DEF Sound

\* A row of the store is never deleted.
LEMMA HasRowStays ==
    ASSUME Grows, NEW s, NEW built, HasRow(s, built)
    PROVE  HasRow(s, built)'
  BY DEF HasRow, Grows

\* What a report found stays the first touch, whatever arrives; a candle
\* corrected after the signal withdraws the claim.
LEMMA HoldsStays ==
    ASSUME FeedInv, FeedInv', Grows, NEW id \in Ids, id[2] \in 1..Newest(id[1]),
           NEW outcome \in Outcomes, NEW late, Holds(id, outcome, late)
    PROVE  Holds(id, outcome, late)'
<1> DEFINE s == id[1]
           at == id[2]
           n == Newest(s)
           m == Newest(s)'
           p == SubSeq(feed[s], at + 1, n)
           q == SubSeq(feed'[s], at + 1, m)
<1>1. s \in SeriesSet /\ at \in Nat
  BY DEF Ids
<1>2. n \in Nat /\ m \in Nat /\ n <= m /\ at \in 1..n /\ at \in 1..m
  BY <1>1, Lengths DEF Grows, FeedInv, Newest
<1>3. /\ p \in Seq(Kinds) /\ Len(p) = n - at
      /\ \A i \in 1..(n - at) : p[i] = feed[s][i + at]
  BY CandlesAfter
<1>4. /\ q \in Seq(Kinds) /\ Len(q) = m - at
      /\ \A i \in 1..(m - at) : q[i] = feed'[s][i + at]
  <2>1. Newest(id[1])' = Len(feed'[id[1]])
    BY DEF Newest
  <2>2. feed'[s] \in Seq(Kinds) /\ m = Len(feed'[s])
    BY <1>1, <2>1 DEF FeedInv
  <2> DEFINE f == feed'[s]
  <2> HIDE DEF f, m, at
  <2>3. \A i \in (at + 1)..m : f[i] \in Kinds
    BY <1>2, <2>2, ElementOfSeq DEF f
  <2>4. /\ SubSeq(f, at + 1, m) \in Seq(Kinds)
        /\ Len(SubSeq(f, at + 1, m)) = IF at + 1 <= m THEN (m - (at + 1)) + 1 ELSE 0
        /\ \A i \in 1..((m - (at + 1)) + 1) : SubSeq(f, at + 1, m)[i] = f[((at + 1) + i) - 1]
    BY <1>2, <2>3, SubSeqProperties
  <2>5. (m - (at + 1)) + 1 = m - at /\ \A i \in 1..(m - at) : ((at + 1) + i) - 1 = i + at
    BY <1>2
  <2> QED BY <1>2, <2>4, <2>5 DEF f
<1>5. Holds(id, outcome, late)' = ((~late /\ revised'[s] \cap ((at + 1)..m) = {}) => outcome = FirstTouch(q))
  BY DEF Holds, Newest
<1>6. Holds(id, outcome, late) = ((~late /\ revised[s] \cap ((at + 1)..n) = {}) => outcome = FirstTouch(p))
  BY DEF Holds
<1>7. SUFFICES ASSUME ~late, revised'[s] \cap ((at + 1)..m) = {} PROVE outcome = FirstTouch(q)
  BY <1>5
<1>8. /\ revised[s] \subseteq revised'[s]
      /\ \A i \in 1..n : feed'[s][i] = feed[s][i] \/ i \in revised'[s]
  BY <1>1 DEF Grows
<1> HIDE DEF s, at, n, m, p, q
<1>9. outcome = FirstTouch(p)
  <2>1. (at + 1)..n \subseteq (at + 1)..m
    BY <1>2
  <2> QED BY <1>6, <1>7, <1>8, <2>1
<1>10. ASSUME NEW i \in 1..Len(p) PROVE q[i] = p[i]
  <2>1. i \in 1..(n - at) /\ i \in 1..(m - at) /\ i + at \in 1..n /\ i + at \in (at + 1)..m
    BY <1>2, <1>3
  <2>2. i + at \notin revised'[s]
    BY <1>7, <2>1
  <2> QED BY <1>3, <1>4, <1>8, <2>1, <2>2
<1>11. FirstTouch(p) # "pending"
  BY <1>9 DEF Outcomes
<1>12. Len(p) <= Len(q)
  BY <1>2, <1>3, <1>4
<1> QED BY <1>3, <1>4, <1>9, <1>10, <1>11, <1>12, TouchStands

-----------------------------------------------------------------------------
(* Each part of the invariant, step by step.                               *)

\* Rows are booked by a computation and resolved by a report; candles that come
\* leave them in place.
LEMMA RowsStep == ASSUME EngineInv, [EngineNext]_engine PROVE RowsInv'
<1> USE DEF EngineInv
<1>1. FeedInv' /\ Grows
  BY GrowsStep
<1>2. ASSUME NEW id \in DOMAIN rows PROVE id[2] \in 1..Newest(id[1])' /\ revised[id[1]] \subseteq revised'[id[1]]
  <2>1. id \in Ids /\ id[1] \in SeriesSet /\ id[2] \in 1..Newest(id[1])
    BY DEF RowsInv, Ids
  <2>2. Newest(id[1]) \in Nat /\ Newest(id[1])' \in Nat /\ Newest(id[1]) <= Newest(id[1])'
    BY <1>1, <2>1, Lengths DEF Grows, FeedInv, Newest
  <2> QED BY <1>1, <2>1, <2>2 DEF Grows
<1>3. CASE rows' = rows
  <2>1. \A id \in DOMAIN rows' : /\ id[2] \in 1..Newest(id[1])'
                                 /\ id[2] \notin revised'[id[1]] => rows'[id].version = 0
    BY <1>2, <1>3 DEF RowsInv
  <2> QED BY <1>3, <2>1 DEF RowsInv
<1>4. ASSUME NEW k \in Computers, Record(k) PROVE RowsInv'
  BY <1>4, RecordRows
<1>5. ASSUME NEW r \in Reporters, Resolve(r) PROVE RowsInv'
  <2>1. /\ rows' \in [DOMAIN rows -> [version : Nat, outcome : Outcomes \cup {"pending"}, late : BOOLEAN]]
        /\ \A id \in DOMAIN rows : rows'[id].version = rows[id].version
    BY <1>5, ResolveRows
  <2>2. DOMAIN rows' = DOMAIN rows
    BY <2>1
  <2>3. \A id \in DOMAIN rows' : /\ id[2] \in 1..Newest(id[1])'
                                 /\ id[2] \notin revised'[id[1]] => rows'[id].version = 0
    BY <1>2, <2>1, <2>2 DEF RowsInv
  <2> QED BY <2>1, <2>2, <2>3 DEF RowsInv
<1>6. rows' = rows \/ (\E k \in Computers : Record(k)) \/ (\E r \in Reporters : Resolve(r))
  BY DEF EngineNext, Compute, Report, Arrive, Revise, Begin, Read, Put, Abort, Ask, Judge, RestartEngine, engine
<1> QED BY <1>3, <1>4, <1>5, <1>6

\* A row is resolved with what its report found.
LEMMA TouchStep == ASSUME EngineInv, [EngineNext]_engine PROVE TouchInv'
<1> USE DEF EngineInv
<1>1. FeedInv' /\ Grows
  BY GrowsStep
<1>2. ASSUME NEW id \in DOMAIN rows, rows[id].outcome # "pending", rows'[id] = rows[id]
      PROVE  Holds(id, rows[id].outcome, rows[id].late)'
  <2>1. id \in Ids /\ id[2] \in 1..Newest(id[1]) /\ rows[id].outcome \in Outcomes
    BY <1>2 DEF RowsInv
  <2>2. PICK outcome \in Outcomes, late \in {rows[id].late} : outcome = rows[id].outcome /\ late = rows[id].late
    BY <2>1
  <2>3. Holds(id, outcome, late)
    BY <1>2, <2>2 DEF TouchInv
  <2>4. Holds(id, outcome, late)'
    BY <1>1, <2>1, <2>3, HoldsStays
  <2> QED BY <1>2, <2>2, <2>4
<1>3. CASE rows' = rows
  BY <1>2, <1>3 DEF TouchInv
<1>4. ASSUME NEW k \in Computers, Record(k) PROVE TouchInv'
  <2>1. /\ \A id \in DOMAIN rows : rows'[id] = rows[id]
        /\ \A id \in DOMAIN rows' \ DOMAIN rows : rows'[id].outcome = "pending"
    BY <1>4, RecordRows
  <2> QED BY <1>2, <2>1 DEF TouchInv
<1>5. ASSUME NEW r \in Reporters, Resolve(r) PROVE TouchInv'
  <2> DEFINE at == Head(rep[r].todo)
  <2>1. /\ at \in DOMAIN rows /\ DOMAIN rows' = DOMAIN rows
        /\ \A id \in DOMAIN rows \ {at} : rows'[id] = rows[id]
        /\ rows'[at].outcome = rep[r].found /\ rows'[at].late = rep[r].late
    BY <1>5, ResolveRows
  <2>2. PICK id : id = at
    OBVIOUS
  <2>3. id \in Ids /\ id[2] \in 1..Newest(id[1])
    BY <2>1, <2>2 DEF RowsInv
  <2>4. PICK outcome \in Outcomes, late \in {rep[r].late} : outcome = rep[r].found /\ late = rep[r].late
    BY <1>5 DEF RepInv, Resolve
  <2>5. Holds(id, outcome, late)
    BY <1>5, <2>2, <2>4 DEF RepInv, Resolve
  <2>6. Holds(id, outcome, late)'
    BY <1>1, <2>3, <2>5, HoldsStays
  <2>7. rows'[id].outcome = outcome /\ rows'[id].late = late
    BY <2>1, <2>2, <2>4
  <2>8. Holds(id, rows[id].outcome, rows[id].late)'
    BY <2>6, <2>7
  <2> HIDE DEF at
  <2> QED BY <1>2, <2>1, <2>2, <2>8 DEF TouchInv
<1>6. rows' = rows \/ (\E k \in Computers : Record(k)) \/ (\E r \in Reporters : Resolve(r))
  BY DEF EngineNext, Compute, Report, Arrive, Revise, Begin, Read, Put, Abort, Ask, Judge, RestartEngine, engine
<1> QED BY <1>3, <1>4, <1>5, <1>6

\* What is put into the cache has its row.
LEMMA CacheStep == ASSUME EngineInv, [EngineNext]_engine PROVE CacheInv'
<1> USE DEF EngineInv
<1>1. FeedInv' /\ Grows
  BY GrowsStep
<1>2. ASSUME NEW s \in SeriesSet, NEW built \in Built, Sound(s, built), HasRow(s, built)
      PROVE  Sound(s, built)' /\ HasRow(s, built)'
  BY <1>1, <1>2, SoundStays, HasRowStays
<1>3. ASSUME NEW s \in SeriesSet, cache'[s] = cache[s], cache[s] # <<>>
      PROVE  Sound(s, cache[s][1])' /\ HasRow(s, cache[s][1])'
  <2>1. cache[s][1] \in Built /\ Sound(s, cache[s][1]) /\ HasRow(s, cache[s][1])
    BY <1>3, FirstAndRest DEF CacheInv
  <2>2. PICK built \in Built : built = cache[s][1]
    BY <2>1
  <2>3. Sound(s, built)' /\ HasRow(s, built)'
    BY <1>2, <2>1, <2>2
  <2> QED BY <1>3, <2>2, <2>3
<1>4. CASE cache' = cache
  BY <1>3, <1>4 DEF CacheInv
<1>5. CASE cache' = [s \in SeriesSet |-> <<>>]
  BY <1>5, EmptySeq DEF CacheInv
<1>6. ASSUME NEW k \in Computers, Put(k) PROVE CacheInv'
  <2>1. PICK s \in SeriesSet : s = Head(comp[k].todo)
    BY <1>6, AtWork DEF Put
  <2>2. PICK read \in Seq(Built) : read = comp[k].read
    BY DEF CompInv
  <2>3. read # <<>> /\ read[1] \in Built /\ Sound(s, read[1]) /\ HasRow(s, read[1])
    BY <1>6, <2>1, <2>2, AtWork DEF CompInv, Put
  <2>4. Sound(s, read[1])' /\ HasRow(s, read[1])'
    BY <1>2, <2>3
  <2>5. cache' = [cache EXCEPT ![s] = read]
    BY <1>6, <2>1, <2>2 DEF Put
  <2>6. cache' \in [SeriesSet -> Seq(Built)] /\ \A t \in SeriesSet : cache'[t] = IF t = s THEN read ELSE cache[t]
    BY <2>5 DEF CacheInv
  <2>7. ASSUME NEW t \in SeriesSet, cache'[t] # <<>> PROVE Sound(t, cache[t][1])' /\ HasRow(t, cache[t][1])'
    <3>1. CASE t = s
      BY <2>4, <2>6, <3>1
    <3>2. CASE t # s
      BY <1>3, <2>6, <2>7, <3>2
    <3> QED BY <3>1, <3>2
  <2> QED BY <2>6, <2>7 DEF CacheInv
<1>7. cache' = cache \/ cache' = [s \in SeriesSet |-> <<>>] \/ (\E k \in Computers : Put(k))
  BY DEF EngineNext, Compute, Report, Arrive, Revise, Begin, Read, Record, Abort, Ask, Judge, Resolve, RestartEngine, engine
<1> QED BY <1>4, <1>5, <1>6, <1>7

\* A computation that goes on, or is done.
CompSound(k) ==
    /\ (comp[k].pc = "idle") = (comp[k].todo = <<>>)
    /\ \A i \in DOMAIN comp[k].todo : Newest(comp[k].todo[i]) > 0
    /\ comp[k].pc \in {"record", "put"} =>
          comp[k].read # <<>> /\ Sound(Head(comp[k].todo), comp[k].read[1])
    /\ comp[k].pc = "put" => HasRow(Head(comp[k].todo), comp[k].read[1])
Thread == [pc : Stages, todo : Seq(SeriesSet), read : Seq(Built)]

\* A thread at rest.
LEMMA RestingThread == Resting \in Thread
  BY EmptySeq DEF Resting, Thread, Stages

\* A thread about to read the series of a list.
Reading(list) == [Resting EXCEPT !.pc = "read", !.todo = list]

\* Such a thread is a thread.
LEMMA ReadingThread ==
    ASSUME NEW list \in Seq(SeriesSet)
    PROVE  Reading(list) \in Thread /\ Reading(list).pc = "read" /\ Reading(list).todo = list
<1>1. PICK e \in Seq(Built) : e = <<>>
  BY EmptySeq
<1>2. Resting \in [pc : {"idle"}, todo : {e}, read : {e}]
  BY <1>1 DEF Resting
<1>3. Reading(list) \in [pc : {"read"}, todo : {list}, read : {e}]
  BY <1>2 DEF Reading
<1> QED BY <1>3 DEF Thread, Stages

\* A thread nobody touches stays as sound as it was.
LEMMA CompStays ==
    ASSUME EngineInv, FeedInv', Grows, NEW k \in Computers, comp'[k] = comp[k]
    PROVE  CompSound(k)'
<1> USE DEF EngineInv
<1>1. CompSound(k) /\ comp[k] \in Thread
  BY DEF CompInv, CompSound, Thread
<1>2. PICK todo \in Seq(SeriesSet), read \in Seq(Built), pc \in Stages :
         todo = comp[k].todo /\ read = comp[k].read /\ pc = comp[k].pc
  BY <1>1 DEF Thread
<1>3. \A i \in DOMAIN todo : Newest(todo[i])' > 0
  <2>1. \A i \in DOMAIN todo : todo[i] \in SeriesSet
    OBVIOUS
  <2>2. \A s \in SeriesSet : Newest(s) \in Nat /\ Newest(s)' \in Nat /\ Newest(s) <= Newest(s)'
    BY Lengths DEF Grows, FeedInv, Newest
  <2> QED BY <1>1, <1>2, <2>1, <2>2 DEF CompSound
<1>4. pc \in {"record", "put"} => read # <<>> /\ Sound(Head(todo), read[1])'
  <2> SUFFICES ASSUME pc \in {"record", "put"} PROVE read # <<>> /\ Sound(Head(todo), read[1])'
    OBVIOUS
  <2>1. read # <<>> /\ read[1] \in Built /\ Head(todo) \in SeriesSet /\ Sound(Head(todo), read[1])
    BY <1>1, <1>2, AtWork DEF CompSound
  <2> QED BY <2>1, SoundStays
<1>5. pc = "put" => HasRow(Head(todo), read[1])'
  <2> SUFFICES ASSUME pc = "put" PROVE HasRow(Head(todo), read[1])'
    OBVIOUS
  <2>1. HasRow(Head(todo), read[1])
    BY <1>1, <1>2 DEF CompSound
  <2> QED BY <2>1, HasRowStays
<1>6. comp'[k].todo = todo /\ comp'[k].read = read /\ comp'[k].pc = pc
  BY <1>2
<1>7. (pc = "idle") = (todo = <<>>)
  BY <1>1, <1>2 DEF CompSound
<1> QED BY <1>3, <1>4, <1>5, <1>6, <1>7 DEF CompSound

\* There are finitely many series.
LEMMA SeriesFinite == IsFiniteSet(SeriesSet)
<1>1. Series \in Seq(SeriesSet)
  BY EngineAssumption
<1>2. Len(Series) \in Nat /\ DOMAIN Series = 1..Len(Series) /\ Series \in [1..Len(Series) -> SeriesSet]
  BY <1>1
<1>3. \A s \in SeriesSet : \E i \in 1..Len(Series) : Series[i] = s
  BY <1>2 DEF SeriesSet, ToSet
<1>4. IsFiniteSet(1..Len(Series))
  BY <1>2, FS_Interval
<1> DEFINE n == Len(Series)
<1> HIDE DEF n
<1>5. Series \in Surjection(1..Len(Series), SeriesSet)
  BY <1>2, <1>3 DEF Surjection
<1> QED BY <1>4, <1>5, FS_Surjection

\* What a computation lists are series with candles.
LEMMA ListingType ==
    ASSUME FeedInv, NEW listed \in Listings
    PROVE  listed \in Seq(SeriesSet) /\ \A i \in DOMAIN listed : Newest(listed[i]) > 0
<1> DEFINE some == {s \in SeriesSet : feed[s] # <<>>}
<1>1. some \subseteq SeriesSet /\ \A s \in some : Newest(s) > 0
  BY FirstAndRest DEF FeedInv, Newest
<1>2. listed \in [1..Cardinality(some) -> some]
  BY DEF Listings
<1> HIDE DEF some
<1>3. Cardinality(some) \in Nat
  BY <1>1, SeriesFinite, FS_Subset, FS_CardinalityType
<1>4. listed \in [1..Cardinality(some) -> SeriesSet]
  BY <1>1, <1>2
<1>5. listed \in Seq(SeriesSet)
  BY <1>3, <1>4, SeqOfFunction
<1> QED BY <1>1, <1>2, <1>5

\* A thread goes on with the rest of its list, or rests.
LEMMA NextSeriesStep ==
    ASSUME CompInv, FeedInv, FeedInv', feed' = feed, NEW k \in Computers, comp[k].pc # "idle", NextSeries(k)
    PROVE  /\ comp' \in [Computers -> Thread]
           /\ \A j \in Computers \ {k} : comp'[j] = comp[j]
           /\ CompSound(k)'
<1> DEFINE todo == comp[k].todo
<1>1. todo \in Seq(SeriesSet) /\ todo # <<>>
  BY AtWork
<1>2. /\ Tail(todo) \in Seq(SeriesSet)
      /\ (Tail(todo) = <<>>) <=> (Len(todo) = 1)
      /\ \A i \in DOMAIN Tail(todo) : i + 1 \in DOMAIN todo /\ Tail(todo)[i] = todo[i + 1]
  BY <1>1, FirstAndRest
<1>3. PICK list \in Seq(SeriesSet) : list = Tail(todo)
  BY <1>2
<1>4. Reading(list) \in Thread /\ Reading(list).pc = "read" /\ Reading(list).todo = list
  BY <1>2, <1>3, ReadingThread
<1> DEFINE next == IF Len(todo) = 1 THEN Resting ELSE Reading(list)
<1>5. comp' = [comp EXCEPT ![k] = next]
  BY <1>3 DEF NextSeries, Reading
<1>6. next \in Thread
  BY <1>4, RestingThread
<1> HIDE DEF next
<1>7. comp' \in [Computers -> Thread] /\ comp'[k] = next /\ \A j \in Computers \ {k} : comp'[j] = comp[j]
  BY <1>5, <1>6 DEF CompInv, Thread
<1>8. CASE Len(todo) = 1
  <2>1. comp'[k] = Resting
    BY <1>7, <1>8 DEF next
  <2> QED BY <1>7, <2>1 DEF CompSound, Resting
<1>9. CASE Len(todo) # 1
  <2>1. comp'[k].todo = list /\ list # <<>> /\ comp'[k].pc = "read"
    BY <1>2, <1>3, <1>4, <1>7, <1>9 DEF next
  <2>2. \A i \in DOMAIN list : Newest(list[i]) > 0
    BY <1>2, <1>3 DEF CompInv
  <2>3. \A i \in DOMAIN list : Newest(list[i])' > 0
    BY <2>2 DEF Newest
  <2> QED BY <1>7, <2>1, <2>3 DEF CompSound
<1> QED BY <1>7, <1>8, <1>9

\* A thread starts on a list of series with candles.
LEMMA BeginStep ==
    ASSUME CompInv, FeedInv, NEW k \in Computers, Begin(k)
    PROVE  /\ comp' \in [Computers -> Thread]
           /\ \A j \in Computers \ {k} : comp'[j] = comp[j]
           /\ CompSound(k)'
<1>1. PICK list \in Listings \ {<<>>} :
         comp' = [comp EXCEPT ![k] = [Resting EXCEPT !.pc = "read", !.todo = list]]
  BY DEF Begin
<1>2. feed' = feed
  BY DEF Begin
<1>3. list \in Seq(SeriesSet) /\ list # <<>> /\ \A i \in DOMAIN list : Newest(list[i]) > 0
  BY <1>1, ListingType
<1>4. Reading(list) \in Thread /\ Reading(list).pc = "read" /\ Reading(list).todo = list
  BY <1>3, ReadingThread
<1>5. comp' = [comp EXCEPT ![k] = Reading(list)]
  BY <1>1 DEF Reading
<1>6. /\ comp' \in [Computers -> Thread] /\ comp'[k] = Reading(list)
      /\ \A j \in Computers \ {k} : comp'[j] = comp[j]
  BY <1>4, <1>5 DEF CompInv, Thread
<1>7. \A i \in DOMAIN list : Newest(list[i])' > 0
  BY <1>2, <1>3 DEF Newest
<1>8. comp'[k].todo = list /\ list # <<>> /\ comp'[k].pc = "read"
  BY <1>3, <1>4, <1>6
<1> QED BY <1>6, <1>7, <1>8 DEF CompSound

\* What is built of a series is of its newest candle.
LEMMA ReadStep ==
    ASSUME CompInv, FeedInv, FeedInv', NEW k \in Computers, Read(k)
    PROVE  /\ comp' \in [Computers -> Thread]
           /\ \A j \in Computers \ {k} : comp'[j] = comp[j]
           /\ CompSound(k)'
<1>1. comp[k].pc = "read" /\ feed' = feed /\ revised' = revised
  BY DEF Read
<1>2. CASE NextSeries(k)
  BY <1>1, <1>2, NextSeriesStep
<1>3. CASE ~NextSeries(k)
  <2> DEFINE at == Newest(Head(comp[k].todo))
             built == [at |-> at, says |-> Last(feed[Head(comp[k].todo)]).says,
                       version |-> IF at \in revised[Head(comp[k].todo)] THEN revisions ELSE 0]
  <2>1. comp' = [comp EXCEPT ![k].pc = "record", ![k].read = <<built>>]
    BY <1>3 DEF Read
  <2>2. PICK s \in SeriesSet, todo \in Seq(SeriesSet) :
           s = Head(comp[k].todo) /\ todo = comp[k].todo
    BY <1>1, AtWork
  <2>3. Newest(s) \in Nat /\ Newest(s) > 0 /\ feed[s] \in Seq(Kinds) /\ feed[s] # <<>>
    BY <1>1, <2>2, AtWork, Lengths, EmptySeq DEF Newest
  <2>4. at \in 1..Newest(s) /\ at \in Nat
    BY <2>2, <2>3
  <2>5. Last(feed[s]) \in Kinds
    BY <2>3, FirstAndRest
  <2>6. Last(feed[s]).says \in STRING
    BY <2>5, EngineAssumption
  <2>7. built.at \notin revised[s] => built.version = 0
    BY <2>2
  <2>8. built \in Built /\ built.at \in 1..Newest(s)
    BY <2>2, <2>4, <2>6 DEF Built, FeedInv
  <2> HIDE DEF at, built
  <2>9. PICK read \in Seq(Built), b \in Built : read = <<built>> /\ b = built /\ read # <<>> /\ read[1] = b
    <3>1. PICK b \in Built : b = built
      BY <2>8
    <3>2. <<b>> \in Seq(Built) /\ <<b>> # <<>> /\ <<b>>[1] = b
      OBVIOUS
    <3> QED BY <3>1, <3>2
  <2>10. comp[k] \in Thread
    BY DEF CompInv, Thread
  <2>11. [comp[k] EXCEPT !.pc = "record", !.read = read] \in [pc : {"record"}, todo : {todo}, read : {read}]
    BY <2>2, <2>10 DEF Thread
  <2>12. comp' = [comp EXCEPT ![k] = [comp[k] EXCEPT !.pc = "record", !.read = read]]
    BY <2>1, <2>9 DEF CompInv
  <2> DEFINE next == [comp[k] EXCEPT !.pc = "record", !.read = read]
  <2>13. next \in Thread /\ next.pc = "record" /\ next.todo = todo /\ next.read = read
    BY <2>11 DEF Thread, Stages
  <2> HIDE DEF next
  <2>14. /\ comp' \in [Computers -> Thread] /\ comp'[k] = next
         /\ \A j \in Computers \ {k} : comp'[j] = comp[j]
    BY <2>12, <2>13 DEF CompInv, Thread, next
  <2>15. Sound(s, b)'
    <3>1. b.at \in 1..Newest(s) /\ (b.at \notin revised[s] => b.version = 0)
      BY <2>2, <2>7, <2>8, <2>9
    <3> QED BY <1>1, <3>1 DEF Sound, Newest
  <2>16. todo # <<>> /\ Head(todo) = s /\ \A i \in DOMAIN todo : Newest(todo[i]) > 0
    BY <1>1, <2>2, AtWork DEF CompInv
  <2>17. \A i \in DOMAIN todo : Newest(todo[i])' > 0
    BY <1>1, <2>16 DEF Newest
  <2> QED BY <2>9, <2>13, <2>14, <2>15, <2>16, <2>17 DEF CompSound
<1> QED BY <1>2, <1>3

\* After the booking the record has its row.
LEMMA RecordStep ==
    ASSUME FeedInv, RowsInv, CompInv, NEW k \in Computers, Record(k)
    PROVE  /\ comp' \in [Computers -> Thread]
           /\ \A j \in Computers \ {k} : comp'[j] = comp[j]
           /\ CompSound(k)'
<1>1. /\ comp[k].pc = "record" /\ feed' = feed /\ revised' = revised
      /\ comp' = [comp EXCEPT ![k].pc = "put"]
  BY DEF Record
<1>2. comp \in [Computers -> Thread]
  BY DEF CompInv, Thread
<1> DEFINE next == [comp[k] EXCEPT !.pc = "put"]
<1>3. next \in Thread /\ next.pc = "put" /\ next.todo = comp[k].todo /\ next.read = comp[k].read
  BY <1>2 DEF Thread, Stages
<1>4. comp' = [comp EXCEPT ![k] = next]
  BY <1>1
<1> HIDE DEF next
<1>5. /\ comp' \in [Computers -> Thread] /\ comp'[k] = next
      /\ \A j \in Computers \ {k} : comp'[j] = comp[j]
  BY <1>2, <1>3, <1>4
<1>6. PICK todo \in Seq(SeriesSet), read \in Seq(Built) : todo = comp[k].todo /\ read = comp[k].read
  BY DEF CompInv
<1>7. /\ todo # <<>> /\ read # <<>> /\ Sound(Head(todo), read[1])
      /\ \A i \in DOMAIN todo : Newest(todo[i]) > 0
  BY <1>1, <1>6, AtWork DEF CompInv
<1>8. comp'[k].pc = "put" /\ comp'[k].todo = todo /\ comp'[k].read = read
  BY <1>3, <1>5, <1>6
<1>9. HasRow(Head(todo), read[1])'
  <2>1. HasRow(Head(comp[k].todo), comp[k].read[1])'
    BY RecordRows
  <2> QED BY <1>8, <2>1 DEF HasRow
<1>10. Sound(Head(todo), read[1])' /\ \A i \in DOMAIN todo : Newest(todo[i])' > 0
  BY <1>1, <1>7 DEF Sound, Newest
<1> QED BY <1>5, <1>7, <1>8, <1>9, <1>10 DEF CompSound

\* Every step keeps what the threads are at.
LEMMA CompStep == ASSUME EngineInv, [EngineNext]_engine PROVE CompInv'
<1>1. FeedInv' /\ Grows /\ FeedInv /\ RowsInv /\ CompInv
  BY GrowsStep DEF EngineInv
<1>2. ASSUME NEW k \in Computers, comp' \in [Computers -> Thread],
             \A j \in Computers \ {k} : comp'[j] = comp[j], CompSound(k)'
      PROVE  CompInv'
  <2>1. ASSUME NEW j \in Computers PROVE CompSound(j)'
    BY <1>1, <1>2, <2>1, CompStays
  <2> QED BY <1>2, <2>1 DEF CompInv, CompSound, Thread
<1>3. CASE comp' = comp
  <2>1. ASSUME NEW j \in Computers PROVE CompSound(j)'
    BY <1>1, <1>3, <2>1, CompStays
  <2> QED BY <1>1, <1>3, <2>1 DEF CompInv, CompSound
<1>4. CASE comp' = [k \in Computers |-> Resting]
  BY <1>4, RestingThread DEF CompInv, Thread, Resting
<1>5. ASSUME NEW k \in Computers, Begin(k) PROVE CompInv'
  BY <1>1, <1>2, <1>5, BeginStep
<1>6. ASSUME NEW k \in Computers, Read(k) PROVE CompInv'
  BY <1>1, <1>2, <1>6, ReadStep
<1>7. ASSUME NEW k \in Computers, Record(k) PROVE CompInv'
  BY <1>1, <1>2, <1>7, RecordStep
<1>8. ASSUME NEW k \in Computers, Put(k) PROVE CompInv'
  <2>1. comp[k].pc # "idle" /\ feed' = feed /\ NextSeries(k)
    BY <1>8 DEF Put
  <2> QED BY <1>1, <1>2, <2>1, NextSeriesStep
<1>9. ASSUME NEW k \in Computers, Abort(k) PROVE CompInv'
  <2>1. /\ comp' \in [Computers -> Thread] /\ comp'[k] = Resting
        /\ \A j \in Computers \ {k} : comp'[j] = comp[j]
    BY <1>1, <1>9, RestingThread DEF Abort, CompInv, Thread
  <2>2. CompSound(k)'
    BY <2>1 DEF CompSound, Resting
  <2> QED BY <1>2, <2>1, <2>2
<1>10. \/ comp' = comp \/ comp' = [k \in Computers |-> Resting]
       \/ \E k \in Computers : Begin(k) \/ Read(k) \/ Record(k) \/ Put(k) \/ Abort(k)
  BY DEF EngineNext, Compute, Report, Arrive, Revise, Ask, Judge, Resolve, RestartEngine, engine
<1> QED BY <1>3, <1>4, <1>5, <1>6, <1>7, <1>8, <1>9, <1>10

\* A report a step leaves alone stays sound.
RepSound(r) ==
    /\ Len(rep[r].todo) <= ListLimit
    /\ \A i \in DOMAIN rep[r].todo : rep[r].todo[i] \in DOMAIN rows
    /\ rep[r].found # "unread" =>
          rep[r].todo # <<>> /\ Holds(Head(rep[r].todo), rep[r].found, rep[r].late)
Inquiry == [todo : Seq(Ids), found : Outcomes \cup {"unread"}, late : BOOLEAN]

\* The rows on a list have a candle of their own.
LEMMA OnList ==
    ASSUME RowsInv, RepInv, NEW r \in Reporters, rep[r].todo # <<>>
    PROVE  /\ Head(rep[r].todo) \in DOMAIN rows /\ Head(rep[r].todo) \in Ids
           /\ Head(rep[r].todo)[2] \in 1..Newest(Head(rep[r].todo)[1])
<1>1. rep[r].todo \in Seq(Ids)
  BY DEF RepInv
<1>2. Head(rep[r].todo) \in DOMAIN rows /\ Head(rep[r].todo) \in Ids
  BY <1>1, FirstAndRest DEF RepInv
<1> QED BY <1>2 DEF RowsInv

\* A report that does not move keeps what it found while the feed grows.
LEMMA RepStays ==
    ASSUME EngineInv, FeedInv', Grows, NEW r \in Reporters, rep'[r] = rep[r]
    PROVE  RepSound(r)'
<1> USE DEF EngineInv
<1>1. rep[r] \in Inquiry /\ RepSound(r)
  BY DEF RepInv, RepSound, Inquiry
<1>2. PICK todo \in Seq(Ids), found \in Outcomes \cup {"unread"}, late \in BOOLEAN :
         todo = rep[r].todo /\ found = rep[r].found /\ late = rep[r].late
  BY <1>1 DEF Inquiry
<1>3. Len(todo) <= ListLimit /\ \A i \in DOMAIN todo : todo[i] \in DOMAIN rows'
  BY <1>1, <1>2 DEF RepSound, Grows
<1>4. ASSUME found # "unread" PROVE todo # <<>> /\ Holds(Head(todo), found, late)'
  <2>1. todo # <<>> /\ Holds(Head(todo), found, late)
    BY <1>1, <1>2, <1>4 DEF RepSound
  <2>2. Head(todo) \in Ids /\ Head(todo)[2] \in 1..Newest(Head(todo)[1])
    BY <1>2, <2>1, OnList
  <2>3. PICK id \in Ids : id = Head(todo)
    BY <2>2
  <2>4. Holds(id, found, late)'
    BY <1>4, <2>1, <2>2, <2>3, HoldsStays
  <2> QED BY <2>1, <2>3, <2>4
<1>5. rep'[r].todo = todo /\ rep'[r].found = found /\ rep'[r].late = late
  BY <1>2
<1> QED BY <1>3, <1>4, <1>5 DEF RepSound

\* A report at rest, and one with a list to go through.
Listed(list) == [NoReport EXCEPT !.todo = list]

\* Such reports are reports.
LEMMA ListedReport ==
    ASSUME NEW list \in Seq(Ids)
    PROVE  /\ Listed(list) \in Inquiry /\ NoReport \in Inquiry
           /\ Listed(list).todo = list /\ Listed(list).found = "unread"
           /\ NoReport.todo = <<>> /\ NoReport.found = "unread"
<1>1. PICK e \in Seq(Ids) : e = <<>>
  BY EmptySeq
<1>2. NoReport \in [todo : {e}, found : {"unread"}, late : {FALSE}]
  BY <1>1 DEF NoReport
<1>3. Listed(list) \in [todo : {list}, found : {"unread"}, late : {FALSE}]
  BY <1>2 DEF Listed
<1> QED BY <1>1, <1>2, <1>3 DEF Inquiry

\* The rows a report may take are pending ones, at most as many as the limit.
LEMMA UnresolvedType ==
    ASSUME RowsInv, NEW list \in Unresolved
    PROVE  list \in Seq(Ids) /\ Len(list) <= ListLimit /\ \A i \in DOMAIN list : list[i] \in DOMAIN rows
<1> DEFINE n == Min({ListLimit, Cardinality(Pending)})
<1>1. Pending \subseteq DOMAIN rows /\ IsFiniteSet(DOMAIN rows) /\ DOMAIN rows \subseteq Ids
  BY DEF Pending, RowsInv
<1>2. Cardinality(Pending) \in Nat /\ ListLimit \in Nat
  BY <1>1, FS_Subset, FS_CardinalityType, EngineAssumption
<1>3. n \in Nat /\ n <= ListLimit
  BY <1>2, MinOfTwo
<1>4. list \in [1..n -> Pending]
  BY DEF Unresolved, OldestOf
<1> HIDE DEF n
<1>5. list \in [1..n -> Ids] /\ DOMAIN list = 1..n /\ \A i \in 1..n : list[i] \in DOMAIN rows
  BY <1>1, <1>4
<1>6. list \in Seq(Ids) /\ Len(list) = n
  BY <1>3, <1>5, SeqOfFunction
<1> QED BY <1>3, <1>5, <1>6

\* A report goes on with the rest of its list.
LEMMA NextRowStep ==
    ASSUME RowsInv, RepInv, DOMAIN rows' = DOMAIN rows, NEW r \in Reporters, rep[r].todo # <<>>, NextRow(r)
    PROVE  /\ rep' \in [Reporters -> Inquiry]
           /\ \A q \in Reporters \ {r} : rep'[q] = rep[q]
           /\ RepSound(r)'
<1>1. rep[r].todo \in Seq(Ids) /\ rep \in [Reporters -> Inquiry]
  BY DEF RepInv, Inquiry
<1>2. PICK todo \in Seq(Ids) : todo = rep[r].todo
  BY <1>1
<1>3. /\ Tail(todo) \in Seq(Ids) /\ Len(Tail(todo)) = Len(todo) - 1 /\ Len(todo) \in Nat
      /\ \A i \in DOMAIN Tail(todo) : i + 1 \in DOMAIN todo /\ Tail(todo)[i] = todo[i + 1]
  BY <1>2, FirstAndRest
<1>4. PICK list \in Seq(Ids) : list = Tail(todo)
  BY <1>3
<1>5. Listed(list) \in Inquiry /\ Listed(list).todo = list /\ Listed(list).found = "unread"
  BY ListedReport
<1>6. rep' = [rep EXCEPT ![r] = Listed(list)]
  BY <1>2, <1>4 DEF NextRow, Listed
<1>7. /\ rep' \in [Reporters -> Inquiry] /\ rep'[r] = Listed(list)
      /\ \A q \in Reporters \ {r} : rep'[q] = rep[q]
  BY <1>1, <1>5, <1>6
<1>8. Len(todo) <= ListLimit /\ \A i \in DOMAIN todo : todo[i] \in DOMAIN rows
  BY <1>2 DEF RepInv
<1>9. Len(list) <= ListLimit /\ \A i \in DOMAIN list : list[i] \in DOMAIN rows'
  BY <1>3, <1>4, <1>8, EngineAssumption
<1> QED BY <1>5, <1>7, <1>9 DEF RepSound

\* A report judges a row by the candles after it.
LEMMA JudgeStep ==
    ASSUME FeedInv, RowsInv, RepInv, NEW r \in Reporters, Judge(r)
    PROVE  /\ rep' \in [Reporters -> Inquiry]
           /\ \A q \in Reporters \ {r} : rep'[q] = rep[q]
           /\ RepSound(r)'
<1> DEFINE at == Head(rep[r].todo)
<1>1. rep[r].todo # <<>> /\ UNCHANGED <<feed, revised, rows>>
  BY DEF Judge
<1>2. CASE NextRow(r)
  BY <1>1, <1>2, NextRowStep
<1>3. CASE ~NextRow(r)
  <2>1. /\ FirstTouch(After(at)) # "pending"
        /\ rep' = [rep EXCEPT ![r].found = FirstTouch(After(at)), ![r].late = Newest(at[1]) - at[2] > Window]
    BY <1>3 DEF Judge
  <2>2. PICK id \in Ids, todo \in Seq(Ids) : id = at /\ todo = rep[r].todo
    BY <1>1, OnList DEF RepInv
  <2>3. id[2] \in 1..Newest(id[1]) /\ Newest(id[1]) \in Nat
    BY <1>1, <2>2, OnList, Lengths DEF Ids
  <2>4. FirstTouch(After(id)) \in Outcomes
    BY <2>1, <2>2, TouchType
  <2>5. PICK found \in Outcomes, late \in BOOLEAN :
           found = FirstTouch(After(id)) /\ late = (Newest(id[1]) - id[2] > Window)
    <3> DEFINE age == Newest(id[1]) - id[2]
    <3>1. (age > Window) \in BOOLEAN
      OBVIOUS
    <3> QED BY <2>4, <3>1, Zenon
  <2>6. rep' = [rep EXCEPT ![r].found = found, ![r].late = late]
    BY <2>1, <2>2, <2>5
  <2> DEFINE next == [rep[r] EXCEPT !.found = found, !.late = late]
  <2>7. rep \in [Reporters -> Inquiry] /\ rep[r] \in [todo : {todo}, found : Outcomes \cup {"unread"}, late : BOOLEAN]
    BY <2>2 DEF RepInv, Inquiry
  <2>8. next \in [todo : {todo}, found : {found}, late : {late}]
    BY <2>7
  <2>9. next \in Inquiry /\ next.todo = todo /\ next.found = found /\ next.late = late
    BY <2>8 DEF Inquiry
  <2>10. rep' = [rep EXCEPT ![r] = next]
    BY <2>6, <2>7
  <2> HIDE DEF next, at
  <2>11. /\ rep' \in [Reporters -> Inquiry] /\ rep'[r] = next
         /\ \A q \in Reporters \ {r} : rep'[q] = rep[q]
    BY <2>7, <2>9, <2>10
  <2>12. Holds(id, found, late)
    <3> DEFINE age == Newest(id[1]) - id[2]
    <3>1. age \in Int /\ Window \in Int
      BY <2>3, EngineAssumption
    <3>2. ~late => ~(age > Window)
      BY <2>5, Zenon
    <3>3. ~late => age <= Window
      <4> HIDE DEF age
      <4> QED BY <3>1, <3>2
    <3>4. ~late => After(id) = SubSeq(feed[id[1]], id[2] + 1, Newest(id[1]))
      BY <2>3, <3>3, CandlesAfter
    <3> QED BY <2>5, <3>4 DEF Holds
  <2>13. Holds(id, found, late)'
    BY <1>1, <2>12 DEF Holds, Newest
  <2>14. /\ todo # <<>> /\ Head(todo) = id /\ Len(todo) <= ListLimit
         /\ \A i \in DOMAIN todo : todo[i] \in DOMAIN rows'
    BY <1>1, <2>2 DEF RepInv, at
  <2> QED BY <2>9, <2>11, <2>13, <2>14 DEF RepSound
<1> QED BY <1>2, <1>3

\* Every step keeps what the reports are at.
LEMMA RepStep == ASSUME EngineInv, [EngineNext]_engine PROVE RepInv'
<1>1. FeedInv' /\ Grows /\ FeedInv /\ RowsInv /\ RepInv
  BY GrowsStep DEF EngineInv
<1>2. ASSUME NEW r \in Reporters, rep' \in [Reporters -> Inquiry],
             \A q \in Reporters \ {r} : rep'[q] = rep[q], RepSound(r)'
      PROVE  RepInv'
  <2>1. ASSUME NEW q \in Reporters PROVE RepSound(q)'
    BY <1>1, <1>2, <2>1, RepStays
  <2> QED BY <1>2, <2>1 DEF RepInv, RepSound, Inquiry
<1>3. CASE rep' = rep
  <2>1. ASSUME NEW q \in Reporters PROVE RepSound(q)'
    BY <1>1, <1>3, <2>1, RepStays
  <2> QED BY <1>1, <1>3, <2>1 DEF RepInv, RepSound
<1>4. CASE rep' = [r \in Reporters |-> NoReport]
  <2>1. NoReport \in Inquiry /\ NoReport.todo = <<>> /\ NoReport.found = "unread"
    BY EmptySeq, ListedReport
  <2>2. \A r \in Reporters : rep'[r] = NoReport
    BY <1>4
  <2>3. Len(<<>>) <= ListLimit /\ DOMAIN <<>> = {}
    BY EngineAssumption, EmptySeq
  <2>4. rep' \in [Reporters -> Inquiry]
    BY <1>4, <2>1
  <2> QED BY <2>1, <2>2, <2>3, <2>4 DEF RepInv, Inquiry
<1>5. ASSUME NEW r \in Reporters, Ask(r) PROVE RepInv'
  <2>1. PICK list \in Unresolved : rep' = [rep EXCEPT ![r].todo = list]
    BY <1>5 DEF Ask
  <2>2. rows' = rows /\ rep[r].todo = <<>>
    BY <1>5 DEF Ask
  <2>3. /\ list \in Seq(Ids) /\ Len(list) <= ListLimit
        /\ \A i \in DOMAIN list : list[i] \in DOMAIN rows
    BY <1>1, UnresolvedType
  <2>4. rep \in [Reporters -> Inquiry] /\ rep[r].found = "unread"
    BY <1>1, <2>2 DEF RepInv, Inquiry
  <2> DEFINE next == [rep[r] EXCEPT !.todo = list]
  <2>5. next \in Inquiry /\ next.todo = list /\ next.found = "unread"
    BY <2>3, <2>4 DEF Inquiry
  <2>6. rep' = [rep EXCEPT ![r] = next]
    BY <2>1, <2>4
  <2> HIDE DEF next
  <2>7. /\ rep' \in [Reporters -> Inquiry] /\ rep'[r] = next
        /\ \A q \in Reporters \ {r} : rep'[q] = rep[q]
    BY <2>4, <2>5, <2>6
  <2>8. RepSound(r)'
    BY <2>2, <2>3, <2>5, <2>7 DEF RepSound
  <2> QED BY <1>2, <2>7, <2>8
<1>6. ASSUME NEW r \in Reporters, Judge(r) PROVE RepInv'
  BY <1>1, <1>2, <1>6, JudgeStep
<1>7. ASSUME NEW r \in Reporters, Resolve(r) PROVE RepInv'
  <2>1. rep[r].todo # <<>> /\ NextRow(r)
    BY <1>7 DEF Resolve
  <2>2. DOMAIN rows' = DOMAIN rows
    BY <1>1, <1>7, ResolveRows
  <2> QED BY <1>1, <1>2, <2>1, <2>2, NextRowStep
<1>8. \/ rep' = rep \/ rep' = [r \in Reporters |-> NoReport]
      \/ \E r \in Reporters : Ask(r) \/ Judge(r) \/ Resolve(r)
  BY DEF EngineNext, Compute, Report, Arrive, Revise, Begin, Read, Record, Put, Abort, RestartEngine, engine
<1> QED BY <1>3, <1>4, <1>5, <1>6, <1>7, <1>8
-----------------------------------------------------------------------------
(* The theorems.                                                           *)

\* The invariant holds at the start: nothing is cached, booked or under way.
LEMMA EngineInvInit == EngineInit => EngineInv
<1> SUFFICES ASSUME EngineInit PROVE EngineInv
  OBVIOUS
<1>1. FeedInv
  <2>1. \A n \in Nat : [1..n -> Kinds] \subseteq Seq(Kinds)
    BY SeqOfFunction
  <2>2. feed \in [SeriesSet -> Seq(Kinds)]
    <3>1. UNION {[1..n -> Kinds] : n \in 0..MaxDelisted} \subseteq Seq(Kinds)
      BY <2>1, EngineAssumption
    <3> QED BY <3>1 DEF EngineInit
  <2> QED BY <2>2, EngineAssumption DEF EngineInit, FeedInv
<1>2. RowsInv /\ TouchInv
  <2>1. rows = <<>> /\ DOMAIN rows = {}
    BY EmptySeq DEF EngineInit
  <2> QED BY <2>1, FS_EmptySet DEF RowsInv, TouchInv
<1>3. CacheInv
  BY EmptySeq DEF EngineInit, CacheInv
<1>4. CompInv
  BY RestingThread DEF EngineInit, CompInv, Thread, Resting
<1>5. RepInv
  <2>1. NoReport \in Inquiry /\ NoReport.todo = <<>> /\ NoReport.found = "unread"
    BY EmptySeq, ListedReport
  <2>2. rep = [r \in Reporters |-> NoReport]
    BY DEF EngineInit
  <2>3. Len(<<>>) <= ListLimit /\ DOMAIN <<>> = {}
    BY EngineAssumption, EmptySeq
  <2>4. rep \in [Reporters -> Inquiry]
    BY <2>1, <2>2
  <2> QED BY <2>1, <2>2, <2>3, <2>4 DEF RepInv, Inquiry
<1> QED BY <1>1, <1>2, <1>3, <1>4, <1>5 DEF EngineInv

\* Every step keeps it.
LEMMA EngineInvStep == EngineInv /\ [EngineNext]_engine => EngineInv'
  BY GrowsStep, RowsStep, TouchStep, CacheStep, CompStep, RepStep DEF EngineInv

\* And it holds throughout.
LEMMA EngineInvariant == EngineSpec => []EngineInv
  BY EngineInvInit, EngineInvStep, PTL DEF EngineSpec

\* list_signals, calibration_report and the store keep their types: a cached
\* record and a row are of a candle the series has, a thread is idle when its
\* list is done, and a report takes no more rows than the limit, all of them
\* booked.
THEOREM EngineKeepsTypes == EngineSpec => []EngineTypeOK
<1>1. EngineInv => EngineTypeOK
  <2> SUFFICES ASSUME EngineInv PROVE EngineTypeOK
    OBVIOUS
  <2> USE DEF EngineInv
  <2>1. ASSUME NEW id \in DOMAIN rows
        PROVE  id[2] \in DOMAIN feed[id[1]] /\ rows[id].outcome \in {"pending", "stopped", "target", "expired"}
    <3>1. id[1] \in SeriesSet /\ id[2] \in 1..Len(feed[id[1]]) /\ rows[id].outcome \in Outcomes \cup {"pending"}
      BY <2>1 DEF RowsInv, Ids, Newest
    <3>2. DOMAIN feed[id[1]] = 1..Len(feed[id[1]])
      BY <3>1, LenProperties DEF FeedInv
    <3> QED BY <3>1, <3>2 DEF Outcomes
  <2>2. \A s \in SeriesSet : feed[s] \in Seq(Kinds) /\ (cache[s] # <<>> => cache[s][1].at \in 1..Newest(s))
    BY DEF FeedInv, CacheInv, Sound
  <2>3. \A k \in Computers : (comp[k].pc = "idle") = (comp[k].todo = <<>>)
    BY DEF CompInv
  <2>4. ASSUME NEW r \in Reporters PROVE Len(rep[r].todo) <= ListLimit /\ ToSet(rep[r].todo) \subseteq DOMAIN rows
    BY <2>4 DEF RepInv, ToSet
  <2> QED BY <2>1, <2>2, <2>3, <2>4 DEF EngineTypeOK
<1> QED BY <1>1, EngineInvariant, PTL

\* Every actionable signal _build_signal_record put into the cache has the row
\* record_signal_calibration wrote for it, with the levels served unless the
\* candle was corrected in between.
THEOREM ServedSignalsCalibrated == EngineSpec => []ServedIsCalibrated
<1>1. EngineInv => ServedIsCalibrated
  <2> SUFFICES ASSUME EngineInv, NEW s \in SeriesSet, cache[s] # <<>>, cache[s][1].says \in Actionable
               PROVE  /\ <<s, cache[s][1].at, cache[s][1].says>> \in DOMAIN rows
                      /\ \/ rows[<<s, cache[s][1].at, cache[s][1].says>>].version = cache[s][1].version
                         \/ cache[s][1].at \in revised[s]
    BY DEF ServedIsCalibrated
  <2> DEFINE served == cache[s][1]
             id == <<s, served.at, served.says>>
  <2>1. Sound(s, served) /\ HasRow(s, served)
    BY DEF EngineInv, CacheInv
  <2>2. id \in DOMAIN rows
    BY <2>1 DEF HasRow
  <2>3. id[1] = s /\ id[2] = served.at
    OBVIOUS
  <2>4. served.at \notin revised[s] => served.version = 0
    BY <2>1 DEF Sound
  <2> HIDE DEF served, id
  <2>5. served.at \notin revised[s] => rows[id].version = 0
    BY <2>2, <2>3 DEF EngineInv, RowsInv
  <2>6. rows[id].version = served.version \/ served.at \in revised[s]
    BY <2>4, <2>5
  <2> QED BY <2>2, <2>6 DEF served, id
<1> QED BY <1>1, EngineInvariant, PTL

\* A row calibration_report resolved in time, on candles nobody corrected, holds
\* what the replay of all candles after the signal says, however many reports
\* read and write at once and whatever arrives meanwhile.
THEOREM FirstTouchStands == EngineSpec => []FirstTouchKept
<1>1. EngineInv => FirstTouchKept
  BY DEF EngineInv, TouchInv, Holds, FirstTouchKept
<1> QED BY <1>1, EngineInvariant, PTL

(***************************************************************************)
(* What setup detection promises, for every bar: a run checks it on        *)
(* samples of readings.                                                    *)
(***************************************************************************)
\* Rounding to cents moves a level by half a cent at most.
LEMMA CentsNear ==
    ASSUME NEW x \in Int
    PROVE  100000 * Cents(x) \in Int /\ x - 50000 < 100000 * Cents(x) /\ 100000 * Cents(x) <= x + 50000
  BY DEF Cents

\* An open ladder of a setup: in order as computed and as displayed, and its first
\* target one and a half times the risk away where the setup is to be acted on.
OpenLadder(l, isLong, reward) ==
    /\ InOrder(l, isLong) /\ InOrder(Displayed(l), isLong)
    /\ reward = 24 => 2 * Size(l.targets[1] - l.reference) >= 3 * Size(l.reference - l.stop)

\* The multiples of compose_candidate put zone, stop and targets of an open ladder in
\* order, far enough apart for two decimals to keep it when the ATR is a tick or more.
LEMMA LadderInOrder ==
    ASSUME NEW close \in Nat, NEW ema \in Nat, NEW atr \in Nat, atr > 0, NEW isLong \in BOOLEAN,
           NEW stop \in {130, 145, 160}, NEW reward \in {18, 24}
    PROVE  OpenLadder(Levels(close, ema, atr, isLong, stop, reward, 0), isLong, reward)
<1> DEFINE l == Levels(close, ema, atr, isLong, stop, reward, 0)
           ref == Reference(close, ema, isLong)
<1>1. ref \in Int
  BY DEF Reference, Smaller, Larger, Tick
<1> DEFINE side == IF isLong THEN 1 ELSE -1
<1>2. l = [reference |-> ref,
           zone |-> IF isLong THEN <<ref - 4500000 * atr, ref + 1500000 * atr>>
                    ELSE <<ref - 1500000 * atr, ref + 4500000 * atr>>,
           stop |-> ref - side * 100000 * stop * atr,
           targets |-> [i \in 1..3 |-> ref + side * 100 * stop * reward * <<65, 100, 135>>[i] * atr]]
  BY DEF Levels
<1> HIDE DEF ref, l
<1> DEFINE near == IF isLong THEN l.zone[1] ELSE l.zone[2]
           risk == 100000 * stop * atr
           step == 100 * stop * reward * atr
<1>3. /\ l.reference = ref
      /\ near = ref - side * 4500000 * atr
      /\ l.stop = ref - side * risk
      /\ l.targets[1] = ref + side * 65 * step
      /\ l.targets[2] = ref + side * 100 * step
      /\ l.targets[3] = ref + side * 135 * step
  <2>1. CASE isLong
    BY <1>1, <1>2, <2>1
  <2>2. CASE ~isLong
    BY <1>1, <1>2, <2>2
  <2> QED BY <2>1, <2>2
<1>4. /\ risk \in Nat /\ risk >= 13000000 * atr
      /\ step \in Nat /\ step >= 234000 * atr
      /\ reward = 24 => step = 2400 * stop * atr
  <2>1. stop = 130 \/ stop = 145 \/ stop = 160
    OBVIOUS
  <2>2. reward = 18 \/ reward = 24
    OBVIOUS
  <2> QED BY <2>1, <2>2
<1> HIDE DEF near, risk, step
<1>5. ref \in Int /\ near \in Int /\ l.stop \in Int /\ \A i \in 1..3 : l.targets[i] \in Int
  BY <1>1, <1>3, <1>4
<1>6. InOrder(l, isLong)
  <2>1. CASE isLong
    BY <1>1, <1>3, <1>4, <2>1 DEF InOrder, near
  <2>2. CASE ~isLong
    BY <1>1, <1>3, <1>4, <2>2 DEF InOrder, near
  <2> QED BY <2>1, <2>2
<1> DEFINE d == Displayed(l)
           far == IF isLong THEN d.zone[1] ELSE d.zone[2]
<1>7. /\ d.reference = ref /\ d.stop = 100000 * Cents(l.stop) /\ far = 100000 * Cents(near)
      /\ \A i \in 1..3 : d.targets[i] = 100000 * Cents(l.targets[i])
  BY <1>3 DEF Displayed, near
<1> HIDE DEF d, far
<1>8. InOrder(d, isLong)
  <2>1. /\ far \in Int /\ near - 50000 < far /\ far <= near + 50000
        /\ d.stop \in Int /\ l.stop - 50000 < d.stop /\ d.stop <= l.stop + 50000
    BY <1>5, <1>7, CentsNear
  <2>2. \A i \in 1..3 : d.targets[i] \in Int /\ l.targets[i] - 50000 < d.targets[i] /\ d.targets[i] <= l.targets[i] + 50000
    BY <1>5, <1>7, CentsNear
  <2>3. /\ d.targets[1] \in Int /\ l.targets[1] - 50000 < d.targets[1] /\ d.targets[1] <= l.targets[1] + 50000
        /\ d.targets[2] \in Int /\ l.targets[2] - 50000 < d.targets[2] /\ d.targets[2] <= l.targets[2] + 50000
        /\ d.targets[3] \in Int /\ l.targets[3] - 50000 < d.targets[3] /\ d.targets[3] <= l.targets[3] + 50000
    BY <2>2
  <2>4. CASE isLong
    BY <1>1, <1>3, <1>4, <1>7, <2>1, <2>3, <2>4 DEF InOrder, far
  <2>5. CASE ~isLong
    BY <1>1, <1>3, <1>4, <1>7, <2>1, <2>3, <2>5 DEF InOrder, far
  <2> QED BY <2>4, <2>5
<1>9. ASSUME reward = 24 PROVE 2 * Size(l.targets[1] - l.reference) >= 3 * Size(l.reference - l.stop)
  <2>1. l.targets[1] - l.reference = side * 65 * step /\ l.reference - l.stop = side * risk
    BY <1>1, <1>3, <1>4
  <2>2. Size(side * 65 * step) = 65 * step /\ Size(side * risk) = risk
    BY <1>4 DEF Size
  <2>3. 2 * (65 * step) >= 3 * risk
    <3>1. stop = 130 \/ stop = 145 \/ stop = 160
      OBVIOUS
    <3> QED BY <1>4, <1>9, <3>1 DEF risk
  <2> QED BY <2>1, <2>2, <2>3
<1> QED BY <1>6, <1>8, <1>9 DEF OpenLadder, l, d

\* A target on the profit side: the ladder ends a third beyond it.
LEMMA TargetInOrder ==
    ASSUME NEW close \in Nat, NEW ema \in Nat, NEW atr \in Nat, atr > 0, NEW isLong \in BOOLEAN,
           NEW stop \in {130, 145, 160}, NEW reward \in {18, 24}, NEW target \in Nat
    PROVE  InOrder(Levels(close, ema, atr, isLong, stop, reward, target), isLong)
<1> DEFINE ref == Reference(close, ema, isLong)
           side == IF isLong THEN 1 ELSE -1
           span == side * (Tick * target - ref)
           l == Levels(close, ema, atr, isLong, stop, reward, target)
<1>1. PICK base \in Nat : ref = 10000 * base
  <2>1. ref = 10000 * (1000 * close) \/ ref = 10000 * (1002 * ema) \/ ref = 10000 * (998 * ema)
    BY DEF Reference, Smaller, Larger, Tick
  <2>2. 1000 * close \in Nat /\ 1002 * ema \in Nat /\ 998 * ema \in Nat
    OBVIOUS
  <2>3. CASE ref = 10000 * (1000 * close)
    BY <2>2, <2>3
  <2>4. CASE ref = 10000 * (1002 * ema)
    BY <2>2, <2>4
  <2>5. CASE ref = 10000 * (998 * ema)
    BY <2>2, <2>5
  <2> HIDE DEF ref
  <2> QED BY <2>1, <2>3, <2>4, <2>5
<1>2. CASE ~(target > 0 /\ span > 0)
  <2>1. l = Levels(close, ema, atr, isLong, stop, reward, 0)
    BY <1>2 DEF Levels
  <2>2. InOrder(Levels(close, ema, atr, isLong, stop, reward, 0), isLong)
    <3> HIDE DEF ref, side, span, l
    <3>1. OpenLadder(Levels(close, ema, atr, isLong, stop, reward, 0), isLong, reward)
      BY LadderInOrder
    <3> QED BY <3>1 DEF OpenLadder
  <2> QED BY <2>1, <2>2
<1>3. CASE target > 0 /\ span > 0
  <2>1. l = [reference |-> ref,
           zone |-> IF isLong THEN <<ref - 4500000 * atr, ref + 1500000 * atr>>
                    ELSE <<ref - 1500000 * atr, ref + 4500000 * atr>>,
           stop |-> ref - side * 100000 * stop * atr,
           targets |-> <<ref + side * ((span \div 10) * 6), Tick * target, ref + side * ((span \div 10) * 13)>>]
    BY <1>3 DEF Levels
  <2> DEFINE risk == 100000 * stop * atr
             near == IF isLong THEN l.zone[1] ELSE l.zone[2]
  <2>2. risk \in Nat /\ risk >= 13000000 * atr
    <3>1. stop = 130 \/ stop = 145 \/ stop = 160
      OBVIOUS
    <3> QED BY <3>1
  <2> DEFINE tenth == side * (1000 * target - base)
  <2>3. span = 10000 * tenth /\ tenth \in Nat /\ tenth > 0 /\ Tick * target = ref + side * span
        /\ span \div 10 = 1000 * tenth
    BY <1>1, <1>3 DEF Tick
  <2> HIDE DEF ref, span, l, tenth
  <2>4. /\ l.reference = ref
        /\ near = ref - side * 4500000 * atr
        /\ l.stop = ref - side * risk
        /\ l.targets[1] = ref + side * (6000 * tenth)
        /\ l.targets[2] = ref + side * (10000 * tenth)
        /\ l.targets[3] = ref + side * (13000 * tenth)
    <3>1. CASE isLong
      BY <1>1, <2>1, <2>3, <3>1
    <3>2. CASE ~isLong
      BY <1>1, <2>1, <2>3, <3>2
    <3> QED BY <3>1, <3>2
  <2> HIDE DEF risk, near
  <2>5. InOrder(l, isLong)
    <3>1. CASE isLong
      BY <1>1, <2>2, <2>3, <2>4, <3>1 DEF InOrder, near
    <3>2. CASE ~isLong
      BY <1>1, <2>2, <2>3, <2>4, <3>2 DEF InOrder, near
    <3> QED BY <3>1, <3>2
  <2> QED BY <2>5 DEF l
<1> QED BY <1>2, <1>3

\* A score, in 1/10000.
TopScore == 10000
Points == 0..TopScore
\* Which integers are scores.
LEMMA PointsBounds == \A x : x \in Points <=> x \in Int /\ 0 <= x /\ x <= 10000
<1>1. TopScore \in Int
  BY DEF TopScore
<1>2. \A x : x \in Points <=> x \in Int /\ 0 <= x /\ x <= TopScore
  BY <1>1 DEF Points
<1> QED BY <1>2 DEF TopScore
\* A bar on which the detectors run: prices and averages are there, the ATR moves.
Readable(r) ==
    /\ r.close \in Nat /\ r.close > 0
    /\ r.atr \in Nat /\ r.atr > 0
    /\ r.ema \in Nat /\ r.sma \in Nat /\ r.volume \in Nat /\ r.bandMiddle \in Nat
    /\ r.macd \in Int /\ r.slope \in Int
\* The side of a candidate, and a setup whose name makes a backtest take that side.
Side(isLong) == IF isLong THEN "long" ELSE "short"
Named(setup, isLong) == \A side \in {"long", "short"} : DirectionForSetup(setup, side) = Side(isLong)
\* What is shown when no family speaks need not name its side.
Called(signal, setup, isLong) ==
    IF signal \in {"HOLD", "WAIT"} THEN DirectionForSetup(setup, Side(isLong)) = Side(isLong)
    ELSE Named(setup, isLong)
\* What SetupsSound says of one candidate.
Fair(f) ==
    /\ f.score \in Points
    /\ f.direction = DirectionForSetup(f.setup, f.direction)
    /\ f.signal \in {"HOLD", "WAIT"} \/ \A side \in {"long", "short"} :
          f.direction = DirectionForSetup(f.setup, side)
    /\ InOrder(f.levels, f.direction = "long")
    /\ Has(f.setup, "meanreversion") \/ InOrder(Displayed(f.levels), f.direction = "long")
    /\ f.signal = "BUY_ZONE" => f.direction = "long"
    /\ f.signal = "SELL" => f.direction = "short"
    /\ (f.signal \in {"BUY_ZONE", "SELL"} /\ ~Has(f.setup, "meanreversion")) =>
          2 * Size(f.levels.targets[1] - f.levels.reference) >= 3 * Size(f.levels.reference - f.levels.stop)

\* What compose_candidate returns is fair if the name of the setup says its side, the
\* signal is of that side, and only mean reversion has a target of its own.
LEMMA ComposedFair ==
    ASSUME NEW r, Readable(r), NEW signal, NEW setup, NEW isLong \in BOOLEAN, NEW status, NEW score \in Points,
           NEW target \in Nat, Called(signal, setup, isLong),
           signal = "BUY_ZONE" => isLong, signal = "SELL" => ~isLong,
           target = 0 \/ Has(setup, "meanreversion")
    PROVE  Fair(Composed(r, signal, setup, isLong, status, score, target))
<1> DEFINE f == Composed(r, signal, setup, isLong, status, score, target)
           stop == StopMultiple(VolatilityRegime(r))
           reward == RewardMultiple(signal)
           l == Levels(r.close, r.ema, r.atr, isLong, stop, reward, target)
<1>1. f = [signal |-> signal, setup |-> setup, status |-> status, score |-> score,
           direction |-> Side(isLong), levels |-> l]
  BY DEF Composed, Side
<1>2. stop \in {130, 145, 160} /\ reward \in {18, 24} /\ (signal \in {"BUY_ZONE", "SELL"} => reward = 24)
  <2>1. stop \in {130, 145, 160}
    BY DEF StopMultiple
  <2>2. reward \in {18, 24} /\ (signal \in {"BUY_ZONE", "SELL"} => reward = 24)
    BY DEF RewardMultiple
  <2> QED BY <2>1, <2>2
<1> HIDE DEF stop, reward, f
<1>3. InOrder(l, isLong)
  <2>1. r.close \in Nat /\ r.ema \in Nat /\ r.atr \in Nat /\ r.atr > 0
    BY DEF Readable
  <2> HIDE DEF l
  <2>2. InOrder(Levels(r.close, r.ema, r.atr, isLong, stop, reward, target), isLong)
    BY <1>2, <2>1, TargetInOrder
  <2> QED BY <2>2 DEF l
<1>4. target = 0 => OpenLadder(l, isLong, reward)
  <2>1. OpenLadder(Levels(r.close, r.ema, r.atr, isLong, stop, reward, 0), isLong, reward)
    BY <1>2, LadderInOrder DEF Readable
  <2> QED BY <2>1
<1> HIDE DEF l
<1>5. Side(isLong) = "long" <=> isLong
  BY DEF Side
<1>6. f.levels = l /\ f.score = score /\ f.setup = setup /\ f.signal = signal /\ f.direction = Side(isLong)
  BY <1>1
<1>7. InOrder(f.levels, f.direction = "long")
  <2>1. (f.direction = "long") = isLong
    BY <1>5, <1>6
  <2> QED BY <1>3, <1>6, <2>1
<1>8. target = 0 => OpenLadder(f.levels, f.direction = "long", reward)
  <2>1. (f.direction = "long") = isLong
    BY <1>5, <1>6
  <2> QED BY <1>4, <1>6, <2>1
<1>9. f.signal = "BUY_ZONE" => f.direction = "long"
  BY <1>6 DEF Side
<1>10. f.signal = "SELL" => f.direction = "short"
  BY <1>6 DEF Side
<1>11. /\ f.direction = DirectionForSetup(f.setup, f.direction)
       /\ f.signal \in {"HOLD", "WAIT"} \/ \A side \in {"long", "short"} :
             f.direction = DirectionForSetup(f.setup, side)
  <2>1. CASE signal \in {"HOLD", "WAIT"}
    BY <1>6, <2>1 DEF Called
  <2>2. CASE signal \notin {"HOLD", "WAIT"}
    <3>1. \A side \in {"long", "short"} : DirectionForSetup(setup, side) = Side(isLong)
      BY <2>2 DEF Called, Named
    <3>2. Side(isLong) \in {"long", "short"}
      BY DEF Side
    <3> QED BY <1>6, <3>1, <3>2
  <2> QED BY <2>1, <2>2
<1>12. f.signal \in {"BUY_ZONE", "SELL"} => reward = 24
  BY <1>2, <1>6
<1>13. target = 0 \/ Has(f.setup, "meanreversion")
  BY <1>6
<1>14. Fair(f)
  BY <1>6, <1>7, <1>8, <1>9, <1>10, <1>11, <1>12, <1>13 DEF Fair, OpenLadder
<1> QED BY <1>14 DEF f

\* confluence returns a score between 0 and 1, whatever it is given.
LEMMA Numbers ==
    ASSUME NEW r, Readable(r), NEW base \in Int, NEW macd \in BOOLEAN, NEW slope \in BOOLEAN, NEW bonus \in Int
    PROVE  /\ Score(base, Alignment(r), VolumeConfirmation(r), macd, slope, bonus) \in Points
           /\ Score(base, 30, VolumeConfirmation(r), macd, slope, bonus) \in Points
<1>1. Alignment(r) \in Int
  <2>1. Size(r.ema - r.sma) \in Int
    BY DEF Readable, Size
  <2>2. 3 * r.close \in Nat /\ 3 * r.close > 0 /\ 10000 * Size(r.ema - r.sma) \in Int
    BY <2>1 DEF Readable
  <2>3. (10000 * Size(r.ema - r.sma)) \div (3 * r.close) \in Int
    BY <2>2
  <2> QED BY <2>3 DEF Alignment, Smaller
<1>2. VolumeConfirmation(r) \in Int
  BY DEF Readable, VolumeConfirmation, Smaller
<1>3. \A x \in Int : Clamp(x, 0, 10000) \in Points
  <2> SUFFICES ASSUME NEW x \in Int
               PROVE  Clamp(x, 0, 10000) \in Int /\ 0 <= Clamp(x, 0, 10000) /\ Clamp(x, 0, 10000) <= 10000
    BY PointsBounds
  <2>1. CASE x < 0
    <3>1. Smaller(10000, x) = x
      BY <2>1 DEF Smaller
    <3> QED BY <2>1, <3>1 DEF Clamp, Larger
  <2>2. CASE x > 10000
    <3>1. Smaller(10000, x) = 10000
      BY <2>2 DEF Smaller
    <3> QED BY <3>1 DEF Clamp, Larger
  <2>3. CASE 0 <= x /\ x <= 10000
    <3>1. Smaller(10000, x) = x
      BY <2>3 DEF Smaller
    <3> QED BY <2>3, <3>1 DEF Clamp, Larger
  <2> QED BY <2>1, <2>2, <2>3
<1> DEFINE ma == IF macd THEN 1000 ELSE 0
           sl == IF slope THEN 1000 ELSE 0
<1>4. ma \in Int /\ sl \in Int
  OBVIOUS
<1>5. \A a \in Int : Score(base, a, VolumeConfirmation(r), macd, slope, bonus) \in Points
  <2> SUFFICES ASSUME NEW a \in Int PROVE Score(base, a, VolumeConfirmation(r), macd, slope, bonus) \in Points
    OBVIOUS
  <2> DEFINE x == base + 15 * a + 10 * VolumeConfirmation(r) + ma + sl + bonus
  <2>1. x \in Int
    <3> HIDE DEF ma, sl
    <3> QED BY <1>2, <1>4
  <2>2. Score(base, a, VolumeConfirmation(r), macd, slope, bonus) = Clamp(x, 0, 10000)
    BY DEF Score
  <2> HIDE DEF x
  <2> QED BY <1>3, <2>1, <2>2
<1>6. 30 \in Int
  OBVIOUS
<1> QED BY <1>1, <1>5, <1>6

\* The names of the setups say their sides.
LEMMA NamedSetups ==
    /\ Named(<<"daily", "trend", "pullback">>, TRUE)
    /\ Named(<<"ema", "reclaim", "pullback">>, TRUE)
    /\ Named(<<"trend", "rejection", "breakdown">>, FALSE)
    /\ Named(<<"breakout", "retest", "continuation">>, TRUE)
    /\ Named(<<"breakdown", "retest", "continuation">>, FALSE)
    /\ Named(<<"range", "meanreversion", "long">>, TRUE)
    /\ Named(<<"range", "meanreversion", "short">>, FALSE)
    /\ Named(<<"failed", "breakout", "reversal">>, FALSE)
    /\ Named(<<"failed", "breakdown", "reversal">>, TRUE)
    /\ Named(<<"liquidity", "sweep", "reclaim", "long">>, TRUE)
    /\ Named(<<"liquidity", "sweep", "reclaim", "short">>, FALSE)
    /\ Named(<<"vwap", "reclaim", "long">>, TRUE)
    /\ Named(<<"vwap", "rejection", "short">>, FALSE)
  BY DEF Named, Side, DirectionForSetup, DirectionByName, Has

\* The names of the setups that end with a side.
LEMMA NamedSides ==
    /\ Named(<<"structure", "break", "long">>, TRUE)
    /\ Named(<<"structure", "break", "short">>, FALSE)
    /\ Named(<<"outside", "bar", "reversal", "long">>, TRUE)
    /\ Named(<<"outside", "bar", "reversal", "short">>, FALSE)
    /\ Named(<<"squeeze", "release", "long">>, TRUE)
    /\ Named(<<"squeeze", "release", "short">>, FALSE)
    /\ Named(<<"narrow", "range", "break", "long">>, TRUE)
    /\ Named(<<"narrow", "range", "break", "short">>, FALSE)
  BY DEF Named, Side, DirectionForSetup, DirectionByName, Has

\* The same where the side is computed.
LEMMA NamedMoves ==
    ASSUME NEW isLong \in BOOLEAN, NEW setup,
           \/ setup = <<"ma", "crossover", Pick(isLong, "long", "short")>>
           \/ setup = <<"inside", "bar", "break", Pick(isLong, "long", "short")>>
           \/ setup = <<"gap", "and", "go", Pick(isLong, "long", "short")>>
           \/ setup = <<"gap", "fill", "reversal", Pick(isLong, "long", "short")>>
    PROVE  Named(setup, isLong)
  BY DEF Named, Side, DirectionForSetup, DirectionByName, Has, Pick

\* The names shown when no family speaks.
LEMMA NamedFallbacks ==
    /\ Called("HOLD", <<"trend", "hold", "continuation">>, TRUE)
    /\ Called("WATCH", <<"breakdown", "watch">>, FALSE)
    /\ Called("WAIT", <<"range", "reset">>, TRUE)
  BY DEF Called, Named, Side, DirectionForSetup, DirectionByName, Has

\* What a family says: nothing, or one fair candidate that is active.
Spoken(f, first) ==
    Fair(f) /\ f.setup[1] \in first /\ f.signal \notin {"HOLD", "WAIT"} /\ f.status = "active"
Voice(s, first) == s = <<>> \/ \E f : s = <<f>> /\ Spoken(f, first)

\* What a family may offer: a setup that names its side, with a signal of that side.
Offered(signal, setup, isLong, first) ==
    /\ Named(setup, isLong) /\ setup[1] \in first
    /\ signal = "BUY_ZONE" => isLong
    /\ signal = "SELL" => ~isLong
    /\ signal \notin {"HOLD", "WAIT"}

\* What a family offers is a voice, through compose_candidate and through the two ways
\* of asking the indicators.
LEMMA ComposedVoice ==
    ASSUME NEW r, Readable(r), NEW signal, NEW setup, NEW isLong \in BOOLEAN, NEW score \in Points,
           NEW target \in Nat, NEW first, Offered(signal, setup, isLong, first),
           target = 0 \/ Has(setup, "meanreversion")
    PROVE  Voice(<<Composed(r, signal, setup, isLong, "active", score, target)>>, first)
<1> DEFINE f == Composed(r, signal, setup, isLong, "active", score, target)
<1>1. Fair(f)
  BY ComposedFair DEF Offered, Called
<1>2. f.setup = setup /\ f.signal = signal /\ f.status = "active"
  BY DEF Composed
<1> HIDE DEF f
<1>3. Spoken(f, first)
  BY <1>1, <1>2 DEF Spoken, Offered
<1> QED BY <1>3 DEF Voice, f

\* Through the helper that asks MACD and slope for their own side.
LEMMA StrictVoice ==
    ASSUME NEW r, Readable(r), NEW signal, NEW setup, NEW isLong \in BOOLEAN, NEW base \in Int, NEW bonus \in Int,
           NEW first, Offered(signal, setup, isLong, first)
    PROVE  Voice(Strict(r, signal, setup, isLong, base, bonus), first)
<1>1. Agrees(r.macd, isLong) \in BOOLEAN /\ Agrees(r.slope, isLong) \in BOOLEAN
  <2>1. r.macd \in Int /\ r.slope \in Int
    BY DEF Readable
  <2>2. CASE isLong
    BY <2>1, <2>2 DEF Agrees
  <2>3. CASE ~isLong
    BY <2>1, <2>3 DEF Agrees
  <2> QED BY <2>2, <2>3
<1>2. Score(base, Alignment(r), VolumeConfirmation(r), Agrees(r.macd, isLong), Agrees(r.slope, isLong), bonus) \in Points
  BY <1>1, Numbers
<1>3. 0 \in Nat
  OBVIOUS
<1> QED BY <1>2, <1>3, ComposedVoice DEF Strict

\* Through the helper that takes what is not up for down.
LEMMA EmitVoice ==
    ASSUME NEW r, Readable(r), NEW signal, NEW setup, NEW isLong \in BOOLEAN, NEW base \in Int, NEW bonus \in Int,
           NEW first, Offered(signal, setup, isLong, first)
    PROVE  Voice(Emit(r, signal, setup, isLong, base, bonus), first)
<1>1. Matches(r.macd, isLong) \in BOOLEAN /\ Matches(r.slope, isLong) \in BOOLEAN
  BY DEF Matches
<1>2. Score(base, Alignment(r), VolumeConfirmation(r), Matches(r.macd, isLong), Matches(r.slope, isLong), bonus) \in Points
  BY <1>1, Numbers
<1>3. 0 \in Nat
  OBVIOUS
<1> QED BY <1>2, <1>3, ComposedVoice DEF Emit

\* The same for one side, by name.
StrictLong(r, signal, setup, base, bonus) == Strict(r, signal, setup, TRUE, base, bonus)
StrictShort(r, signal, setup, base, bonus) == Strict(r, signal, setup, FALSE, base, bonus)
EmitLong(r, signal, setup, base, bonus) == Emit(r, signal, setup, TRUE, base, bonus)
EmitShort(r, signal, setup, base, bonus) == Emit(r, signal, setup, FALSE, base, bonus)
OfferedLong(signal, setup, first) == Named(setup, TRUE) /\ setup[1] \in first /\ signal \notin {"SELL", "HOLD", "WAIT"}
OfferedShort(signal, setup, first) == Named(setup, FALSE) /\ setup[1] \in first /\ signal \notin {"BUY_ZONE", "HOLD", "WAIT"}

\* The long side, through both helpers.
LEMMA LongVoice ==
    ASSUME NEW r, Readable(r), NEW signal, NEW setup, NEW base \in Int, NEW bonus \in Int,
           NEW first, OfferedLong(signal, setup, first)
    PROVE  /\ Voice(StrictLong(r, signal, setup, base, bonus), first)
           /\ Voice(EmitLong(r, signal, setup, base, bonus), first)
<1> DEFINE up == TRUE
<1>1. up \in BOOLEAN
  OBVIOUS
<1>2. Offered(signal, setup, up, first)
  BY DEF Offered, OfferedLong
<1> HIDE DEF up
<1>3. Voice(Strict(r, signal, setup, up, base, bonus), first)
  BY <1>1, <1>2, StrictVoice
<1>4. Voice(Emit(r, signal, setup, up, base, bonus), first)
  BY <1>1, <1>2, EmitVoice
<1> QED BY <1>3, <1>4 DEF up, StrictLong, EmitLong

\* The short side.
LEMMA ShortVoice ==
    ASSUME NEW r, Readable(r), NEW signal, NEW setup, NEW base \in Int, NEW bonus \in Int,
           NEW first, OfferedShort(signal, setup, first)
    PROVE  /\ Voice(StrictShort(r, signal, setup, base, bonus), first)
           /\ Voice(EmitShort(r, signal, setup, base, bonus), first)
<1> DEFINE down == FALSE
<1>1. down \in BOOLEAN
  OBVIOUS
<1>2. Offered(signal, setup, down, first)
  BY DEF Offered, OfferedShort
<1> HIDE DEF down
<1>3. Voice(Strict(r, signal, setup, down, base, bonus), first)
  BY <1>1, <1>2, StrictVoice
<1>4. Voice(Emit(r, signal, setup, down, base, bonus), first)
  BY <1>1, <1>2, EmitVoice
<1> QED BY <1>3, <1>4 DEF down, StrictShort, EmitShort

\* A bonus is a number.
LEMMA BonusIsInt == ASSUME NEW r, NEW regimes, NEW bonus \in Int PROVE BonusIn(r, regimes, bonus) \in Int
  BY DEF BonusIn

\* A family that says one of two things or nothing has a voice if both are voices.
LEMMA OneOfThree ==
    ASSUME NEW first, NEW s, NEW one, NEW other, s \in {<<>>, one, other}, Voice(one, first), Voice(other, first)
    PROVE  Voice(s, first)
  BY DEF Voice

\* Every family says nothing or one fair candidate, whose name begins with a word of
\* that family: breakouts and their retests.
LEMMA BreakoutVoice == ASSUME NEW r, Readable(r) PROVE Voice(BreakoutFamily(r), {"breakout", "breakdown"})
<1> DEFINE first == {"breakout", "breakdown"}
           long == <<"breakout", "retest", "continuation">>
           short == <<"breakdown", "retest", "continuation">>
           up == "WATCH"
           down == "WATCH"
           bonus == 1200
           one == StrictLong(r, up, long, 6000, bonus)
           other == StrictShort(r, down, short, 6000, bonus)
<1>1. OfferedLong(up, long, first) /\ OfferedShort(down, short, first)
  BY NamedSetups DEF OfferedLong, OfferedShort
<1>2. 6000 \in Int /\ bonus \in Int
  OBVIOUS
<1>3. BreakoutFamily(r) \in {<<>>, one, other}
  BY DEF BreakoutFamily, When, Either, StrictLong, StrictShort
<1> HIDE DEF first, long, short, up, down, bonus
<1>4. Voice(one, first)
  BY <1>1, <1>2, LongVoice
<1>5. Voice(other, first)
  BY <1>1, <1>2, ShortVoice
<1> HIDE DEF one, other
<1> QED BY <1>3, <1>4, <1>5, OneOfThree DEF first

\* Failed breakouts and breakdowns.
LEMMA FailedVoice == ASSUME NEW r, Readable(r) PROVE Voice(FailedFamily(r), {"failed"})
<1> DEFINE first == {"failed"}
           long == <<"failed", "breakdown", "reversal">>
           short == <<"failed", "breakout", "reversal">>
           up == "BUY_ZONE"
           down == "SELL"
           bonus == BonusIn(r, {"ranging", "transitional"}, 800)
           one == StrictLong(r, up, long, 5000, bonus)
           other == StrictShort(r, down, short, 5000, bonus)
<1>1. OfferedLong(up, long, first) /\ OfferedShort(down, short, first)
  BY NamedSetups DEF OfferedLong, OfferedShort
<1>2. 5000 \in Int /\ bonus \in Int
  BY BonusIsInt
<1>3. FailedFamily(r) \in {<<>>, one, other}
  BY DEF FailedFamily, When, Either, StrictLong, StrictShort
<1> HIDE DEF first, long, short, up, down, bonus
<1>4. Voice(one, first)
  BY <1>1, <1>2, LongVoice
<1>5. Voice(other, first)
  BY <1>1, <1>2, ShortVoice
<1> HIDE DEF one, other
<1> QED BY <1>3, <1>4, <1>5, OneOfThree DEF first

\* Swept extremes.
LEMMA SweepVoice == ASSUME NEW r, Readable(r) PROVE Voice(SweepFamily(r), {"liquidity"})
<1> DEFINE first == {"liquidity"}
           long == <<"liquidity", "sweep", "reclaim", "long">>
           short == <<"liquidity", "sweep", "reclaim", "short">>
           up == "BUY_ZONE"
           down == "SELL"
           bonus == 500
           one == StrictLong(r, up, long, 5200, bonus)
           other == StrictShort(r, down, short, 5200, bonus)
<1>1. OfferedLong(up, long, first) /\ OfferedShort(down, short, first)
  BY NamedSetups DEF OfferedLong, OfferedShort
<1>2. 5200 \in Int /\ bonus \in Int
  OBVIOUS
<1>3. SweepFamily(r) \in {<<>>, one, other}
  BY DEF SweepFamily, When, Either, StrictLong, StrictShort
<1> HIDE DEF first, long, short, up, down, bonus
<1>4. Voice(one, first)
  BY <1>1, <1>2, LongVoice
<1>5. Voice(other, first)
  BY <1>1, <1>2, ShortVoice
<1> HIDE DEF one, other
<1> QED BY <1>3, <1>4, <1>5, OneOfThree DEF first

\* Crossing averages.
LEMMA CrossoverVoice == ASSUME NEW r, Readable(r) PROVE Voice(CrossoverFamily(r), {"ma"})
<1> DEFINE first == {"ma"}
           up == r.before.ema <= r.before.sma /\ r.ema > r.sma
           setup == <<"ma", "crossover", Pick(up, "long", "short")>>
           signal == Pick(up, "BUY_ZONE", "SELL")
           bonus == BonusIn(r, {"trending"}, 600)
           one == Emit(r, signal, setup, up, 5000, bonus)
<1>1. up \in BOOLEAN /\ 5000 \in Int /\ bonus \in Int
  BY BonusIsInt
<1>2. Offered(signal, setup, up, first)
  <2>1. Named(setup, up)
    <3> HIDE DEF up
    <3> QED BY <1>1, NamedMoves
  <2> QED BY <2>1 DEF Offered, Pick
<1>3. CrossoverFamily(r) \in {<<>>, one}
  BY DEF CrossoverFamily, When
<1> HIDE DEF first, up, setup, signal, bonus
<1>4. Voice(one, first)
  BY <1>1, <1>2, EmitVoice
<1> HIDE DEF one
<1> QED BY <1>3, <1>4 DEF Voice, first

\* Inside bars.
LEMMA InsideVoice == ASSUME NEW r, Readable(r) PROVE Voice(InsideFamily(r), {"inside"})
<1> DEFINE first == {"inside"}
           up == Bullish(r) /\ r.close > r.mother.high
           setup == <<"inside", "bar", "break", Pick(up, "long", "short")>>
           signal == Pick(up, "BUY_ZONE", "SELL")
           bonus == BonusIn(r, {"trending"}, 800)
           one == Emit(r, signal, setup, up, 5000, bonus)
<1>1. up \in BOOLEAN /\ 5000 \in Int /\ bonus \in Int
  BY BonusIsInt
<1>2. Offered(signal, setup, up, first)
  <2>1. Named(setup, up)
    <3> HIDE DEF up
    <3> QED BY <1>1, NamedMoves
  <2> QED BY <2>1 DEF Offered, Pick
<1>3. InsideFamily(r) \in {<<>>, one}
  BY DEF InsideFamily, When
<1> HIDE DEF first, up, setup, signal, bonus
<1>4. Voice(one, first)
  BY <1>1, <1>2, EmitVoice
<1> HIDE DEF one
<1> QED BY <1>3, <1>4 DEF Voice, first

\* The rolling VWAP.
LEMMA VwapVoice == ASSUME NEW r, Readable(r) PROVE Voice(VwapFamily(r), {"vwap"})
<1> DEFINE first == {"vwap"}
           long == <<"vwap", "reclaim", "long">>
           short == <<"vwap", "rejection", "short">>
           up == "BUY_ZONE"
           down == "SELL"
           bonus == 500
           one == EmitLong(r, up, long, 5000, bonus)
           other == EmitShort(r, down, short, 5000, bonus)
<1>1. OfferedLong(up, long, first) /\ OfferedShort(down, short, first)
  BY NamedSetups DEF OfferedLong, OfferedShort
<1>2. 5000 \in Int /\ bonus \in Int
  OBVIOUS
<1>3. VwapFamily(r) \in {<<>>, one, other}
  BY DEF VwapFamily, When, Either, EmitLong, EmitShort
<1> HIDE DEF first, long, short, up, down, bonus
<1>4. Voice(one, first)
  BY <1>1, <1>2, LongVoice
<1>5. Voice(other, first)
  BY <1>1, <1>2, ShortVoice
<1> HIDE DEF one, other
<1> QED BY <1>3, <1>4, <1>5, OneOfThree DEF first

\* Broken swings.
LEMMA StructureVoice == ASSUME NEW r, Readable(r) PROVE Voice(StructureFamily(r), {"structure"})
<1> DEFINE first == {"structure"}
           long == <<"structure", "break", "long">>
           short == <<"structure", "break", "short">>
           up == "WATCH"
           down == "WATCH"
           bonus == 0
           one == EmitLong(r, up, long, 4600, bonus)
           other == EmitShort(r, down, short, 4600, bonus)
<1>1. OfferedLong(up, long, first) /\ OfferedShort(down, short, first)
  BY NamedSides DEF OfferedLong, OfferedShort
<1>2. 4600 \in Int /\ bonus \in Int
  OBVIOUS
<1>3. StructureFamily(r) \in {<<>>, one, other}
  BY DEF StructureFamily, When, Either, EmitLong, EmitShort
<1> HIDE DEF first, long, short, up, down, bonus
<1>4. Voice(one, first)
  BY <1>1, <1>2, LongVoice
<1>5. Voice(other, first)
  BY <1>1, <1>2, ShortVoice
<1> HIDE DEF one, other
<1> QED BY <1>3, <1>4, <1>5, OneOfThree DEF first

\* Outside bars.
LEMMA OutsideVoice == ASSUME NEW r, Readable(r) PROVE Voice(OutsideFamily(r), {"outside"})
<1> DEFINE first == {"outside"}
           long == <<"outside", "bar", "reversal", "long">>
           short == <<"outside", "bar", "reversal", "short">>
           up == "BUY_ZONE"
           down == "SELL"
           bonus == 0
           one == EmitLong(r, up, long, 5000, bonus)
           other == EmitShort(r, down, short, 5000, bonus)
<1>1. OfferedLong(up, long, first) /\ OfferedShort(down, short, first)
  BY NamedSides DEF OfferedLong, OfferedShort
<1>2. 5000 \in Int /\ bonus \in Int
  OBVIOUS
<1>3. OutsideFamily(r) \in {<<>>, one, other}
  BY DEF OutsideFamily, When, Either, EmitLong, EmitShort
<1> HIDE DEF first, long, short, up, down, bonus
<1>4. Voice(one, first)
  BY <1>1, <1>2, LongVoice
<1>5. Voice(other, first)
  BY <1>1, <1>2, ShortVoice
<1> HIDE DEF one, other
<1> QED BY <1>3, <1>4, <1>5, OneOfThree DEF first

\* Released squeezes.
LEMMA SqueezeVoice == ASSUME NEW r, Readable(r) PROVE Voice(SqueezeFamily(r), {"squeeze"})
<1> DEFINE first == {"squeeze"}
           long == <<"squeeze", "release", "long">>
           short == <<"squeeze", "release", "short">>
           up == "BUY_ZONE"
           down == "SELL"
           bonus == 600
           one == EmitLong(r, up, long, 5200, bonus)
           other == EmitShort(r, down, short, 5200, bonus)
<1>1. OfferedLong(up, long, first) /\ OfferedShort(down, short, first)
  BY NamedSides DEF OfferedLong, OfferedShort
<1>2. 5200 \in Int /\ bonus \in Int
  OBVIOUS
<1>3. SqueezeFamily(r) \in {<<>>, one, other}
  BY DEF SqueezeFamily, When, Either, EmitLong, EmitShort
<1> HIDE DEF first, long, short, up, down, bonus
<1>4. Voice(one, first)
  BY <1>1, <1>2, LongVoice
<1>5. Voice(other, first)
  BY <1>1, <1>2, ShortVoice
<1> HIDE DEF one, other
<1> QED BY <1>3, <1>4, <1>5, OneOfThree DEF first

\* Narrow ranges.
LEMMA NarrowVoice == ASSUME NEW r, Readable(r) PROVE Voice(NarrowFamily(r), {"narrow"})
<1> DEFINE first == {"narrow"}
           long == <<"narrow", "range", "break", "long">>
           short == <<"narrow", "range", "break", "short">>
           up == "BUY_ZONE"
           down == "SELL"
           bonus == 500
           one == EmitLong(r, up, long, 5000, bonus)
           other == EmitShort(r, down, short, 5000, bonus)
<1>1. OfferedLong(up, long, first) /\ OfferedShort(down, short, first)
  BY NamedSides DEF OfferedLong, OfferedShort
<1>2. 5000 \in Int /\ bonus \in Int
  OBVIOUS
<1>3. NarrowFamily(r) \in {<<>>, one, other}
  BY DEF NarrowFamily, When, Either, EmitLong, EmitShort
<1> HIDE DEF first, long, short, up, down, bonus
<1>4. Voice(one, first)
  BY <1>1, <1>2, LongVoice
<1>5. Voice(other, first)
  BY <1>1, <1>2, ShortVoice
<1> HIDE DEF one, other
<1> QED BY <1>3, <1>4, <1>5, OneOfThree DEF first

\* Pullbacks and rejections in a trend.
LEMMA TrendVoice == ASSUME NEW r, Readable(r) PROVE Voice(TrendFamily(r), {"daily", "ema", "trend"})
<1> DEFINE first == {"daily", "ema", "trend"}
           long == IF r.daily THEN <<"daily", "trend", "pullback">> ELSE <<"ema", "reclaim", "pullback">>
           short == <<"trend", "rejection", "breakdown">>
           up == "BUY_ZONE"
           down == "SELL"
           bonus == BonusIn(r, {"trending"}, 1000)
           one == StrictLong(r, up, long, 5500, bonus)
           other == StrictShort(r, down, short, 5500, bonus)
<1>1. OfferedLong(up, long, first) /\ OfferedShort(down, short, first)
  BY NamedSetups DEF OfferedLong, OfferedShort
<1>2. 5500 \in Int /\ bonus \in Int
  BY BonusIsInt
<1>3. TrendFamily(r) \in {<<>>, one, other}
  BY DEF TrendFamily, When, Either, StrictLong, StrictShort
<1> HIDE DEF first, long, short, up, down, bonus
<1>4. Voice(one, first)
  BY <1>1, <1>2, LongVoice
<1>5. Voice(other, first)
  BY <1>1, <1>2, ShortVoice
<1> HIDE DEF one, other
<1> QED BY <1>3, <1>4, <1>5, OneOfThree DEF first

\* Gaps that went or were filled: the fill is traded against the gap.
LEMMA GapVoice == ASSUME NEW r, Readable(r) PROVE Voice(GapFamily(r), {"gap"})
<1> DEFINE first == {"gap"}
           up == r.open - r.before.close > 0
           down == ~up
           bonus == BonusIn(r, {"trending"}, 800)
           goes == <<"gap", "and", "go", Pick(up, "long", "short")>>
           fills == <<"gap", "fill", "reversal", Pick(up, "short", "long")>>
           go == Emit(r, Pick(up, "BUY_ZONE", "SELL"), goes, up, 5000, bonus)
           fill == Emit(r, Pick(up, "SELL", "BUY_ZONE"), fills, down, 4800, 500)
<1>1. up \in BOOLEAN /\ down \in BOOLEAN /\ 5000 \in Int /\ 4800 \in Int /\ 500 \in Int /\ bonus \in Int
  BY BonusIsInt
<1>2. Pick(up, "short", "long") = Pick(down, "long", "short")
  BY DEF Pick
<1>3. Offered(Pick(up, "BUY_ZONE", "SELL"), goes, up, first) /\ Offered(Pick(up, "SELL", "BUY_ZONE"), fills, down, first)
  <2>1. Named(goes, up)
    <3> HIDE DEF up
    <3> QED BY <1>1, NamedMoves
  <2>2. Named(fills, down)
    <3> HIDE DEF up, down
    <3> QED BY <1>1, <1>2, NamedMoves
  <2> QED BY <2>1, <2>2 DEF Offered, Pick
<1>4. GapFamily(r) \in {<<>>, go, fill}
  BY DEF GapFamily, When, Either
<1> HIDE DEF first, up, down, goes, fills, bonus
<1>5. Voice(go, first)
  BY <1>1, <1>3, EmitVoice
<1>6. Voice(fill, first)
  BY <1>1, <1>3, EmitVoice
<1> HIDE DEF go, fill
<1> QED BY <1>4, <1>5, <1>6, OneOfThree DEF first

\* Mean reversion, with the middle of the band as its target.
LEMMA RangeVoice == ASSUME NEW r, Readable(r) PROVE Voice(RangeFamily(r), {"range"})
<1> DEFINE first == {"range"}
           long == <<"range", "meanreversion", "long">>
           short == <<"range", "meanreversion", "short">>
           up == "BUY_ZONE"
           down == "SELL"
           rising == TRUE
           falling == FALSE
           macd == TRUE
           base == 5000
           bonus == 800
           notDown == r.slope >= 0
           notUp == r.slope <= 0
           upScore == Score(base, 30, VolumeConfirmation(r), macd, notDown, bonus)
           downScore == Score(base, 30, VolumeConfirmation(r), macd, notUp, bonus)
           one == <<Composed(r, up, long, rising, "active", upScore, r.bandMiddle)>>
           other == <<Composed(r, down, short, falling, "active", downScore, r.bandMiddle)>>
<1>1. Has(long, "meanreversion") /\ Has(short, "meanreversion")
  <2>1. 2 \in DOMAIN long /\ long[2] = "meanreversion" /\ 2 \in DOMAIN short /\ short[2] = "meanreversion"
    OBVIOUS
  <2> HIDE DEF long, short
  <2> QED BY <2>1 DEF Has
<1>2. Offered(up, long, rising, first) /\ Offered(down, short, falling, first)
  BY NamedSetups DEF Offered
<1>3. RangeFamily(r) \in {<<>>, one, other}
  BY DEF RangeFamily, When, Either
<1>4. upScore \in Points /\ downScore \in Points
  <2>1. macd \in BOOLEAN /\ base \in Int /\ bonus \in Int /\ notDown \in BOOLEAN /\ notUp \in BOOLEAN
    OBVIOUS
  <2> HIDE DEF macd, base, bonus, notDown, notUp
  <2>2. \A slope \in BOOLEAN : Score(base, 30, VolumeConfirmation(r), macd, slope, bonus) \in Points
    BY <2>1, Numbers
  <2> QED BY <2>1, <2>2
<1>5. rising \in BOOLEAN /\ falling \in BOOLEAN /\ r.bandMiddle \in Nat
  BY DEF Readable
<1> HIDE DEF first, long, short, up, down, rising, falling, upScore, downScore
<1>6. Voice(one, first)
  BY <1>1, <1>2, <1>4, <1>5, ComposedVoice
<1>7. Voice(other, first)
  BY <1>1, <1>2, <1>4, <1>5, ComposedVoice
<1> HIDE DEF one, other
<1> QED BY <1>3, <1>6, <1>7, OneOfThree DEF first

\* A list of candidates that are fair and whose names begin with different words.
Heard(s, words) ==
    /\ \E S : s \in Seq(S)
    /\ \A i \in DOMAIN s : Spoken(s[i], words)
    /\ \A i, j \in DOMAIN s : s[i].setup[1] = s[j].setup[1] => i = j

\* A family none of whose words is used can be appended.
LEMMA Joined ==
    ASSUME NEW words, NEW more, words \cap more = {}, NEW s, Heard(s, words), NEW t, Voice(t, more)
    PROVE  Heard(s \o t, words \cup more)
<1>1. PICK S : s \in Seq(S)
  BY DEF Heard
<1>2. ASSUME NEW f PROVE Spoken(f, words) \/ Spoken(f, more) => Spoken(f, words \cup more)
  BY DEF Spoken
<1>3. CASE t = <<>>
  <2>1. s \o t = s
    BY <1>1, <1>3
  <2> QED BY <1>1, <1>2, <2>1 DEF Heard
<1>4. ASSUME NEW f, t = <<f>>, Spoken(f, more) PROVE Heard(s \o t, words \cup more)
  <2> DEFINE all == s \o t
             n == Len(s)
  <2>1. /\ s \in Seq(S \cup {f}) /\ t \in Seq(S \cup {f})
        /\ n \in Nat /\ Len(t) = 1 /\ t[1] = f /\ DOMAIN s = 1..n
    BY <1>1, <1>4
  <2>2. /\ all \in Seq(S \cup {f})
        /\ DOMAIN all = 1..(n + 1)
        /\ \A i \in 1..n : all[i] = s[i]
        /\ all[n + 1] = f
    <3>1. /\ all \in Seq(S \cup {f}) /\ Len(all) = n + 1
          /\ \A i \in 1..(n + 1) : all[i] = IF i <= n THEN s[i] ELSE t[i - n]
      BY <2>1, ConcatProperties
    <3>2. DOMAIN all = 1..(n + 1)
      BY <3>1
    <3>3. all[n + 1] = t[n + 1 - n]
      BY <2>1, <3>1
    <3>4. n + 1 - n = 1
      BY <2>1
    <3>5. \A i \in 1..n : all[i] = s[i]
      BY <2>1, <3>1
    <3> HIDE DEF all, n
    <3> QED BY <2>1, <3>1, <3>2, <3>3, <3>4, <3>5
  <2> HIDE DEF all, n
  <2>3. \A i \in 1..n : Spoken(s[i], words) /\ s[i].setup[1] \in words
    BY <2>1 DEF Heard, Spoken
  <2>4. \A i, j \in 1..n : s[i].setup[1] = s[j].setup[1] => i = j
    BY <2>1 DEF Heard
  <2>5. f.setup[1] \in more
    BY <1>4 DEF Spoken
  <2>6. \A i \in 1..(n + 1) : i \in 1..n \/ i = n + 1
    BY <2>1
  <2>7. \A i \in 1..(n + 1) : Spoken(all[i], words \cup more)
    BY <1>2, <1>4, <2>2, <2>3, <2>6
  <2>8. \A i, j \in 1..(n + 1) : all[i].setup[1] = all[j].setup[1] => i = j
    BY <2>2, <2>3, <2>4, <2>5, <2>6
  <2>9. Heard(all, words \cup more)
    BY <2>2, <2>7, <2>8 DEF Heard
  <2> QED BY <2>9 DEF all
<1> QED BY <1>3, <1>4 DEF Voice

\* What the families say on one bar, without extensions.
Families(r) ==
    TrendFamily(r) \o BreakoutFamily(r) \o RangeFamily(r) \o <<>>
    \o FailedFamily(r) \o SweepFamily(r) \o CrossoverFamily(r) \o InsideFamily(r)
    \o GapFamily(r) \o VwapFamily(r) \o StructureFamily(r) \o OutsideFamily(r)
    \o SqueezeFamily(r) \o NarrowFamily(r)

\* The list a family begins.
LEMMA VoiceHeard == ASSUME NEW s, NEW words, Voice(s, words) PROVE Heard(s, words)
<1>1. CASE s = <<>>
  BY <1>1 DEF Heard
<1>2. ASSUME NEW f, s = <<f>>, Spoken(f, words) PROVE Heard(s, words)
  <2>1. s \in Seq({f}) /\ DOMAIN s = 1..1 /\ s[1] = f
    BY <1>2
  <2>2. \A i \in DOMAIN s : i = 1
    BY <2>1
  <2> QED BY <1>2, <2>1, <2>2 DEF Heard
<1> QED BY <1>1, <1>2 DEF Voice

\* Appended one after another, the families never name a setup twice.
LEMMA AllHeard == ASSUME NEW r, Readable(r) PROVE \E words : Heard(Families(r), words)
<1> DEFINE w1 == {"daily", "ema", "trend"}
           w2 == {"breakout", "breakdown"}
           w3 == {"range"}
           w4 == {}
           w5 == {"failed"}
           w6 == {"liquidity"}
           w7 == {"ma"}
           w8 == {"inside"}
           w9 == {"gap"}
           w10 == {"vwap"}
           w11 == {"structure"}
           w12 == {"outside"}
           w13 == {"squeeze"}
           w14 == {"narrow"}
           u1 == w1
           u2 == u1 \cup w2
           u3 == u2 \cup w3
           u4 == u3 \cup w4
           u5 == u4 \cup w5
           u6 == u5 \cup w6
           u7 == u6 \cup w7
           u8 == u7 \cup w8
           u9 == u8 \cup w9
           u10 == u9 \cup w10
           u11 == u10 \cup w11
           u12 == u11 \cup w12
           u13 == u12 \cup w13
           u14 == u13 \cup w14
           h1 == TrendFamily(r)
           h2 == h1 \o BreakoutFamily(r)
           h3 == h2 \o RangeFamily(r)
           h4 == h3 \o <<>>
           h5 == h4 \o FailedFamily(r)
           h6 == h5 \o SweepFamily(r)
           h7 == h6 \o CrossoverFamily(r)
           h8 == h7 \o InsideFamily(r)
           h9 == h8 \o GapFamily(r)
           h10 == h9 \o VwapFamily(r)
           h11 == h10 \o StructureFamily(r)
           h12 == h11 \o OutsideFamily(r)
           h13 == h12 \o SqueezeFamily(r)
           h14 == h13 \o NarrowFamily(r)
<1>2. u1 \cap w2 = {}
  OBVIOUS
<1>3. u2 \cap w3 = {}
  OBVIOUS
<1>4. u3 \cap w4 = {}
  OBVIOUS
<1>5. u4 \cap w5 = {}
  OBVIOUS
<1>6. u5 \cap w6 = {}
  OBVIOUS
<1>7. u6 \cap w7 = {}
  OBVIOUS
<1>8. u7 \cap w8 = {}
  OBVIOUS
<1>9. u8 \cap w9 = {}
  OBVIOUS
<1>10. u9 \cap w10 = {}
  OBVIOUS
<1>11. u10 \cap w11 = {}
  OBVIOUS
<1>12. u11 \cap w12 = {}
  OBVIOUS
<1>13. u12 \cap w13 = {}
  OBVIOUS
<1>14. u13 \cap w14 = {}
  OBVIOUS
<1>20. Voice(<<>>, w4)
  BY DEF Voice
<1>21. Heard(h1, u1)
  <2>1. Voice(h1, u1)
    BY TrendVoice
  <2> HIDE DEF h1, u1
  <2> QED BY <2>1, VoiceHeard
<1>42. Voice(BreakoutFamily(r), w2)
  BY BreakoutVoice
<1>43. Voice(RangeFamily(r), w3)
  BY RangeVoice
<1>45. Voice(FailedFamily(r), w5)
  BY FailedVoice
<1>46. Voice(SweepFamily(r), w6)
  BY SweepVoice
<1>47. Voice(CrossoverFamily(r), w7)
  BY CrossoverVoice
<1>48. Voice(InsideFamily(r), w8)
  BY InsideVoice
<1>49. Voice(GapFamily(r), w9)
  BY GapVoice
<1>50. Voice(VwapFamily(r), w10)
  BY VwapVoice
<1>51. Voice(StructureFamily(r), w11)
  BY StructureVoice
<1>52. Voice(OutsideFamily(r), w12)
  BY OutsideVoice
<1>53. Voice(SqueezeFamily(r), w13)
  BY SqueezeVoice
<1>54. Voice(NarrowFamily(r), w14)
  BY NarrowVoice
<1> HIDE DEF w1, w2, w3, w4, w5, w6, w7, w8, w9, w10, w11, w12, w13, w14, u1, u2, u3, u4, u5, u6,
             u7, u8, u9, u10, u11, u12, u13, u14, h1, h2, h3, h4, h5, h6, h7, h8, h9, h10, h11, h12,
             h13, h14
<1>62. Heard(h2, u2)
  BY <1>2, <1>42, <1>21, Joined DEF h2, u2
<1>63. Heard(h3, u3)
  BY <1>3, <1>43, <1>62, Joined DEF h3, u3
<1>64. Heard(h4, u4)
  BY <1>4, <1>20, <1>63, Joined DEF h4, u4
<1>65. Heard(h5, u5)
  BY <1>5, <1>45, <1>64, Joined DEF h5, u5
<1>66. Heard(h6, u6)
  BY <1>6, <1>46, <1>65, Joined DEF h6, u6
<1>67. Heard(h7, u7)
  BY <1>7, <1>47, <1>66, Joined DEF h7, u7
<1>68. Heard(h8, u8)
  BY <1>8, <1>48, <1>67, Joined DEF h8, u8
<1>69. Heard(h9, u9)
  BY <1>9, <1>49, <1>68, Joined DEF h9, u9
<1>70. Heard(h10, u10)
  BY <1>10, <1>50, <1>69, Joined DEF h10, u10
<1>71. Heard(h11, u11)
  BY <1>11, <1>51, <1>70, Joined DEF h11, u11
<1>72. Heard(h12, u12)
  BY <1>12, <1>52, <1>71, Joined DEF h12, u12
<1>73. Heard(h13, u13)
  BY <1>13, <1>53, <1>72, Joined DEF h13, u13
<1>74. Heard(h14, u14)
  BY <1>14, <1>54, <1>73, Joined DEF h14, u14
<1> QED BY <1>74 DEF Families, h1, h2, h3, h4, h5, h6, h7, h8, h9, h10, h11, h12, h13, h14

\* When no family speaks there is one fair candidate.
LEMMA FallbackFair == ASSUME NEW r, Readable(r) PROVE \E f : Fallback(r) = <<f>> /\ Fair(f)
<1> DEFINE isLong == ~Bearish(r)
           score == Score(3000, Alignment(r), VolumeConfirmation(r), Agrees(r.macd, isLong), Agrees(r.slope, isLong), 0)
           Made(signal, setup, up, status) == Composed(r, signal, setup, up, status, score, 0)
           hold == <<"trend", "hold", "continuation">>
           watch == <<"breakdown", "watch">>
           wait == <<"range", "reset">>
           rising == TRUE
           falling == FALSE
<1>1. score \in Points
  <2> DEFINE macd == Agrees(r.macd, isLong)
             slope == Agrees(r.slope, isLong)
             base == 3000
             bonus == 0
  <2>1. macd \in BOOLEAN /\ slope \in BOOLEAN /\ base \in Int /\ bonus \in Int
    <3>1. r.macd \in Int /\ r.slope \in Int
      BY DEF Readable
    <3>2. CASE isLong
      BY <3>1, <3>2 DEF Agrees
    <3>3. CASE ~isLong
      BY <3>1, <3>3 DEF Agrees
    <3> QED BY <3>2, <3>3
  <2> HIDE DEF macd, slope, base, bonus
  <2>2. Score(base, Alignment(r), VolumeConfirmation(r), macd, slope, bonus) \in Points
    BY <2>1, Numbers
  <2> QED BY <2>2 DEF macd, slope, base, bonus
<1> HIDE DEF score
<1>2. \/ Fallback(r) = <<Made("HOLD", hold, rising, "active")>>
      \/ Fallback(r) = <<Made("WATCH", watch, falling, "active")>>
      \/ Fallback(r) = <<Made("WAIT", wait, rising, "invalidated")>>
  <2>1. Bullish(r) => ~Bearish(r)
    BY DEF Bullish, Bearish, Readable
  <2> DEFINE a == <<Made("HOLD", hold, rising, "active")>>
             b == <<Made("WATCH", watch, falling, "active")>>
             c == <<Made("WAIT", wait, rising, "invalidated")>>
  <2>2. Fallback(r) = CASE Bullish(r) -> a [] Bearish(r) -> b [] OTHER -> c
    BY DEF Fallback, score
  <2> HIDE DEF a, b, c
  <2>3. Fallback(r) \in {a, b, c}
    <3>1. CASE Bullish(r)
      BY <2>1, <2>2, <3>1
    <3>2. CASE Bearish(r)
      BY <2>1, <2>2, <3>2
    <3>3. CASE ~Bullish(r) /\ ~Bearish(r)
      BY <2>2, <3>3
    <3> QED BY <3>1, <3>2, <3>3
  <2> QED BY <2>3 DEF a, b, c
<1>3. Called("HOLD", hold, rising) /\ Called("WATCH", watch, falling) /\ Called("WAIT", wait, rising) /\ rising \in BOOLEAN /\ falling \in BOOLEAN
      /\ 0 \in Nat
  BY NamedFallbacks
<1> HIDE DEF hold, watch, wait, rising, falling
<1>4. Fair(Made("HOLD", hold, rising, "active"))
  BY <1>1, <1>3, ComposedFair
<1>5. Fair(Made("WATCH", watch, falling, "active"))
  BY <1>1, <1>3, ComposedFair
<1>6. Fair(Made("WAIT", wait, rising, "invalidated"))
  BY <1>1, <1>3, ComposedFair
<1> HIDE DEF Made
<1> QED BY <1>2, <1>4, <1>5, <1>6

\* Classified finds a best candidate: scores are bounded, so there is a greatest, and a
\* first that has it.
LEMMA BestOf ==
    ASSUME NEW s, NEW S, s \in Seq(S), s # <<>>, \A i \in DOMAIN s : s[i].score \in Points
    PROVE  \A i \in DOMAIN s : s[i].score <= Classified(s).score
<1> DEFINE short == {10000 - s[i].score : i \in DOMAIN s}
<1>1. \A i \in DOMAIN s : s[i].score \in Int /\ 10000 - s[i].score \in Nat
  <2>1. \A x \in Points : x \in Int /\ 10000 - x \in Nat
    BY PointsBounds
  <2> QED BY <2>1
<1>2. DOMAIN s \subseteq Nat /\ DOMAIN s # {}
  OBVIOUS
<1>3. short \subseteq Nat /\ short # {}
  BY <1>1, <1>2
<1>4. PICK m \in short : \A k \in short : m <= k
  <2> HIDE DEF short
  <2>1. Min(short) \in short /\ \A k \in short : Min(short) <= k
    BY <1>3, LeastOf
  <2> QED BY <2>1
<1>5. PICK top \in DOMAIN s : m = 10000 - s[top].score
  BY <1>4
<1>6. \A j \in DOMAIN s : s[j].score <= s[top].score
  <2> SUFFICES ASSUME NEW j \in DOMAIN s PROVE s[j].score <= s[top].score
    OBVIOUS
  <2>1. 10000 - s[top].score <= 10000 - s[j].score
    BY <1>4, <1>5
  <2> QED BY <1>1, <2>1
<1> DEFINE best == {i \in DOMAIN s : s[i].score = s[top].score}
<1>7. PICK first \in best : \A k \in best : first <= k
  <2>1. best \in SUBSET Nat /\ top \in best
    BY <1>2
  <2> HIDE DEF best
  <2>2. best # {}
    BY <2>1
  <2>3. Min(best) \in best /\ \A k \in best : Min(best) <= k
    BY <2>1, <2>2, LeastOf
  <2> QED BY <2>3
<1>8. \A j \in 1..(first - 1) : s[j].score < s[first].score
  <2> SUFFICES ASSUME NEW j \in 1..(first - 1) PROVE s[j].score < s[first].score
    OBVIOUS
  <2>1. j \in DOMAIN s /\ ~(first <= j)
    OBVIOUS
  <2>2. s[j].score # s[top].score
    BY <1>7, <2>1
  <2> QED BY <1>1, <1>6, <1>7, <2>1, <2>2
<1> DEFINE Best(i) == /\ \A j \in DOMAIN s : s[j].score <= s[i].score
                      /\ \A j \in 1..(i - 1) : s[j].score < s[i].score
           pick == CHOOSE i \in DOMAIN s : Best(i)
<1>9. pick \in DOMAIN s /\ Best(pick)
  <2>1. first \in DOMAIN s /\ Best(first)
    BY <1>6, <1>7, <1>8
  <2> HIDE DEF Best
  <2> QED BY <2>1
<1>10. Classified(s) = s[pick]
  BY DEF Classified
<1> HIDE DEF pick
<1> QED BY <1>9, <1>10

\* candidate_setups, for every bar on which it runs: there is a candidate, no setup is
\* found twice, each is traded on the side its name says (that of a family's whatever
\* the series shows when it is tested) and with its levels in order,
\* as computed and, for an open ladder, as displayed, and the one shown has the best
\* score; HOLD, WAIT and invalidated states appear alone.
THEOREM SetupsAreSound == \A r : Readable(r) => SetupsSound(r)
<1> SUFFICES ASSUME NEW r, Readable(r) PROVE SetupsSound(r)
  OBVIOUS
<1> DEFINE found == CandidateSetups(r, <<>>)
<1>1. found = IF Families(r) = <<>> THEN Fallback(r) ELSE Families(r)
  BY DEF CandidateSetups, Families, Readable
<1>2. PICK words : Heard(Families(r), words)
  BY AllHeard
<1> HIDE DEF found
<1>3. /\ found # <<>>
      /\ \E S : found \in Seq(S)
      /\ \A i \in DOMAIN found : Fair(found[i])
      /\ \A i, j \in DOMAIN found : found[i].setup = found[j].setup => i = j
      /\ \A i \in DOMAIN found : found[i].signal \in {"HOLD", "WAIT"} \/ found[i].status # "active" => Len(found) = 1
  <2>1. CASE Families(r) = <<>>
    <3>1. PICK f : found = <<f>> /\ Fair(f)
      BY <1>1, <2>1, FallbackFair
    <3>2. found \in Seq({f}) /\ Len(found) = 1 /\ DOMAIN found = 1..1 /\ found[1] = f
      BY <3>1
    <3>3. \A i \in DOMAIN found : i = 1
      BY <3>2
    <3> QED BY <3>1, <3>2, <3>3
  <2>2. CASE Families(r) # <<>>
    <3>1. found = Families(r)
      BY <1>1, <2>2
    <3>2. \A i, j \in DOMAIN found : found[i].setup = found[j].setup => i = j
      BY <1>2, <3>1 DEF Heard
    <3>3. \A i \in DOMAIN found : Spoken(found[i], words)
      BY <1>2, <3>1 DEF Heard
    <3> QED BY <1>2, <2>2, <3>1, <3>2, <3>3 DEF Heard, Spoken
  <2> QED BY <2>1, <2>2
<1>4. \A i \in DOMAIN found : found[i].score <= Classified(found).score
  BY <1>3, BestOf DEF Fair
<1>5. \A i \in DOMAIN found :
         LET f == found[i] IN
         /\ f.direction = DirectionForSetup(f.setup, f.direction)
         /\ f.signal \in {"HOLD", "WAIT"} \/ \A side \in {"long", "short"} :
               f.direction = DirectionForSetup(f.setup, side)
         /\ InOrder(f.levels, f.direction = "long")
         /\ Has(f.setup, "meanreversion") \/ InOrder(Displayed(f.levels), f.direction = "long")
         /\ f.signal = "BUY_ZONE" => f.direction = "long"
         /\ f.signal = "SELL" => f.direction = "short"
         /\ (f.signal \in {"BUY_ZONE", "SELL"} /\ ~Has(f.setup, "meanreversion")) =>
               2 * Size(f.levels.targets[1] - f.levels.reference) >= 3 * Size(f.levels.reference - f.levels.stop)
  BY <1>3 DEF Fair
<1> QED BY <1>3, <1>4, <1>5 DEF SetupsSound, found

-----------------------------------------------------------------------------
(***************************************************************************)
(* The backtest behind a signal and the confidence drawn from it, for      *)
(* every ladder, every series of bars and every sample of trades.          *)
(***************************************************************************)
\* What derive_confidence reads of a bar, and a sample of trades.
Observed == [signal : STRING, alignment : Int, volume : Int, score : Int]
Sample == [trades : Nat, wins : Nat, sum : Int]

\* The sum of outcomes is a number.
LEMMA TotalIsInt == ASSUME NEW outcomes \in Seq(Int) PROVE Total(outcomes) \in Int
<1> DEFINE n == Len(outcomes)
           Folds(f) == f = [s \in SUBSET DOMAIN outcomes |->
                              IF s = {} THEN 0 ELSE f[s \ {Max(s)}] + outcomes[Max(s)]]
           total == CHOOSE f : Folds(f)
<1>1. Total(outcomes) = total[DOMAIN outcomes]
  BY DEF Total, FoldLeft, MapThenFoldSet
<1>2. n \in Nat /\ DOMAIN outcomes = 1..n /\ outcomes \in [1..n -> Int]
  BY Sequence
<1>3. \A f : Folds(f) <=> Summing(n, outcomes, f)
  BY <1>2 DEF Summing
<1> HIDE DEF n
<1>4. Folds(total)
  <2>1. \E f : Folds(f)
    <3> HIDE DEF Folds
    <3> QED BY <1>2, <1>3, SumsExist
  <2> QED BY <2>1
<1> HIDE DEF total, Folds
<1>5. total[1..n] \in Int
  <2>1. PICK run \in [0..n -> Int] : run[n] = total[1..n]
    <3>1. \E run \in [0..n -> Int] : AddsUp(n, outcomes, total, run)
      BY <1>2, <1>3, <1>4, SumRuns
    <3> QED BY <3>1 DEF AddsUp
  <2> QED BY <1>2, <2>1
<1> QED BY <1>1, <1>2, <1>5

\* A sample says a number on each count, and its mean R is held to one either way.
LEMMA EvidenceNumbers ==
    ASSUME NEW s, s.trades \in Nat, s.wins \in Nat, s.sum \in Int, NEW prior \in Nat
    PROVE  Edge(s, prior) \in Int /\ MeanR(s) \in Int
<1>1. CASE s.trades = 0
  BY <1>1 DEF Edge, MeanR
<1>2. CASE s.trades # 0
  <2> DEFINE a == 5000 * (2 * s.wins - s.trades)
             b == s.trades + prior
             m == (s.sum * 10000) \div s.trades
  <2>1. a \in Int /\ b \in Nat \ {0}
    BY <1>2
  <2>2. Edge(s, prior) = a \div b
    BY <1>2 DEF Edge
  <2>3. s.sum * 10000 \in Int /\ s.trades \in Nat \ {0}
    BY <1>2
  <2>4. m \in Int
    BY <2>3, Quotient
  <2> HIDE DEF m
  <2>5. MeanR(s) = Most(-10000, Least(10000, m))
    BY <1>2 DEF MeanR, m
  <2>6. MeanR(s) \in Int
    BY <2>4, <2>5 DEF Most, Least
  <2> HIDE DEF a, b
  <2>7. a \div b \in Int
    BY <2>1, Quotient
  <2> QED BY <2>2, <2>6, <2>7
<1> QED BY <1>1, <1>2

\* A further win raises the edge, and a sample twice the size is worth no less when
\* half of it or more was won; its mean is the same.
LEMMA EdgeRises ==
    ASSUME NEW s, NEW t, s.trades \in Nat \ {0}, s.wins \in Nat, t.trades = s.trades,
           t.wins = s.wins + 1, NEW prior \in Nat
    PROVE  Edge(s, prior) <= Edge(t, prior)
<1> DEFINE a == 5000 * (2 * s.wins - s.trades)
           c == 5000 * (2 * t.wins - t.trades)
           b == s.trades + prior
<1>1. a \in Int /\ c \in Int /\ a <= c /\ b \in Nat \ {0}
  OBVIOUS
<1>2. Edge(s, prior) = a \div b /\ Edge(t, prior) = c \div b
  BY DEF Edge
<1> HIDE DEF a, b, c
<1> QED BY <1>1, <1>2, QuotientRises

\* A win rate of one half or more earns no less when twice the trades show it.
LEMMA EdgeOfMore ==
    ASSUME NEW s, NEW t, s.trades \in Nat \ {0}, s.wins \in Nat, 2 * s.wins >= s.trades,
           t.trades = 2 * s.trades, t.wins = 2 * s.wins, NEW prior \in Nat
    PROVE  Edge(s, prior) <= Edge(t, prior)
<1> DEFINE a == 5000 * (2 * s.wins - s.trades)
           b == s.trades + prior
           q == a \div b
<1>1. a \in Nat /\ b \in Nat \ {0} /\ b + s.trades \in Nat \ {0}
  OBVIOUS
<1>2. Edge(s, prior) = q
  BY DEF Edge
<1>3. Edge(t, prior) = (2 * a) \div (b + s.trades)
  <2>1. 5000 * (2 * t.wins - t.trades) = 2 * a /\ t.trades + prior = b + s.trades /\ ~(t.trades <= 0)
    OBVIOUS
  <2> HIDE DEF a, b
  <2> QED BY <2>1 DEF Edge
<1>4. b - s.trades \in Nat
  OBVIOUS
<1> HIDE DEF a, b
<1>5. q \in Int /\ q * b <= a
  BY <1>1, Quotient
<1>6. q \in Nat
  <2>1. 0 * b <= a
    BY <1>1
  <2>2. 0 <= a \div b
    BY <1>1, <2>1, QuotientAtLeast
  <2> QED BY <1>5, <2>2
<1> HIDE DEF q
<1>7. q * (b + s.trades) <= 2 * a
  <2> DEFINE d == b - s.trades
  <2>1. d \in Nat /\ b + s.trades = 2 * b - d
    BY <1>1, <1>4
  <2> HIDE DEF d
  <2>2. q * d \in Nat /\ q * b \in Int /\ q * (2 * b - d) = 2 * (q * b) - q * d
    BY <1>1, <1>6, <2>1
  <2>3. q * (2 * b - d) <= 2 * a
    BY <1>1, <1>5, <2>2
  <2> QED BY <2>1, <2>3
<1>8. q <= (2 * a) \div (b + s.trades)
  <2>1. 2 * a \in Int
    BY <1>1
  <2> DEFINE x == 2 * a
             y == b + s.trades
  <2>2. x \in Int /\ y \in Nat \ {0} /\ q * y <= x
    BY <1>1, <1>7, <2>1
  <2> HIDE DEF x, y
  <2>3. q <= x \div y
    BY <1>6, <2>2, QuotientAtLeast
  <2> QED BY <2>3 DEF x, y
<1> QED BY <1>2, <1>3, <1>8
\* Twice the sum of twice the trades is the same mean.
LEMMA MeanOfMore ==
    ASSUME NEW s, NEW t, s.trades \in Nat \ {0}, s.sum \in Int,
           t.trades = 2 * s.trades, t.sum = 2 * s.sum
    PROVE  MeanR(t) = MeanR(s)
<1> DEFINE a == s.sum * 10000
           b == s.trades
           q == a \div b
           p == (2 * a) \div (2 * b)
<1>1. a \in Int /\ b \in Nat \ {0} /\ 2 * a \in Int /\ 2 * b \in Nat \ {0}
  OBVIOUS
<1>2. MeanR(s) = Most(-10000, Least(10000, q))
  BY DEF MeanR
<1>3. MeanR(t) = Most(-10000, Least(10000, p))
  <2>1. t.sum * 10000 = 2 * a /\ t.trades = 2 * b /\ t.trades # 0
    OBVIOUS
  <2> HIDE DEF a, b
  <2> QED BY <2>1 DEF MeanR
<1> HIDE DEF a, b
<1>4. q \in Int /\ q * b <= a /\ a < (q + 1) * b
  BY <1>1, Quotient
<1> DEFINE x == 2 * a
           y == 2 * b
<1>5. p \in Int /\ p * y <= x /\ x < (p + 1) * y
  <2>1. x \in Int /\ y \in Nat \ {0}
    BY <1>1
  <2> HIDE DEF x, y
  <2>2. x \div y \in Int /\ (x \div y) * y <= x /\ x < (x \div y + 1) * y
    BY <2>1, Quotient
  <2> QED BY <2>2 DEF x, y
<1> HIDE DEF p, q
<1>6. q <= p
  <2>1. q * y = 2 * (q * b) /\ q * b \in Int
    BY <1>1, <1>4
  <2>2. q * y <= x
    BY <1>1, <1>4, <2>1
  <2>3. x \in Int /\ y \in Nat \ {0}
    BY <1>1
  <2> HIDE DEF x, y
  <2>4. q <= x \div y
    BY <1>4, <2>2, <2>3, QuotientAtLeast
  <2> QED BY <2>4 DEF x, y, p
<1>7. p <= q
  <2>1. p * y = 2 * (p * b) /\ p * b \in Int
    BY <1>1, <1>5
  <2>2. p * b <= a
    BY <1>1, <1>5, <2>1
  <2>3. p <= a \div b
    BY <1>1, <1>5, <2>2, QuotientAtLeast
  <2> QED BY <2>3 DEF q
<1>8. p = q
  BY <1>4, <1>5, <1>6, <1>7
<1> QED BY <1>2, <1>3, <1>8

\* What a setup's history adds to the score.
Evidence(backtest, pooled, minimum) ==
    IF pooled.trades >= minimum
    THEN 32 * Edge(pooled, minimum) + 10 * MeanR(pooled)
    ELSE 20 * Edge(backtest, minimum) + 8 * MeanR(backtest) - 80000
Scored(state, evidence) ==
    10000 * (CASE state.signal = "WAIT" -> 42 [] state.signal \in {"HOLD", "WATCH"} -> 52 [] OTHER -> 58)
    + 1400 * state.alignment + 800 * state.volume + 18 * (state.score - 5000) + evidence
Shown(score, validated) ==
    Most(20, Least(89, ((IF validated THEN score ELSE Least(score, 620000)) + 5000) \div 10000))

\* The confidence shown is the score of setup and evidence, capped unless validated, rounded and clamped.
LEMMA ConfidenceShown ==
    ASSUME NEW state, NEW b, NEW p, NEW minimum
    PROVE  DeriveConfidence(state, b, p, minimum) = Shown(Scored(state, Evidence(b, p, minimum)), b.validated)
BY DEF DeriveConfidence, Shown, Scored, Evidence

\* What is shown lies between 20 and 89, above 62 only when validated, and rises with the score.
LEMMA ShownRises ==
    ASSUME NEW a \in Int, NEW c \in Int, a <= c, NEW v \in BOOLEAN
    PROVE  Shown(a, v) \in 20..89 /\ (Shown(a, v) > 62 => v) /\ Shown(a, v) <= Shown(c, v)
<1> DEFINE Capped(x) == IF v THEN x ELSE Least(x, 620000)
           Round(x) == (Capped(x) + 5000) \div 10000
<1>1. Capped(a) + 5000 \in Int /\ Capped(c) + 5000 \in Int /\ Capped(a) + 5000 <= Capped(c) + 5000
  BY DEF Least
<1>2. ~v => Capped(a) + 5000 <= 625000
  BY DEF Least
<1>3. Shown(a, v) = Most(20, Least(89, Round(a))) /\ Shown(c, v) = Most(20, Least(89, Round(c)))
  BY DEF Shown
<1> HIDE DEF Capped
<1>4. Round(a) \in Int /\ Round(c) \in Int /\ Round(a) <= Round(c)
  BY <1>1, Quotient, QuotientRises
<1>5. ~v => Round(a) <= 62
  BY <1>1, <1>2
<1> HIDE DEF Round
<1> QED BY <1>3, <1>4, <1>5 DEF Most, Least

\* The score is an integer, and rises with the evidence.
LEMMA ScoreRises ==
    ASSUME NEW state \in Observed, NEW e \in Int, NEW f \in Int, e <= f
    PROVE  Scored(state, e) \in Int /\ Scored(state, f) \in Int /\ Scored(state, e) <= Scored(state, f)
<1>1. state.alignment \in Int /\ state.volume \in Int /\ state.score \in Int
  BY DEF Observed
<1> DEFINE base == CASE state.signal = "WAIT" -> 42 [] state.signal \in {"HOLD", "WATCH"} -> 52 [] OTHER -> 58
<1>2. base \in Int
  OBVIOUS
<1>3. \A x \in Int : Scored(state, x) = 10000 * base + 1400 * state.alignment + 800 * state.volume
                                         + 18 * (state.score - 5000) + x
  BY DEF Scored
<1> HIDE DEF base
<1> QED BY <1>1, <1>2, <1>3

\* A sample of trades.
LEMMA EvidenceIsInt ==
    ASSUME NEW b, b.trades \in Nat, b.wins \in Nat, b.sum \in Int,
           NEW p, p.trades \in Nat, p.wins \in Nat, p.sum \in Int, NEW minimum \in Nat
    PROVE  Evidence(b, p, minimum) \in Int
<1>1. Edge(b, minimum) \in Int /\ MeanR(b) \in Int /\ Edge(p, minimum) \in Int /\ MeanR(p) \in Int
  BY EvidenceNumbers
<1> QED BY <1>1 DEF Evidence

\* The ranks of the interval leave out a twentieth on either side at most.
LEMMA RanksCover ==
    ASSUME NEW n \in Nat
    PROVE  10 * (UpperRank(n) - LowerRank(n)) >= 9 * (n + 1)
BY DEF UpperRank, LowerRank
\* What run_backtest draws from outcomes is a sample, validated only by a test that
\* is large enough and made money.
LEMMA BacktestSample ==
    ASSUME NEW outcomes \in Seq(Int), NEW share, NEW minimum, NEW b, b = BacktestOf(outcomes, share, minimum)
    PROVE  /\ b.trades \in Nat /\ b.wins \in Nat /\ b.sum \in Int /\ b.validated \in BOOLEAN
           /\ b.validated => b.tested >= minimum /\ Total(OutOfSample(outcomes, share)) > 0
<1>1. b.trades = Len(outcomes) /\ b.wins = Wins(outcomes) /\ b.sum = Total(outcomes)
      /\ b.tested = (IF outcomes = <<>> THEN 0 ELSE Len(OutOfSample(outcomes, share)))
      /\ b.validated = Validated(outcomes, share, minimum)
  BY DEF BacktestOf
<1>2. Len(outcomes) \in Nat /\ Total(outcomes) \in Int /\ DOMAIN outcomes = 1..Len(outcomes)
  BY Sequence, TotalIsInt
<1>3. Wins(outcomes) \in Nat
  <2> DEFINE won == {i \in DOMAIN outcomes : outcomes[i] > 0}
  <2>1. IsFiniteSet(1..Len(outcomes)) /\ won \subseteq 1..Len(outcomes)
    BY <1>2, FS_Interval
  <2>2. Cardinality(won) \in Nat
    BY <2>1, FS_Subset, FS_CardinalityType
  <2> QED BY <2>2 DEF Wins
<1>4. Validated(outcomes, share, minimum) \in BOOLEAN
  BY DEF Validated
<1>5. Validated(outcomes, share, minimum) =>
         outcomes # <<>> /\ Len(OutOfSample(outcomes, share)) >= minimum
         /\ Total(OutOfSample(outcomes, share)) > 0
  BY DEF Validated
<1> QED BY <1>1, <1>2, <1>3, <1>4, <1>5

\* The confidence drawn from any outcomes and any pooled sample keeps its promise:
\* between 20 and 89, above 62 only with a validated test, never lower for one more
\* win or for twice the same evidence, no break called both ways, and ranks that
\* cover nine tenths (derive_confidence, derive_composite_flags, conformal_interval).
THEOREM ConfidenceIsEarned ==
    \A state \in Observed, outcomes \in Seq(Int), share \in Nat, minimum \in Nat, pooled \in Sample :
        ConfidenceSound(state, outcomes, share, minimum, pooled)
<1> SUFFICES ASSUME NEW state \in Observed, NEW outcomes \in Seq(Int), NEW share,
                    NEW minimum \in Nat, NEW pooled \in Sample
             PROVE  ConfidenceSound(state, outcomes, share, minimum, pooled)
  OBVIOUS
<1> DEFINE backtest == BacktestOf(outcomes, share, minimum)
           better == [pooled EXCEPT !.wins = @ + 1]
           larger == [trades |-> 2 * pooled.trades, wins |-> 2 * pooled.wins, sum |-> 2 * pooled.sum]
           flags == CompositeFlags(TRUE, pooled, minimum, 0, 0)
           Now(p) == DeriveConfidence(state, backtest, p, minimum)
           Says(p) == Evidence(backtest, p, minimum)
<1>1. pooled.trades \in Nat /\ pooled.wins \in Nat /\ pooled.sum \in Int
  BY DEF Sample
<1>2. better.trades = pooled.trades /\ better.wins = pooled.wins + 1 /\ better.sum = pooled.sum
  BY DEF Sample
<1>3. larger.trades = 2 * pooled.trades /\ larger.wins = 2 * pooled.wins /\ larger.sum = 2 * pooled.sum
  OBVIOUS
<1>4. /\ backtest.trades \in Nat /\ backtest.wins \in Nat /\ backtest.sum \in Int /\ backtest.validated \in BOOLEAN
      /\ backtest.validated => backtest.tested >= minimum /\ Total(OutOfSample(outcomes, share)) > 0
  BY BacktestSample
<1> HIDE DEF backtest, better, larger
<1>5. /\ better.trades \in Nat /\ better.wins \in Nat /\ better.sum \in Int
      /\ larger.trades \in Nat /\ larger.wins \in Nat /\ larger.sum \in Int
  BY <1>1, <1>2, <1>3
<1>6. Says(pooled) \in Int /\ Says(better) \in Int /\ Says(larger) \in Int
  BY <1>1, <1>4, <1>5, EvidenceIsInt
<1>7. ASSUME NEW p, Says(p) \in Int, Says(pooled) <= Says(p)
      PROVE  Now(pooled) \in 20..89 /\ (Now(pooled) > 62 => backtest.validated) /\ Now(p) >= Now(pooled)
  <2> DEFINE a == Scored(state, Says(pooled))
             c == Scored(state, Says(p))
             v == backtest.validated
  <2>1. a \in Int /\ c \in Int /\ a <= c
    <3> HIDE DEF Says
    <3> QED BY <1>6, <1>7, ScoreRises
  <2>2. Now(pooled) = Shown(a, v) /\ Now(p) = Shown(c, v)
    BY ConfidenceShown
  <2>3. v \in BOOLEAN
    BY <1>4
  <2> HIDE DEF a, c, v, Now
  <2>4. Shown(a, v) \in 20..89 /\ (Shown(a, v) > 62 => v) /\ Shown(a, v) <= Shown(c, v)
    BY <2>1, <2>3, ShownRises
  <2>5. Shown(c, v) \in 20..89
    <3>1. c <= c
      BY <2>1
    <3> QED BY <2>1, <2>3, <3>1, ShownRises
  <2> QED BY <2>2, <2>4, <2>5 DEF v
<1>8. Now(pooled) \in 20..89 /\ (Now(pooled) > 62 => backtest.validated)
  <2> HIDE DEF Says, Now
  <2> QED BY <1>6, <1>7
<1>9. ASSUME pooled.wins < pooled.trades PROVE Now(better) >= Now(pooled)
  <2>1. Says(pooled) <= Says(better)
    <3>1. CASE pooled.trades >= minimum
      <4>1. pooled.trades \in Nat \ {0}
        BY <1>1, <1>9
      <4>2. Edge(pooled, minimum) <= Edge(better, minimum)
        BY <1>1, <1>2, <4>1, EdgeRises
      <4>3. MeanR(better) = MeanR(pooled)
        BY <1>2 DEF MeanR
      <4>4. Edge(pooled, minimum) \in Int /\ MeanR(pooled) \in Int /\ Edge(better, minimum) \in Int
        BY <1>1, <1>5, EvidenceNumbers
      <4> QED BY <1>2, <3>1, <4>2, <4>3, <4>4 DEF Evidence
    <3>2. CASE ~(pooled.trades >= minimum)
      <4>1. Says(better) = Says(pooled)
        BY <1>2, <3>2 DEF Evidence
      <4> QED BY <1>6, <4>1
    <3> QED BY <3>1, <3>2
  <2> HIDE DEF Says, Now
  <2> QED BY <1>6, <1>7, <2>1
<1>10. ASSUME pooled.trades >= minimum, 2 * pooled.wins >= pooled.trades PROVE Now(larger) >= Now(pooled)
  <2>1. Says(pooled) <= Says(larger)
    <3>1. Edge(pooled, minimum) \in Int /\ MeanR(pooled) \in Int
      BY <1>1, EvidenceNumbers
    <3>2. Edge(larger, minimum) \in Int /\ MeanR(larger) \in Int
      BY <1>5, EvidenceNumbers
    <3>3. Edge(pooled, minimum) <= Edge(larger, minimum) /\ MeanR(larger) = MeanR(pooled)
      <4>1. CASE pooled.trades = 0
        BY <1>3, <4>1 DEF Edge, MeanR
      <4>2. CASE pooled.trades # 0
        <5>1. pooled.trades \in Nat \ {0}
          BY <1>1, <4>2
        <5> QED BY <1>1, <1>3, <1>10, <5>1, EdgeOfMore, MeanOfMore
      <4> QED BY <4>1, <4>2
    <3>4. larger.trades >= minimum
      BY <1>1, <1>3, <1>10
    <3> QED BY <1>10, <3>1, <3>2, <3>3, <3>4 DEF Evidence
  <2> HIDE DEF Says, Now
  <2> QED BY <1>6, <1>7, <2>1
<1>11. "follow_through_high" \in flags => "false_break_probability_high" \notin flags
  <2> DEFINE rate == 5000 + Edge(pooled, minimum)
  <2>1. rate \in Int
    BY <1>1, EvidenceNumbers
  <2> HIDE DEF rate
  <2>2. "follow_through_high" \in flags => rate >= 6000
    BY DEF CompositeFlags, rate
  <2>3. "false_break_probability_high" \in flags => rate < 4500
    BY DEF CompositeFlags, rate
  <2> HIDE DEF flags
  <2> QED BY <2>1, <2>2, <2>3
<1>12. \A n \in {Len(outcomes), pooled.trades} : Guaranteed(n) =>
          10 * (UpperRank(n) - LowerRank(n)) >= 9 * (n + 1)
  <2>1. Len(outcomes) \in Nat
    BY Sequence
  <2> QED BY <1>1, <2>1, RanksCover
<1> HIDE DEF flags
<1> QED
  <2>1. ConfidenceSound(state, outcomes, share, minimum, pooled) <=>
          /\ Now(pooled) \in 20..89
          /\ Now(pooled) > 62 => backtest.tested >= minimum /\ Total(OutOfSample(outcomes, share)) > 0
          /\ pooled.wins < pooled.trades => Now(better) >= Now(pooled)
          /\ (pooled.trades >= minimum /\ 2 * pooled.wins >= pooled.trades) => Now(larger) >= Now(pooled)
          /\ "follow_through_high" \in flags => "false_break_probability_high" \notin flags
          /\ \A n \in {Len(outcomes), pooled.trades} : Guaranteed(n) =>
                10 * (UpperRank(n) - LowerRank(n)) >= 9 * (n + 1)
    BY DEF ConfidenceSound, backtest, better, larger, flags
  <2> HIDE DEF Now
  <2> QED BY <1>4, <1>8, <1>9, <1>10, <1>11, <1>12, <2>1

-----------------------------------------------------------------------------
(* The ladder.                                                            *)

\* Three terms are added.
LEMMA ThreeTerms ==
    ASSUME NEW x \in [1..3 -> Int], NEW f, Summing(3, x, f)
    PROVE  f[1..3] = x[1] + x[2] + x[3]
<1> DEFINE n == 3
<1>1. n \in Nat /\ x \in [1..n -> Int] /\ Summing(n, x, f)
  OBVIOUS
<1>2. PICK run \in [0..n -> Int] : AddsUp(n, x, f, run)
  <2> HIDE DEF n
  <2> QED BY <1>1, SumRuns
<1>3. run[1] = run[0] + x[1] /\ run[2] = run[1] + x[2] /\ run[3] = run[2] + x[3]
                  /\ run[0] = 0 /\ run[3] = f[1..3]
  BY <1>2 DEF AddsUp
<1>4. x[1] \in Int /\ x[2] \in Int /\ x[3] \in Int
  OBVIOUS
<1> QED BY <1>2, <1>3, <1>4

\* A rung's share of the position, and what a set of rungs takes and wins.
Candle == {b \in [low : Int, high : Int, close : Int] : b.low <= b.close /\ b.close <= b.high}
TakenBy(i, h) == IF i \in h THEN Weights[i] ELSE 0
WonBy(trade, i, h) == IF i \in h THEN Weights[i] * Gain(trade.entry, trade.targets[i], trade.isLong) ELSE 0
Taken(h) == TakenBy(1, h) + TakenBy(2, h) + TakenBy(3, h)
Won(trade, h) == WonBy(trade, 1, h) + WonBy(trade, 2, h) + WonBy(trade, 3, h)
Rungs(trade) == 1..Least(Len(trade.targets), Len(Weights))
\* A ladder as detection composes it: every target beyond the stop.
Ladders == {t \in [isLong : BOOLEAN, entry : Int, stop : Int, targets : Seq(Int), close : Int] :
              \A i \in DOMAIN t.targets :
                 Gain(t.entry, t.stop, t.isLong) <= Gain(t.entry, t.targets[i], t.isLong)}

\* The weights of the three rungs, which sum to ten tenths.
LEMMA ThreeWeights == Weights[1] = 5 /\ Weights[2] = 3 /\ Weights[3] = 2 /\ Len(Weights) = 3
BY DEF Weights

\* The rungs of a ladder have weights and targets, and what each gains is an integer.
LEMMA LadderNumbers ==
    ASSUME NEW trade \in Ladders
    PROVE  /\ Len(trade.targets) \in Nat /\ DOMAIN trade.targets = 1..Len(trade.targets)
           /\ Rungs(trade) \subseteq 1..3 /\ \A i \in 1..3 : i \in Rungs(trade) <=> i \in DOMAIN trade.targets
           /\ \A i \in Rungs(trade) : trade.targets[i] \in Int /\ Gain(trade.entry, trade.targets[i], trade.isLong) \in Int
           /\ trade.entry \in Int /\ trade.stop \in Int /\ trade.close \in Int /\ trade.isLong \in BOOLEAN
           /\ Gain(trade.entry, trade.stop, trade.isLong) \in Int
<1>1. trade.targets \in Seq(Int) /\ trade.entry \in Int /\ trade.stop \in Int /\ trade.close \in Int /\ trade.isLong \in BOOLEAN
  BY DEF Ladders
<1>2. Len(trade.targets) \in Nat /\ DOMAIN trade.targets = 1..Len(trade.targets)
      /\ \A i \in 1..Len(trade.targets) : trade.targets[i] \in Int
  BY <1>1, Sequence
<1>3. Rungs(trade) \subseteq 1..3 /\ \A i \in 1..3 : i \in Rungs(trade) <=> i \in DOMAIN trade.targets
  BY <1>2, ThreeWeights DEF Rungs, Least
<1>4. \A i \in Rungs(trade) : trade.targets[i] \in Int
  BY <1>2, <1>3
<1> QED BY <1>1, <1>2, <1>3, <1>4 DEF Gain

\* What is taken at some rungs is at most the whole, and the whole only at all three.
LEMMA TakenNumbers ==
    ASSUME NEW trade \in Ladders, NEW h \in SUBSET Rungs(trade)
    PROVE  Taken(h) \in 0..10 /\ Won(trade, h) \in Int /\ (Taken(h) = 10 => h = {1, 2, 3})
<1>1. h \subseteq 1..3
  BY LadderNumbers
<1>2. Taken(h) \in 0..10 /\ (Taken(h) = 10 => 1 \in h /\ 2 \in h /\ 3 \in h)
  BY ThreeWeights DEF Taken, TakenBy
<1>3. WonBy(trade, 1, h) \in Int /\ WonBy(trade, 2, h) \in Int /\ WonBy(trade, 3, h) \in Int
  <2>1. \A i \in Rungs(trade) : Gain(trade.entry, trade.targets[i], trade.isLong) \in Int
    BY LadderNumbers
  <2> QED BY <2>1, ThreeWeights DEF WonBy
<1>4. Won(trade, h) \in Int
  BY <1>3 DEF Won
<1>5. ASSUME 1 \in h, 2 \in h, 3 \in h PROVE h = {1, 2, 3}
  <2>1. 1..3 = {1, 2, 3}
    OBVIOUS
  <2> QED BY <1>1, <1>5, <2>1
<1>6. Taken(h) = 10 => h = {1, 2, 3}
  BY <1>2, <1>5
<1> QED BY <1>2, <1>4, <1>6

\* Taking further rungs adds their weights and their gains.
LEMMA TakenAdds ==
    ASSUME NEW trade \in Ladders, NEW h \in SUBSET Rungs(trade), NEW new \in SUBSET (Rungs(trade) \ h)
    PROVE  Taken(h \cup new) = Taken(h) + Taken(new) /\ Won(trade, h \cup new) = Won(trade, h) + Won(trade, new)
<1>1. h \subseteq 1..3 /\ new \subseteq 1..3
  BY LadderNumbers
<1>2. \A i \in 1..3 : TakenBy(i, h \cup new) = TakenBy(i, h) + TakenBy(i, new)
                      /\ TakenBy(i, h) \in Int /\ TakenBy(i, new) \in Int
  BY ThreeWeights DEF TakenBy
<1>3. \A i \in 1..3 : /\ WonBy(trade, i, h) \in Int /\ WonBy(trade, i, new) \in Int
                      /\ WonBy(trade, i, h \cup new) = WonBy(trade, i, h) + WonBy(trade, i, new)
  <2>1. \A i \in Rungs(trade) : Weights[i] * Gain(trade.entry, trade.targets[i], trade.isLong) \in Int
    BY ThreeWeights, LadderNumbers
  <2> QED BY <2>1 DEF WonBy
<1> QED BY <1>2, <1>3 DEF Taken, Won

\* A sum over the three rungs exists and adds three terms.
LEMMA ThreeSummed ==
    ASSUME NEW x \in [1..3 -> Int]
    PROVE  /\ \E f : Summing(3, x, f)
           /\ \A f : Summing(3, x, f) => f[1..3] = x[1] + x[2] + x[3]
           /\ \A s \in SUBSET (1..3) : s # {} => Max(s) \in 1..3
<1> DEFINE n == 3
<1>1. n \in Nat /\ x \in [1..n -> Int]
  OBVIOUS
<1> HIDE DEF n
<1>2. \E f : Summing(n, x, f)
  BY <1>1, SumsExist
<1>3. \A s \in SUBSET (1..n) : s # {} => Max(s) \in 1..n
  BY <1>1, Greatest
<1>4. \A f : Summing(3, x, f) => f[1..3] = x[1] + x[2] + x[3]
  BY ThreeTerms
<1> QED BY <1>2, <1>3, <1>4 DEF n

\* The folds over the rungs add what a set of them takes,
LEMMA RungsTake ==
    ASSUME NEW new
    PROVE  FoldLeft(LAMBDA sum, i : sum + (IF i \in new THEN Weights[i] ELSE 0), 0, <<1, 2, 3>>) = Taken(new)
<1> DEFINE seq == <<1, 2, 3>>
           Term(s) == (IF seq[Max(s)] \in new THEN Weights[seq[Max(s)]] ELSE 0)
           Folds(f) == f = [s \in SUBSET DOMAIN seq |->
                              IF s = {} THEN 0 ELSE f[s \ {Max(s)}] + Term(s)]
           total == CHOOSE f : Folds(f)
           x == [i \in 1..3 |-> TakenBy(i, new)]
<1>1. FoldLeft(LAMBDA sum, i : sum + (IF i \in new THEN Weights[i] ELSE 0), 0, <<1, 2, 3>>) = total[DOMAIN seq]
  BY DEF FoldLeft, MapThenFoldSet
<1>2. DOMAIN seq = 1..3 /\ \A i \in 1..3 : seq[i] = i
  OBVIOUS
<1>3. x \in [1..3 -> Int]
  BY ThreeWeights DEF TakenBy
<1> HIDE DEF seq
<1>4. \A s \in SUBSET (1..3) : s # {} => Term(s) = x[Max(s)]
  <2>1. \A s \in SUBSET (1..3) : s # {} => Max(s) \in 1..3
    <3> HIDE DEF x
    <3> QED BY <1>3, ThreeSummed
  <2> QED BY <1>2, <2>1 DEF TakenBy
<1>5. \A f : Folds(f) <=> Summing(3, x, f)
  <2> HIDE DEF x, Term
  <2>1. \A f : [s \in SUBSET DOMAIN seq |-> IF s = {} THEN 0 ELSE f[s \ {Max(s)}] + Term(s)]
              = [s \in SUBSET (1..3) |-> IF s = {} THEN 0 ELSE f[s \ {Max(s)}] + x[Max(s)]]
    BY <1>2, <1>4
  <2> QED BY <2>1 DEF Summing
<1>6. (\E f : Summing(3, x, f)) /\ \A f : Summing(3, x, f) => f[1..3] = x[1] + x[2] + x[3]
  <2> HIDE DEF x
  <2> QED BY <1>3, ThreeSummed
<1>7. Folds(total)
  <2>1. \E f : Folds(f)
    <3> HIDE DEF Folds, x
    <3> QED BY <1>5, <1>6
  <2> QED BY <2>1
<1> HIDE DEF total, Folds
<1>8. total[1..3] = x[1] + x[2] + x[3]
  <2> HIDE DEF x
  <2> QED BY <1>5, <1>6, <1>7
<1>9. x[1] = TakenBy(1, new) /\ x[2] = TakenBy(2, new)
      /\ x[3] = TakenBy(3, new)
  OBVIOUS
<1> HIDE DEF x
<1> QED BY <1>1, <1>2, <1>8, <1>9 DEF Taken

\* and what it wins;
LEMMA RungsWin ==
    ASSUME NEW trade \in Ladders, NEW new \in SUBSET Rungs(trade)
    PROVE  FoldLeft(LAMBDA sum, i : sum + (IF i \in new THEN Weights[i] * Gain(trade.entry, trade.targets[i], trade.isLong) ELSE 0), 0, <<1, 2, 3>>) = Won(trade, new)
<1> DEFINE seq == <<1, 2, 3>>
           Term(s) == (IF seq[Max(s)] \in new THEN Weights[seq[Max(s)]] * Gain(trade.entry, trade.targets[seq[Max(s)]], trade.isLong) ELSE 0)
           Folds(f) == f = [s \in SUBSET DOMAIN seq |->
                              IF s = {} THEN 0 ELSE f[s \ {Max(s)}] + Term(s)]
           total == CHOOSE f : Folds(f)
           x == [i \in 1..3 |-> WonBy(trade, i, new)]
<1>1. FoldLeft(LAMBDA sum, i : sum + (IF i \in new THEN Weights[i] * Gain(trade.entry, trade.targets[i], trade.isLong) ELSE 0), 0, <<1, 2, 3>>) = total[DOMAIN seq]
  BY DEF FoldLeft, MapThenFoldSet
<1>2. DOMAIN seq = 1..3 /\ \A i \in 1..3 : seq[i] = i
  OBVIOUS
<1>3. x \in [1..3 -> Int]
  <2>1. \A i \in Rungs(trade) : Weights[i] * Gain(trade.entry, trade.targets[i], trade.isLong) \in Int
    BY ThreeWeights, LadderNumbers
  <2> QED BY <2>1 DEF WonBy
<1> HIDE DEF seq
<1>4. \A s \in SUBSET (1..3) : s # {} => Term(s) = x[Max(s)]
  <2>1. \A s \in SUBSET (1..3) : s # {} => Max(s) \in 1..3
    <3> HIDE DEF x
    <3> QED BY <1>3, ThreeSummed
  <2> QED BY <1>2, <2>1 DEF WonBy
<1>5. \A f : Folds(f) <=> Summing(3, x, f)
  <2> HIDE DEF x, Term
  <2>1. \A f : [s \in SUBSET DOMAIN seq |-> IF s = {} THEN 0 ELSE f[s \ {Max(s)}] + Term(s)]
              = [s \in SUBSET (1..3) |-> IF s = {} THEN 0 ELSE f[s \ {Max(s)}] + x[Max(s)]]
    BY <1>2, <1>4
  <2> QED BY <2>1 DEF Summing
<1>6. (\E f : Summing(3, x, f)) /\ \A f : Summing(3, x, f) => f[1..3] = x[1] + x[2] + x[3]
  <2> HIDE DEF x
  <2> QED BY <1>3, ThreeSummed
<1>7. Folds(total)
  <2>1. \E f : Folds(f)
    <3> HIDE DEF Folds, x
    <3> QED BY <1>5, <1>6
  <2> QED BY <2>1
<1> HIDE DEF total, Folds
<1>8. total[1..3] = x[1] + x[2] + x[3]
  <2> HIDE DEF x
  <2> QED BY <1>5, <1>6, <1>7
<1>9. x[1] = WonBy(trade, 1, new) /\ x[2] = WonBy(trade, 2, new)
      /\ x[3] = WonBy(trade, 3, new)
  OBVIOUS
<1> HIDE DEF x
<1> QED BY <1>1, <1>2, <1>8, <1>9 DEF Won

\* the shares as the property tells them add up likewise.
LEMMA SharesAdd ==
    ASSUME NEW trade \in Ladders, NEW bars, \A i \in 1..3 : Gain(trade.entry, Share(trade, bars, i), trade.isLong) \in Int
    PROVE  FoldLeft(LAMBDA sum, i : sum + Weights[i] * Gain(trade.entry, Share(trade, bars, i), trade.isLong), 0, <<1, 2, 3>>) = 
               5 * Gain(trade.entry, Share(trade, bars, 1), trade.isLong)
               + 3 * Gain(trade.entry, Share(trade, bars, 2), trade.isLong)
               + 2 * Gain(trade.entry, Share(trade, bars, 3), trade.isLong)
<1> DEFINE seq == <<1, 2, 3>>
           Term(s) == Weights[seq[Max(s)]] * Gain(trade.entry, Share(trade, bars, seq[Max(s)]), trade.isLong)
           Folds(f) == f = [s \in SUBSET DOMAIN seq |->
                              IF s = {} THEN 0 ELSE f[s \ {Max(s)}] + Term(s)]
           total == CHOOSE f : Folds(f)
           x == [i \in 1..3 |-> Weights[i] * Gain(trade.entry, Share(trade, bars, i), trade.isLong)]
<1>1. FoldLeft(LAMBDA sum, i : sum + Weights[i] * Gain(trade.entry, Share(trade, bars, i), trade.isLong), 0, <<1, 2, 3>>) = total[DOMAIN seq]
  BY DEF FoldLeft, MapThenFoldSet
<1>2. DOMAIN seq = 1..3 /\ \A i \in 1..3 : seq[i] = i
  OBVIOUS
<1>3. x \in [1..3 -> Int]
  BY ThreeWeights
<1> HIDE DEF seq
<1>4. \A s \in SUBSET (1..3) : s # {} => Term(s) = x[Max(s)]
  <2>1. \A s \in SUBSET (1..3) : s # {} => Max(s) \in 1..3
    <3> HIDE DEF x
    <3> QED BY <1>3, ThreeSummed
  <2> QED BY <1>2, <2>1
<1>5. \A f : Folds(f) <=> Summing(3, x, f)
  <2> HIDE DEF x, Term
  <2>1. \A f : [s \in SUBSET DOMAIN seq |-> IF s = {} THEN 0 ELSE f[s \ {Max(s)}] + Term(s)]
              = [s \in SUBSET (1..3) |-> IF s = {} THEN 0 ELSE f[s \ {Max(s)}] + x[Max(s)]]
    BY <1>2, <1>4
  <2> QED BY <2>1 DEF Summing
<1>6. (\E f : Summing(3, x, f)) /\ \A f : Summing(3, x, f) => f[1..3] = x[1] + x[2] + x[3]
  <2> HIDE DEF x
  <2> QED BY <1>3, ThreeSummed
<1>7. Folds(total)
  <2>1. \E f : Folds(f)
    <3> HIDE DEF Folds, x
    <3> QED BY <1>5, <1>6
  <2> QED BY <2>1
<1> HIDE DEF total, Folds
<1>8. total[1..3] = x[1] + x[2] + x[3]
  <2> HIDE DEF x
  <2> QED BY <1>5, <1>6, <1>7
<1>9. x[1] = Weights[1] * Gain(trade.entry, Share(trade, bars, 1), trade.isLong) /\ x[2] = Weights[2] * Gain(trade.entry, Share(trade, bars, 2), trade.isLong)
      /\ x[3] = Weights[3] * Gain(trade.entry, Share(trade, bars, 3), trade.isLong)
  OBVIOUS
<1> HIDE DEF x
<1> QED BY <1>1, <1>2, <1>8, <1>9, ThreeWeights

\* Where the loop over the bars stands.
Standing(trade) == [remaining : Nat, hit : SUBSET Rungs(trade), result : Int]
\* The rungs a bar reaches for the first time.
Fresh(trade, state, bar) ==
    {i \in Rungs(trade) \ state.hit : Reaches(bar, trade.targets[i], trade.isLong)}

\* What a bar does: nothing once the position is gone, the stop before any rung.
LEMMA BarDoes ==
    ASSUME NEW trade \in Ladders, NEW state \in Standing(trade), NEW bar \in Candle
    PROVE  /\ Bar(trade, state, bar) \in Standing(trade)
           /\ state.remaining = 0 => Bar(trade, state, bar) = state
           /\ state.remaining > 0 /\ Stops(bar, trade.stop, trade.isLong) =>
                /\ Bar(trade, state, bar).remaining = 0 /\ Bar(trade, state, bar).hit = state.hit
                /\ Bar(trade, state, bar).result =
                      state.result + state.remaining * Gain(trade.entry, trade.stop, trade.isLong)
           /\ state.remaining > 0 /\ ~Stops(bar, trade.stop, trade.isLong) =>
                /\ Bar(trade, state, bar).remaining = Most(0, state.remaining - Taken(Fresh(trade, state, bar)))
                /\ Bar(trade, state, bar).hit = state.hit \cup Fresh(trade, state, bar)
                /\ Bar(trade, state, bar).result = state.result + Won(trade, Fresh(trade, state, bar))
<1> DEFINE new == Fresh(trade, state, bar)
           next == Bar(trade, state, bar)
           loss == Gain(trade.entry, trade.stop, trade.isLong)
           rungs == 1..Least(Len(trade.targets), Len(Weights))
           found == {i \in rungs \ state.hit : Reaches(bar, trade.targets[i], trade.isLong)}
           took == FoldLeft(LAMBDA sum, i : sum + (IF i \in found THEN Weights[i] ELSE 0), 0, <<1, 2, 3>>)
           won == FoldLeft(LAMBDA sum, i : sum + (IF i \in found THEN Weights[i] *
                              Gain(trade.entry, trade.targets[i], trade.isLong) ELSE 0), 0, <<1, 2, 3>>)
<1>0. next = CASE state.remaining = 0 -> state
               [] state.remaining > 0 /\ Stops(bar, trade.stop, trade.isLong) ->
                     [state EXCEPT !.remaining = 0, !.result = @ + state.remaining * loss]
               [] OTHER -> [remaining |-> Most(0, state.remaining - took), hit |-> state.hit \cup found,
                            result |-> state.result + won]
  BY DEF Bar
<1> HIDE DEF next
<1>1. state.remaining \in Nat /\ state.hit \subseteq Rungs(trade) /\ state.result \in Int
  BY DEF Standing
<1>2. new \subseteq Rungs(trade) /\ loss \in Int /\ Taken(new) \in 0..10 /\ Won(trade, new) \in Int
  <2>1. new \in SUBSET Rungs(trade)
    BY DEF Fresh
  <2> HIDE DEF new
  <2> QED BY <2>1, LadderNumbers, TakenNumbers
<1>3. CASE state.remaining = 0
  <2>1. next = state
    <3> HIDE DEF took, won, found, loss
    <3> QED BY <1>0, <1>1, <1>3
  <2> QED BY <1>3, <2>1 DEF next
<1>4. CASE state.remaining > 0 /\ Stops(bar, trade.stop, trade.isLong)
  <2>1. next = [state EXCEPT !.remaining = 0, !.result = @ + state.remaining * loss]
    <3> HIDE DEF took, won, found, loss
    <3> QED BY <1>0, <1>1, <1>4
  <2>2. state.remaining * loss \in Int
    BY <1>1, <1>2
  <2> HIDE DEF loss
  <2>3. next = [remaining |-> 0, hit |-> state.hit, result |-> state.result + state.remaining * loss]
    <3>1. state = [remaining |-> state.remaining, hit |-> state.hit, result |-> state.result]
      BY DEF Standing
    <3> QED BY <2>1, <3>1
  <2>4. next \in Standing(trade)
    BY <1>1, <2>2, <2>3 DEF Standing
  <2> QED BY <1>1, <1>4, <2>3, <2>4 DEF next, loss
<1>5. CASE state.remaining > 0 /\ ~Stops(bar, trade.stop, trade.isLong)
  <2>1. next = [remaining |-> Most(0, state.remaining - Taken(new)), hit |-> state.hit \cup new,
                result |-> state.result + Won(trade, new)]
    <3>1. found = new
      BY DEF Fresh, Rungs
    <3> HIDE DEF new, found
    <3>2. took = Taken(found)
      BY RungsTake
    <3>3. won = Won(trade, found)
      <4>1. found \in SUBSET Rungs(trade)
        BY <1>2, <3>1
      <4> QED BY <4>1, RungsWin
    <3> HIDE DEF took, won
    <3>4. next = [remaining |-> Most(0, state.remaining - took), hit |-> state.hit \cup found,
                  result |-> state.result + won]
      <4> HIDE DEF loss
      <4> QED BY <1>0, <1>1, <1>5
    <3> QED BY <3>1, <3>2, <3>3, <3>4
  <2> HIDE DEF new
  <2>2. Most(0, state.remaining - Taken(new)) \in Nat
    BY <1>1, <1>2 DEF Most
  <2>3. next \in Standing(trade)
    BY <1>1, <1>2, <2>1, <2>2 DEF Standing
  <2>4. next.remaining = Most(0, state.remaining - Taken(new)) /\ next.hit = state.hit \cup new
        /\ next.result = state.result + Won(trade, new)
    BY <2>1
  <2> QED BY <1>5, <2>3, <2>4 DEF next, new
<1> QED BY <1>1, <1>3, <1>4, <1>5

-----------------------------------------------------------------------------
(* The first bar that stops the trade, the first that reaches a rung.      *)

StoppedAt(trade, bars) == FirstOf(bars, LAMBDA bar : Stops(bar, trade.stop, trade.isLong))
ReachedAt(trade, bars, i) == FirstOf(bars, LAMBDA bar : Reaches(bar, trade.targets[i], trade.isLong))
LastClose(trade, bars) == IF bars = <<>> THEN trade.close ELSE Last(bars).close

\* The first of the indices in a set, or the one after the last.
LEMMA FirstIndex ==
    ASSUME NEW n \in Nat, NEW S \in SUBSET (1..n), NEW k,
           k = IF S # {} THEN CHOOSE i \in 1..n : i \in S /\ \A j \in 1..(i - 1) : j \notin S ELSE n + 1
    PROVE  /\ k \in 1..(n + 1) /\ (k <= n => k \in S) /\ \A j \in 1..(k - 1) : j \notin S
<1>1. CASE S = {}
  BY <1>1
<1>2. CASE S # {}
  <2>1. S \subseteq Nat
    OBVIOUS
  <2>2. PICK m \in S : \A j \in S : m <= j
    BY <1>2, <2>1, LeastNat
  <2>3. m \in 1..n /\ m \in S /\ \A j \in 1..(m - 1) : j \notin S
    <3>1. m \in 1..n
      OBVIOUS
    <3>2. ASSUME NEW j \in 1..(m - 1), j \in S PROVE FALSE
      <4>1. m <= j
        BY <2>2, <3>2
      <4> QED BY <3>1, <4>1
    <3> QED BY <3>1, <3>2
  <2>4. k \in 1..n /\ k \in S /\ \A j \in 1..(k - 1) : j \notin S
    <3>1. k = CHOOSE i \in 1..n : i \in S /\ \A j \in 1..(i - 1) : j \notin S
      BY <1>2
    <3>2. \E i \in 1..n : i \in S /\ \A j \in 1..(i - 1) : j \notin S
      BY <2>3
    <3> QED BY <3>1, <3>2
  <2> QED BY <2>4
<1> QED BY <1>1, <1>2

\* The bar a trade is stopped at is the first that touches the stop, or one past the last bar.
LEMMA StopIsFirst ==
    ASSUME NEW trade, NEW bars \in Seq(Candle), NEW k, k = StoppedAt(trade, bars)
    PROVE  /\ k \in 1..(Len(bars) + 1)
           /\ k <= Len(bars) => Stops(bars[k], trade.stop, trade.isLong)
           /\ \A j \in 1..(k - 1) : ~Stops(bars[j], trade.stop, trade.isLong)
<1> DEFINE n == Len(bars)
           S == {j \in 1..n : Stops(bars[j], trade.stop, trade.isLong)}
<1>1. n \in Nat /\ DOMAIN bars = 1..n
  BY Sequence
<1>2. k = IF \E i \in DOMAIN bars : Stops(bars[i], trade.stop, trade.isLong)
          THEN CHOOSE i \in DOMAIN bars : Stops(bars[i], trade.stop, trade.isLong)
                          /\ \A j \in 1..(i - 1) : ~Stops(bars[j], trade.stop, trade.isLong)
          ELSE n + 1
  BY DEF StoppedAt, FirstOf
<1> HIDE DEF n
<1>3. \A i \in 1..n : (Stops(bars[i], trade.stop, trade.isLong) /\ \A j \in 1..(i - 1) : ~Stops(bars[j], trade.stop, trade.isLong))
                      <=> (i \in S /\ \A j \in 1..(i - 1) : j \notin S)
  <2> SUFFICES ASSUME NEW i \in 1..n
               PROVE  (Stops(bars[i], trade.stop, trade.isLong) /\ \A j \in 1..(i - 1) : ~Stops(bars[j], trade.stop, trade.isLong))
                      <=> (i \in S /\ \A j \in 1..(i - 1) : j \notin S)
    OBVIOUS
  <2>1. \A j \in 1..(i - 1) : j \in 1..n
    BY <1>1
  <2> QED BY <2>1
<1>4. k = IF S # {} THEN CHOOSE i \in 1..n : i \in S /\ \A j \in 1..(i - 1) : j \notin S ELSE n + 1
  <2>1. (CHOOSE i \in 1..n : Stops(bars[i], trade.stop, trade.isLong) /\ \A j \in 1..(i - 1) : ~Stops(bars[j], trade.stop, trade.isLong))
        = CHOOSE i \in 1..n : i \in S /\ \A j \in 1..(i - 1) : j \notin S
    <3> HIDE DEF S
    <3> QED BY <1>3
  <2>2. (\E i \in 1..n : Stops(bars[i], trade.stop, trade.isLong)) <=> S # {}
    OBVIOUS
  <2> HIDE DEF S
  <2> QED BY <1>1, <1>2, <2>1, <2>2
<1>5. S \in SUBSET (1..n)
  OBVIOUS
<1>6. /\ k \in 1..(n + 1) /\ (k <= n => k \in S) /\ \A j \in 1..(k - 1) : j \notin S
  <2> HIDE DEF S
  <2> QED BY <1>1, <1>4, <1>5, FirstIndex
<1>7. \A j \in 1..(k - 1) : j \in 1..n
  BY <1>1, <1>6
<1> QED BY <1>6, <1>7 DEF n

\* The bar a rung is reached at is the first that touches its target, or one past the last bar.
LEMMA ReachIsFirst ==
    ASSUME NEW trade, NEW bars \in Seq(Candle), NEW rung, NEW k, k = ReachedAt(trade, bars, rung)
    PROVE  /\ k \in 1..(Len(bars) + 1)
           /\ k <= Len(bars) => Reaches(bars[k], trade.targets[rung], trade.isLong)
           /\ \A j \in 1..(k - 1) : ~Reaches(bars[j], trade.targets[rung], trade.isLong)
<1> DEFINE n == Len(bars)
           S == {j \in 1..n : Reaches(bars[j], trade.targets[rung], trade.isLong)}
<1>1. n \in Nat /\ DOMAIN bars = 1..n
  BY Sequence
<1>2. k = IF \E i \in DOMAIN bars : Reaches(bars[i], trade.targets[rung], trade.isLong)
          THEN CHOOSE i \in DOMAIN bars : Reaches(bars[i], trade.targets[rung], trade.isLong)
                          /\ \A j \in 1..(i - 1) : ~Reaches(bars[j], trade.targets[rung], trade.isLong)
          ELSE n + 1
  BY DEF ReachedAt, FirstOf
<1> HIDE DEF n
<1>3. \A i \in 1..n : (Reaches(bars[i], trade.targets[rung], trade.isLong) /\ \A j \in 1..(i - 1) : ~Reaches(bars[j], trade.targets[rung], trade.isLong))
                      <=> (i \in S /\ \A j \in 1..(i - 1) : j \notin S)
  <2> SUFFICES ASSUME NEW i \in 1..n
               PROVE  (Reaches(bars[i], trade.targets[rung], trade.isLong) /\ \A j \in 1..(i - 1) : ~Reaches(bars[j], trade.targets[rung], trade.isLong))
                      <=> (i \in S /\ \A j \in 1..(i - 1) : j \notin S)
    OBVIOUS
  <2>1. \A j \in 1..(i - 1) : j \in 1..n
    BY <1>1
  <2> QED BY <2>1
<1>4. k = IF S # {} THEN CHOOSE i \in 1..n : i \in S /\ \A j \in 1..(i - 1) : j \notin S ELSE n + 1
  <2>1. (CHOOSE i \in 1..n : Reaches(bars[i], trade.targets[rung], trade.isLong) /\ \A j \in 1..(i - 1) : ~Reaches(bars[j], trade.targets[rung], trade.isLong))
        = CHOOSE i \in 1..n : i \in S /\ \A j \in 1..(i - 1) : j \notin S
    <3> HIDE DEF S
    <3> QED BY <1>3
  <2>2. (\E i \in 1..n : Reaches(bars[i], trade.targets[rung], trade.isLong)) <=> S # {}
    OBVIOUS
  <2> HIDE DEF S
  <2> QED BY <1>1, <1>2, <2>1, <2>2
<1>5. S \in SUBSET (1..n)
  OBVIOUS
<1>6. /\ k \in 1..(n + 1) /\ (k <= n => k \in S) /\ \A j \in 1..(k - 1) : j \notin S
  <2> HIDE DEF S
  <2> QED BY <1>1, <1>4, <1>5, FirstIndex
<1>7. \A j \in 1..(k - 1) : j \in 1..n
  BY <1>1, <1>6
<1> QED BY <1>6, <1>7 DEF n

-----------------------------------------------------------------------------
(* The loop over the bars.                                                 *)

\* The loop is a run of standings, one for each bar.
Start == [remaining |-> 10, hit |-> {}, result |-> 0]
Looped(trade, bars, run) ==
    /\ run \in [0..Len(bars) -> Standing(trade)] /\ run[0] = Start
    /\ \A k \in 1..Len(bars) : run[k] = Bar(trade, run[k - 1], bars[k])

\* The loop of the simulation is such a run, from the start to its result.
LEMMA LadderRuns ==
    ASSUME NEW trade \in Ladders, NEW bars \in Seq(Candle)
    PROVE  \E run : /\ Looped(trade, bars, run)
                    /\ run[Len(bars)] = FoldLeft(LAMBDA state, bar : Bar(trade, state, bar), Start, bars)
<1> DEFINE n == Len(bars)
           V == Standing(trade)
           base == Start
           Folds(f) == f = [s \in SUBSET DOMAIN bars |->
                              IF s = {} THEN base ELSE Bar(trade, f[s \ {Max(s)}], bars[Max(s)])]
           total == CHOOSE f : Folds(f)
           step == [p \in V \X (1..n) |-> Bar(trade, p[1], bars[p[2]])]
<1>1. FoldLeft(LAMBDA state, bar : Bar(trade, state, bar), base, bars) = total[DOMAIN bars]
  BY DEF FoldLeft, MapThenFoldSet
<1>2. n \in Nat /\ DOMAIN bars = 1..n /\ \A i \in 1..n : bars[i] \in Candle
  BY Sequence
<1>3. base \in V
  BY DEF Start, Standing
<1>4. \A v \in V, i \in 1..n : Bar(trade, v, bars[i]) \in V
  BY <1>2, BarDoes
<1>5. step \in [V \X (1..n) -> V] /\ \A v \in V, i \in 1..n : step[<<v, i>>] = Bar(trade, v, bars[i])
  <2> HIDE DEF V, n
  <2> QED BY <1>4
<1> HIDE DEF n, V, base
<1>6. PICK fold \in [SUBSET (1..n) -> V] : Folding(base, step, n, fold)
  <2> HIDE DEF step
  <2> QED BY <1>2, <1>3, <1>5, FoldsExist
<1>7. \A s \in SUBSET (1..n) : s # {} => Max(s) \in 1..n /\ s \ {Max(s)} \in SUBSET (1..n)
  BY <1>2, Greatest
<1>8. Folds(fold)
  <2> HIDE DEF step
  <2> QED BY <1>2, <1>5, <1>6, <1>7 DEF Folding
<1>9. Folds(total)
  BY <1>8
<1> HIDE DEF total, step
<1>10. Follows(V, n, step, total) /\ total[{}] = base
  <2>1. total[{}] = base
    BY <1>2, <1>9
  <2>2. ASSUME NEW s \in SUBSET (1..n), s # {}, total[s \ {Max(s)}] \in V
        PROVE  total[s] = step[<<total[s \ {Max(s)}], Max(s)>>]
    BY <1>2, <1>5, <1>7, <1>9, <2>2
  <2> QED BY <1>3, <2>1, <2>2 DEF Follows
<1> HIDE DEF Folds
<1>11. PICK run \in [0..n -> V] : RunOf(n, step, total, run)
  BY <1>2, <1>5, <1>10, FoldRuns
<1>12. run[0] = base /\ run[n] = total[DOMAIN bars]
  BY <1>2, <1>10, <1>11 DEF RunOf
<1>13. ASSUME NEW k \in 1..n PROVE run[k] = Bar(trade, run[k - 1], bars[k])
  <2>1. k - 1 \in 0..n
    BY <1>2
  <2>2. run[k - 1] \in V
    BY <2>1
  <2> QED BY <1>5, <1>11, <2>2 DEF RunOf
<1>14. Looped(trade, bars, run)
  BY <1>12, <1>13 DEF Looped, n, V, base
<1>15. run[Len(bars)] = FoldLeft(LAMBDA state, bar : Bar(trade, state, bar), Start, bars)
  BY <1>1, <1>12 DEF n, base
<1> QED BY <1>14, <1>15

\* The rungs reached by the first k bars.
Reached(trade, bars, k) ==
    {i \in Rungs(trade) : \E j \in 1..k : Reaches(bars[j], trade.targets[i], trade.isLong)}
\* Where the loop stands after k bars when bar m is the first to stop it: before it,
\* the rungs reached are taken; from then on the stop has taken the rest.
StandsAt(trade, bars, m, k, state) ==
    LET h == Reached(trade, bars, IF k < m THEN k ELSE m - 1)
    IN  IF k < m
        THEN state.hit = h /\ state.remaining = 10 - Taken(h) /\ state.result = Won(trade, h)
        ELSE /\ state.remaining = 0
             /\ state.result = Won(trade, h) + (10 - Taken(h)) * Gain(trade.entry, trade.stop, trade.isLong)

\* A bar takes the standing that is due before it to the one due after it.
LEMMA StandsOn ==
    ASSUME NEW trade \in Ladders, NEW bars \in Seq(Candle), NEW run, Looped(trade, bars, run),
           NEW m, m = StoppedAt(trade, bars), NEW k \in 1..Len(bars), StandsAt(trade, bars, m, k - 1, run[k - 1])
    PROVE  StandsAt(trade, bars, m, k, run[k])
<1> DEFINE state == run[k - 1]
           next == run[k]
           loss == Gain(trade.entry, trade.stop, trade.isLong)
<1>1. Len(bars) \in Nat /\ bars[k] \in Candle /\ k - 1 \in 0..Len(bars)
  BY Sequence
<1>2. /\ m \in 1..(Len(bars) + 1)
      /\ m <= Len(bars) => Stops(bars[m], trade.stop, trade.isLong)
      /\ \A j \in 1..(m - 1) : ~Stops(bars[j], trade.stop, trade.isLong)
  BY StopIsFirst
<1>3. state \in Standing(trade) /\ next = Bar(trade, state, bars[k])
  BY <1>1 DEF Looped
<1> HIDE DEF state, next
<1>4. /\ state.remaining \in Nat
      /\ state.remaining = 0 => next = state
      /\ state.remaining > 0 /\ Stops(bars[k], trade.stop, trade.isLong) =>
           /\ next.remaining = 0 /\ next.hit = state.hit
           /\ next.result = state.result + state.remaining * loss
      /\ state.remaining > 0 /\ ~Stops(bars[k], trade.stop, trade.isLong) =>
           /\ next.remaining = Most(0, state.remaining - Taken(Fresh(trade, state, bars[k])))
           /\ next.hit = state.hit \cup Fresh(trade, state, bars[k])
           /\ next.result = state.result + Won(trade, Fresh(trade, state, bars[k]))
  <2>1. state.remaining \in Nat
    BY <1>3 DEF Standing
  <2> QED BY <1>1, <1>3, <2>1, BarDoes
<1>5. \A j : Reached(trade, bars, j) \in SUBSET Rungs(trade)
  BY DEF Reached
<1>6. loss \in Int
  BY LadderNumbers
<1> HIDE DEF loss
<1>7. CASE k < m
  <2> DEFINE h == Reached(trade, bars, k - 1)
             new == Fresh(trade, state, bars[k])
  <2>1. k - 1 < m /\ k \in 1..(m - 1)
    BY <1>1, <1>2, <1>7
  <2>2. state.hit = h /\ state.remaining = 10 - Taken(h) /\ state.result = Won(trade, h)
    BY <2>1 DEF StandsAt, state
  <2>3. ~Stops(bars[k], trade.stop, trade.isLong)
    BY <1>2, <2>1
  <2>4. new = {i \in Rungs(trade) \ h : Reaches(bars[k], trade.targets[i], trade.isLong)}
    BY <2>2 DEF Fresh
  <2>5. Reached(trade, bars, k) = h \cup new
    <3>1. 1..k = (1..(k - 1)) \cup {k}
      BY <1>1
    <3> QED BY <2>4, <3>1 DEF Reached
  <2>6. h \in SUBSET Rungs(trade) /\ new \in SUBSET (Rungs(trade) \ h)
    BY <1>5, <2>4
  <2> HIDE DEF h, new
  <2>7. Taken(h \cup new) = Taken(h) + Taken(new) /\ Won(trade, h \cup new) = Won(trade, h) + Won(trade, new)
    BY <2>6, TakenAdds
  <2>8. Taken(h) \in 0..10 /\ (Taken(h) = 10 => h = {1, 2, 3}) /\ Taken(h \cup new) \in 0..10
    <3>1. h \cup new \in SUBSET Rungs(trade)
      BY <2>6
    <3> QED BY <2>6, <3>1, TakenNumbers
  <2>9. next.hit = h \cup new /\ next.remaining = 10 - Taken(h \cup new) /\ next.result = Won(trade, h \cup new)
    <3>1. CASE state.remaining = 0
      <4>1. h = {1, 2, 3} /\ next = state
        BY <1>4, <2>2, <2>8, <3>1
      <4>2. Rungs(trade) \subseteq {1, 2, 3}
        <5>1. Rungs(trade) \subseteq 1..3 /\ 1..3 = {1, 2, 3}
          BY LadderNumbers
        <5> QED BY <5>1
      <4>3. h \cup new = h
        BY <2>6, <4>1, <4>2
      <4> QED BY <2>2, <4>1, <4>3
    <3>2. CASE state.remaining > 0
      <4>1. /\ next.remaining = Most(0, state.remaining - Taken(new)) /\ next.hit = state.hit \cup new
            /\ next.result = state.result + Won(trade, new)
        BY <1>4, <2>3, <3>2 DEF new
      <4>2. Taken(new) \in 0..10
        <5>1. new \in SUBSET Rungs(trade)
          BY <2>6
        <5> QED BY <5>1, TakenNumbers
      <4>3. next.remaining = 10 - Taken(h \cup new)
        <5>1. state.remaining - Taken(new) = 10 - Taken(h \cup new)
          BY <2>2, <2>7, <2>8, <4>2
        <5>2. 10 - Taken(h \cup new) \in Nat
          BY <2>8
        <5>3. next.remaining = Most(0, 10 - Taken(h \cup new))
          BY <4>1, <5>1
        <5> DEFINE left == 10 - Taken(h \cup new)
        <5> HIDE DEF left
        <5>4. next.remaining = Most(0, left) /\ left \in Nat
          BY <5>2, <5>3 DEF left
        <5>5. next.remaining = left
          BY <5>4 DEF Most
        <5> QED BY <5>5 DEF left
      <4> QED BY <2>2, <2>7, <4>1, <4>3
    <3> QED BY <1>4, <3>1, <3>2
  <2> QED BY <1>7, <2>5, <2>9 DEF StandsAt, next
<1>8. CASE k = m
  <2> DEFINE h == Reached(trade, bars, k - 1)
  <2>1. k - 1 < m /\ k <= Len(bars)
    BY <1>1, <1>2, <1>8
  <2>2. state.hit = h /\ state.remaining = 10 - Taken(h) /\ state.result = Won(trade, h)
    BY <2>1 DEF StandsAt, state
  <2>3. Stops(bars[k], trade.stop, trade.isLong)
    BY <1>2, <1>8, <2>1
  <2>4. Taken(h) \in 0..10 /\ Won(trade, h) \in Int
    <3>1. h \in SUBSET Rungs(trade)
      BY <1>5
    <3> QED BY <3>1, TakenNumbers
  <2> HIDE DEF h
  <2>5. next.remaining = 0 /\ next.result = Won(trade, h) + (10 - Taken(h)) * loss
    <3>1. CASE state.remaining = 0
      BY <1>4, <1>6, <2>2, <2>4, <3>1
    <3>2. CASE state.remaining > 0
      BY <1>4, <2>2, <2>3, <3>2
    <3> QED BY <1>4, <3>1, <3>2
  <2> QED BY <1>8, <2>5 DEF StandsAt, next, h, loss
<1>9. CASE k > m
  <2>1. ~(k - 1 < m) /\ ~(k < m)
    BY <1>1, <1>2, <1>9
  <2> DEFINE h == Reached(trade, bars, m - 1)
  <2>2. state.remaining = 0 /\ state.result = Won(trade, h) + (10 - Taken(h)) * loss
    BY <2>1 DEF StandsAt, state, loss
  <2>3. next = state
    BY <1>4, <2>2
  <2> QED BY <2>1, <2>2, <2>3 DEF StandsAt, next, loss
<1> QED BY <1>1, <1>2, <1>7, <1>8, <1>9

\* Where each share leaves: at its rung when that is among those reached before the
\* stop, else at the stop or the last close.
LEMMA ShareLeaves ==
    ASSUME NEW trade \in Ladders, NEW bars \in Seq(Candle), NEW m, m = StoppedAt(trade, bars), NEW i \in 1..3
    PROVE  Share(trade, bars, i) =
              IF i \in Reached(trade, bars, m - 1) THEN trade.targets[i]
              ELSE IF m <= Len(bars) THEN trade.stop ELSE LastClose(trade, bars)
<1> DEFINE r == ReachedAt(trade, bars, i)
           n == Len(bars)
<1>1. n \in Nat
  BY Sequence
<1>2. m \in 1..(n + 1)
  BY StopIsFirst
<1>3. /\ r \in 1..(n + 1)
      /\ r <= n => Reaches(bars[r], trade.targets[i], trade.isLong)
      /\ \A j \in 1..(r - 1) : ~Reaches(bars[j], trade.targets[i], trade.isLong)
  BY ReachIsFirst
<1>4. Share(trade, bars, i) =
         IF i \in DOMAIN trade.targets /\ r < m /\ r <= n THEN trade.targets[i]
         ELSE IF m <= n THEN trade.stop ELSE LastClose(trade, bars)
  BY DEF Share, StoppedAt, ReachedAt, LastClose
<1> HIDE DEF r
<1>5. (r < m /\ r <= n) <=> \E j \in 1..(m - 1) : Reaches(bars[j], trade.targets[i], trade.isLong)
  <2>1. ASSUME r < m, r <= n PROVE \E j \in 1..(m - 1) : Reaches(bars[j], trade.targets[i], trade.isLong)
    <3>1. r \in 1..(m - 1)
      BY <1>1, <1>2, <1>3, <2>1
    <3> QED BY <1>3, <2>1, <3>1
  <2>2. ASSUME NEW j \in 1..(m - 1), Reaches(bars[j], trade.targets[i], trade.isLong) PROVE r < m /\ r <= n
    <3>1. ~(j \in 1..(r - 1))
      BY <1>3, <2>2
    <3> QED BY <1>1, <1>2, <1>3, <3>1
  <2> QED BY <2>1, <2>2
<1>6. i \in Rungs(trade) <=> i \in DOMAIN trade.targets
  BY LadderNumbers
<1>7. i \in Reached(trade, bars, m - 1) <=> i \in DOMAIN trade.targets /\ r < m /\ r <= n
  BY <1>5, <1>6 DEF Reached
<1> HIDE DEF n
<1> QED BY <1>4, <1>7 DEF n

\* The exit of what the loop leaves loses no more than the stop, if there is a bar.
LEMMA CloseInside ==
    ASSUME NEW trade \in Ladders, NEW bars \in Seq(Candle)
    PROVE  /\ LastClose(trade, bars) \in Int
           /\ bars # <<>> /\ StoppedAt(trade, bars) > Len(bars) =>
                Gain(trade.entry, trade.stop, trade.isLong) <= Gain(trade.entry, LastClose(trade, bars), trade.isLong)
<1> DEFINE m == StoppedAt(trade, bars)
           n == Len(bars)
<1>1. trade.entry \in Int /\ trade.stop \in Int /\ trade.close \in Int /\ trade.isLong \in BOOLEAN
  BY LadderNumbers
<1>2. CASE bars = <<>>
  BY <1>1, <1>2 DEF LastClose
<1>3. CASE bars # <<>>
  <2>1. n \in Nat /\ n > 0 /\ bars[n] \in Candle
    <3>1. n \in Nat /\ n > 0
      BY <1>3, Sequence
    <3> QED BY <3>1, Sequence
  <2>2. LastClose(trade, bars) = bars[n].close
    BY <1>3 DEF LastClose, Last
  <2>3. bars[n].low \in Int /\ bars[n].close \in Int /\ bars[n].high \in Int
        /\ bars[n].low <= bars[n].close /\ bars[n].close <= bars[n].high
    BY <2>1 DEF Candle
  <2>4. ASSUME m > n PROVE ~Stops(bars[n], trade.stop, trade.isLong)
    <3>1. m \in 1..(n + 1) /\ \A j \in 1..(m - 1) : ~Stops(bars[j], trade.stop, trade.isLong)
      BY StopIsFirst
    <3>2. n \in 1..(m - 1)
      BY <2>1, <2>4, <3>1
    <3> QED BY <3>1, <3>2
  <2> HIDE DEF m, n
  <2>5. ASSUME ~Stops(bars[n], trade.stop, trade.isLong)
        PROVE  Gain(trade.entry, trade.stop, trade.isLong) <= Gain(trade.entry, bars[n].close, trade.isLong)
    BY <1>1, <2>3, <2>5 DEF Stops, Gain
  <2> QED BY <2>2, <2>3, <2>4, <2>5 DEF m, n
<1> QED BY <1>2, <1>3

\* The sum of the shares is what was won and the rest at its exit.
Leaving(trade, h, exit, x) ==
    \A i \in 1..3 : x[i] = Gain(trade.entry, IF i \in h THEN trade.targets[i] ELSE exit, trade.isLong)
Adding(trade, h, g, x) ==
    /\ x[1] \in Int /\ x[2] \in Int /\ x[3] \in Int
    /\ 5 * x[1] + 3 * x[2] + 2 * x[3] = Won(trade, h) + (10 - Taken(h)) * g

\* Whatever is left at one exit and taken at the rungs, the three shares make up the result.
LEMMA SharesTold ==
    ASSUME NEW trade \in Ladders, NEW h \in SUBSET Rungs(trade), NEW exit \in Int,
           NEW g, g = Gain(trade.entry, exit, trade.isLong), NEW x, Leaving(trade, h, exit, x)
    PROVE  Adding(trade, h, g, x)
<1>1. g \in Int
  BY LadderNumbers DEF Gain
<1>2. ASSUME NEW i \in 1..3
      PROVE  /\ x[i] \in Int /\ TakenBy(i, h) \in 0..5 /\ WonBy(trade, i, h) \in Int
             /\ Weights[i] * x[i] = WonBy(trade, i, h) + Weights[i] * g - TakenBy(i, h) * g
  <2>1. Weights[i] \in 0..5
    BY ThreeWeights
  <2>0. x[i] = Gain(trade.entry, IF i \in h THEN trade.targets[i] ELSE exit, trade.isLong)
    BY DEF Leaving
  <2>2. CASE i \in h
    <3> DEFINE y == Gain(trade.entry, trade.targets[i], trade.isLong)
    <3>1. i \in Rungs(trade) /\ y \in Int
      BY <2>2, LadderNumbers
    <3>2. x[i] = y /\ TakenBy(i, h) = Weights[i] /\ WonBy(trade, i, h) = Weights[i] * y
      BY <2>2, <2>0 DEF TakenBy, WonBy
    <3> HIDE DEF y
    <3>3. Weights[i] * y \in Int /\ Weights[i] * g \in Int
      BY <1>1, <2>1, <3>1
    <3> QED BY <2>1, <3>1, <3>2, <3>3
  <2>3. CASE i \notin h
    <3>1. x[i] = g /\ TakenBy(i, h) = 0 /\ WonBy(trade, i, h) = 0
      BY <2>3, <2>0 DEF TakenBy, WonBy
    <3>2. Weights[i] * g \in Int
      BY <1>1, <2>1
    <3> QED BY <1>1, <3>1, <3>2
  <2> QED BY <2>2, <2>3
<1> DEFINE t1 == TakenBy(1, h)
           t2 == TakenBy(2, h)
           t3 == TakenBy(3, h)
<1>3. t1 \in Int /\ t2 \in Int /\ t3 \in Int /\ x[1] \in Int /\ x[2] \in Int /\ x[3] \in Int
  BY <1>2
<1>4. Taken(h) = t1 + t2 + t3
  BY DEF Taken
<1>5. /\ 5 * x[1] = WonBy(trade, 1, h) + 5 * g - t1 * g
      /\ 3 * x[2] = WonBy(trade, 2, h) + 3 * g - t2 * g
      /\ 2 * x[3] = WonBy(trade, 3, h) + 2 * g - t3 * g
  BY <1>2, ThreeWeights
<1>6. WonBy(trade, 1, h) \in Int /\ WonBy(trade, 2, h) \in Int /\ WonBy(trade, 3, h) \in Int
  BY <1>2
<1> HIDE DEF t1, t2, t3
<1>7. (10 - Taken(h)) * g = 10 * g - t1 * g - t2 * g - t3 * g
  BY <1>1, <1>3, <1>4
<1>8. t1 * g \in Int /\ t2 * g \in Int /\ t3 * g \in Int
  BY <1>1, <1>3
<1> QED BY <1>1, <1>3, <1>5, <1>6, <1>7, <1>8 DEF Won, Adding

\* Where the loop ends: what was won before the stop, and the rest at its exit.
LEMMA LadderEnds ==
    ASSUME NEW trade \in Ladders, NEW bars \in Seq(Candle), NEW m, m = StoppedAt(trade, bars),
           NEW h, h = Reached(trade, bars, m - 1),
           NEW exit, exit = IF m <= Len(bars) THEN trade.stop ELSE LastClose(trade, bars)
    PROVE  LadderResult(trade, bars) = Won(trade, h) + (10 - Taken(h)) * Gain(trade.entry, exit, trade.isLong)
<1> DEFINE n == Len(bars)
           last == LastClose(trade, bars)
<1>1. PICK run : /\ Looped(trade, bars, run)
                 /\ run[n] = FoldLeft(LAMBDA state, bar : Bar(trade, state, bar), Start, bars)
  BY LadderRuns
<1>2. n \in Nat /\ m \in 1..(n + 1)
  <2>1. n \in Nat
    BY Sequence
  <2> QED BY <2>1, StopIsFirst
<1>3. LadderResult(trade, bars) = run[n].result + run[n].remaining * Gain(trade.entry, last, trade.isLong)
  BY <1>1 DEF LadderResult, Start, LastClose
<1>4. StandsAt(trade, bars, m, n, run[n])
  <2> DEFINE good == {k \in 0..n : StandsAt(trade, bars, m, k, run[k])}
  <2>1. StandsAt(trade, bars, m, 0, run[0])
    <3>1. Reached(trade, bars, 0) = {}
      BY DEF Reached
    <3>2. run[0] = Start
      BY <1>1 DEF Looped
    <3>3. run[0].hit = {} /\ run[0].remaining = 10 /\ run[0].result = 0
      BY <3>2 DEF Start
    <3>4. 0 < m
      BY <1>2
    <3>5. Taken({}) = 0 /\ Won(trade, {}) = 0
      BY DEF Taken, TakenBy, Won, WonBy
    <3>6. Reached(trade, bars, IF 0 < m THEN 0 ELSE m - 1) = {}
      BY <3>1, <3>4
    <3>7. 10 - Taken({}) = 10
      BY <3>5
    <3> QED BY <3>3, <3>4, <3>5, <3>6, <3>7 DEF StandsAt
  <2>2. 0 \in good
    BY <1>2, <2>1
  <2>3. ASSUME NEW k \in 1..n, k - 1 \in good PROVE k \in good
    <3>1. StandsAt(trade, bars, m, k - 1, run[k - 1])
      BY <2>3
    <3>2. StandsAt(trade, bars, m, k, run[k])
      BY <1>1, <3>1, StandsOn
    <3> QED BY <1>2, <3>2
  <2>4. good \in SUBSET (0..n)
    OBVIOUS
  <2>5. \A k \in 0..n : k \in good
    <3> HIDE DEF good, n
    <3> QED BY <1>2, <2>2, <2>3, <2>4, KeptAlong
  <2> QED BY <1>2, <2>5
<1>5. h \in SUBSET Rungs(trade)
  BY DEF Reached
<1>6. Taken(h) \in 0..10 /\ Won(trade, h) \in Int
  BY <1>5, TakenNumbers
<1> HIDE DEF n
<1>7. CASE n < m
  <2>1. m - 1 = n /\ ~(m <= n)
    BY <1>2, <1>7
  <2>2. run[n].remaining = 10 - Taken(h) /\ run[n].result = Won(trade, h)
    BY <1>4, <1>7, <2>1 DEF StandsAt
  <2>3. exit = last
    BY <2>1 DEF n
  <2> QED BY <1>3, <2>2, <2>3
<1>8. CASE ~(n < m)
  <2>1. m <= n
    BY <1>2, <1>8
  <2>2. run[n].remaining = 0
        /\ run[n].result = Won(trade, h) + (10 - Taken(h)) * Gain(trade.entry, trade.stop, trade.isLong)
    BY <1>4, <1>8 DEF StandsAt
  <2>3. exit = trade.stop
    BY <2>1 DEF n
  <2>4. Gain(trade.entry, last, trade.isLong) \in Int /\ Gain(trade.entry, trade.stop, trade.isLong) \in Int
    <3>1. last \in Int
      BY CloseInside
    <3> QED BY <3>1, LadderNumbers DEF Gain
  <2> DEFINE r == (10 - Taken(h)) * Gain(trade.entry, trade.stop, trade.isLong)
  <2>5. r \in Int
    BY <1>6, <2>4
  <2> HIDE DEF r, last
  <2>6. LadderResult(trade, bars) = Won(trade, h) + r + 0 * Gain(trade.entry, last, trade.isLong)
    BY <1>3, <2>2 DEF r
  <2>7. LadderResult(trade, bars) = Won(trade, h) + r
    BY <1>6, <2>4, <2>5, <2>6
  <2> QED BY <2>3, <2>7 DEF r
<1> QED BY <1>7, <1>8

\* The weights make ten: shares that lose no more than a loss lose no more together.
LEMMA WeightsMakeTen ==
    ASSUME NEW a \in Int, NEW b \in Int, NEW c \in Int, NEW loss \in Int,
           a >= loss, b >= loss, c >= loss
    PROVE  5 * a + 3 * b + 2 * c >= 10 * loss
OBVIOUS

\* The backtest takes every ladder and every series of bars honestly
\* (simulate_ladder_trade): each share leaves where the bars say, and no trade that
\* saw a bar loses more than its risk.
THEOREM LaddersAreHonest ==
    \A trade \in Ladders, bars \in Seq(Candle) : LadderSound(trade, bars)
<1> SUFFICES ASSUME NEW trade \in Ladders, NEW bars \in Seq(Candle) PROVE LadderSound(trade, bars)
  OBVIOUS
<1> DEFINE m == StoppedAt(trade, bars)
           h == Reached(trade, bars, m - 1)
           exit == IF m <= Len(bars) THEN trade.stop ELSE LastClose(trade, bars)
           g == Gain(trade.entry, exit, trade.isLong)
           loss == Gain(trade.entry, trade.stop, trade.isLong)
           x == [i \in 1..3 |-> Gain(trade.entry, Share(trade, bars, i), trade.isLong)]
<1>1. LadderResult(trade, bars) = Won(trade, h) + (10 - Taken(h)) * g
  <2> HIDE DEF m
  <2>1. m = StoppedAt(trade, bars)
    BY DEF m
  <2> HIDE DEF h, exit
  <2>2. h = Reached(trade, bars, m - 1)
    BY DEF h
  <2>3. exit = IF m <= Len(bars) THEN trade.stop ELSE LastClose(trade, bars)
    BY DEF exit
  <2> QED BY <2>1, <2>2, <2>3, LadderEnds
<1>2. h \in SUBSET Rungs(trade) /\ exit \in Int /\ loss \in Int
  BY LadderNumbers, CloseInside DEF Reached
<1>3. Leaving(trade, h, exit, x)
  <2> HIDE DEF m
  <2>1. m = StoppedAt(trade, bars)
    BY DEF m
  <2>2. \A i \in 1..3 : Share(trade, bars, i) = IF i \in h THEN trade.targets[i] ELSE exit
    <3> SUFFICES ASSUME NEW i \in 1..3 PROVE Share(trade, bars, i) = IF i \in h THEN trade.targets[i] ELSE exit
      OBVIOUS
    <3>1. Share(trade, bars, i) =
              IF i \in Reached(trade, bars, m - 1) THEN trade.targets[i]
              ELSE IF m <= Len(bars) THEN trade.stop ELSE LastClose(trade, bars)
      BY <2>1, ShareLeaves
    <3> QED BY <3>1
  <2> HIDE DEF h, exit
  <2> QED BY <2>2 DEF Leaving
<1> HIDE DEF h
<1>4. /\ x[1] \in Int /\ x[2] \in Int /\ x[3] \in Int
      /\ 5 * x[1] + 3 * x[2] + 2 * x[3] = Won(trade, h) + (10 - Taken(h)) * g
  <2> HIDE DEF x, exit
  <2>1. g = Gain(trade.entry, exit, trade.isLong)
    OBVIOUS
  <2> HIDE DEF g
  <2>2. Adding(trade, h, g, x)
    BY <1>2, <1>3, <2>1, SharesTold
  <2> QED BY <2>2 DEF Adding
<1>5. /\ x[1] = Gain(trade.entry, Share(trade, bars, 1), trade.isLong)
      /\ x[2] = Gain(trade.entry, Share(trade, bars, 2), trade.isLong)
      /\ x[3] = Gain(trade.entry, Share(trade, bars, 3), trade.isLong)
      /\ \A i \in 1..3 : x[i] = Gain(trade.entry, Share(trade, bars, i), trade.isLong)
  OBVIOUS
<1>6. LadderResult(trade, bars) =
         FoldLeft(LAMBDA sum, i : sum + Weights[i] * Gain(trade.entry, Share(trade, bars, i), trade.isLong),
                  0, <<1, 2, 3>>)
  <2> HIDE DEF x
  <2>1. \A i \in 1..3 : Gain(trade.entry, Share(trade, bars, i), trade.isLong) \in Int
    <3>1. 1..3 = {1, 2, 3}
      OBVIOUS
    <3> QED BY <1>4, <1>5, <3>1
  <2> QED BY <1>1, <1>4, <1>5, <2>1, SharesAdd
<1>7. ASSUME bars # <<>> PROVE LadderResult(trade, bars) >= 10 * loss
  <2>1. \A i \in h : Gain(trade.entry, trade.targets[i], trade.isLong) >= loss
    <3>1. h \subseteq 1..3 /\ \A i \in 1..3 : i \in h => i \in DOMAIN trade.targets
      BY <1>2, LadderNumbers
    <3> QED BY <3>1 DEF Ladders
  <2>2. g >= loss
    <3>1. CASE m <= Len(bars)
      BY <1>2, <3>1
    <3>2. CASE ~(m <= Len(bars))
      <4>1. Len(bars) \in Nat
        BY Sequence
      <4>2. m \in 1..(Len(bars) + 1)
        BY StopIsFirst
      <4>3. m > Len(bars)
        BY <3>2, <4>1, <4>2
      <4> QED BY <1>7, <3>2, <4>3, CloseInside
    <3> QED BY <3>1, <3>2
  <2>3. \A i \in 1..3 : x[i] >= loss
    <3> HIDE DEF x
    <3> SUFFICES ASSUME NEW i \in 1..3 PROVE x[i] >= loss
      OBVIOUS
    <3>1. CASE i \in h
      BY <1>3, <2>1, <3>1 DEF Leaving
    <3>2. CASE i \notin h
      BY <1>3, <2>2, <3>2 DEF Leaving
    <3> QED BY <3>1, <3>2
  <2>4. x[1] >= loss /\ x[2] >= loss /\ x[3] >= loss
    <3> HIDE DEF x, loss
    <3> QED BY <2>3
  <2> HIDE DEF x, loss, g
  <2>5. LadderResult(trade, bars) = 5 * x[1] + 3 * x[2] + 2 * x[3]
    BY <1>1, <1>4
  <2>6. x[1] \in Int /\ x[2] \in Int /\ x[3] \in Int /\ loss \in Int
    BY <1>2, <1>4
  <2>7. 5 * x[1] + 3 * x[2] + 2 * x[3] >= 10 * loss
    BY <2>4, <2>6, WeightsMakeTen
  <2> QED BY <2>5, <2>7
<1> QED BY <1>6, <1>7 DEF LadderSound

-----------------------------------------------------------------------------
(***************************************************************************)
(* The macro reads of MarketContext and the fact guard of Research.        *)
(***************************************************************************)
Context == INSTANCE MarketContext
Study == INSTANCE Research

Headwind == "dollar headwind"
Tailwind == "dollar tailwind"
Spike == "yield spike"
Relief == "yield relief"
Gold == "gold safety"
Concentrated == "concentration"
Joining == "participation"

\* The seven reads are seven.
LEMMA ReadsDiffer ==
    /\ Headwind \notin {Tailwind, Spike, Relief, Gold, Concentrated, Joining}
    /\ Tailwind \notin {Spike, Relief, Gold, Concentrated, Joining}
    /\ Spike \notin {Relief, Gold, Concentrated, Joining}
    /\ Relief \notin {Gold, Concentrated, Joining}
    /\ Gold \notin {Concentrated, Joining} /\ Concentrated # Joining
BY Zenon DEF Headwind, Tailwind, Spike, Relief, Gold, Concentrated, Joining

\* The dollar proxy read, whether one of S moves beyond the bar and whether all of
\* S rose, and by how much the equal weight runs ahead of the index.
DollarOf(returns) == IF "UUP" \in DOMAIN returns THEN {"UUP"} ELSE DOMAIN returns \cap {"DXY"}
Moves(returns, S) == \E x \in S \cap DOMAIN returns : returns[x] <= -30 \/ returns[x] >= 30
Ups(returns, S) == \A x \in S : returns[x] > 0
SpreadOf(returns) == IF {"SPY", "RSP"} \subseteq DOMAIN returns THEN returns["RSP"] - returns["SPY"] ELSE 0
\* When each read appears.
Reads(returns, M) ==
    /\ Headwind \in M <=> Moves(returns, DollarOf(returns)) /\ Ups(returns, DollarOf(returns))
    /\ Tailwind \in M <=> Moves(returns, DollarOf(returns)) /\ ~Ups(returns, DollarOf(returns))
    /\ Relief \in M <=> Moves(returns, {"TLT"}) /\ returns["TLT"] > 0
    /\ Spike \in M <=> Moves(returns, {"TLT"}) /\ ~(returns["TLT"] > 0)
    /\ Concentrated \in M <=> SpreadOf(returns) <= -20
    /\ Joining \in M <=> SpreadOf(returns) >= 20

\* Macro says each read exactly then.
LEMMA MacroReads ==
    ASSUME NEW S, NEW returns \in [S -> Int]
    PROVE  Reads(returns, Context!Macro(returns))
<1> DEFINE D == DollarOf(returns)
           A == {n \in {Headwind, Tailwind} : Moves(returns, D) /\ (n = Headwind) = Ups(returns, D)}
           B == {n \in {Spike, Relief} : Moves(returns, {"TLT"}) /\ (n = Relief) = (returns["TLT"] > 0)}
           C == {n \in {Gold} : "GLD" \in DOMAIN returns /\ returns["GLD"] >= 30}
           E == {n \in {Concentrated} : SpreadOf(returns) <= -20}
           F == {n \in {Joining} : SpreadOf(returns) >= 20}
<1>1. Context!Macro(returns) = A \cup B \cup C \cup E \cup F
  BY Zenon DEF Context!Macro, Context!MoveBar, Context!SpreadBar, DollarOf, Moves, Ups, SpreadOf, Headwind, Tailwind, Spike, Relief, Gold, Concentrated, Joining
<1>2. DEFINE a == Ups(returns, D)
<1>3. a \in BOOLEAN
  BY DEF Ups
<1>4. /\ Headwind \in A <=> Moves(returns, D) /\ a
      /\ Tailwind \in A <=> Moves(returns, D) /\ ~a
      /\ \A n \in A : n \in {Headwind, Tailwind}
  BY <1>3, ReadsDiffer, Zenon
<1>5. /\ Relief \in B <=> Moves(returns, {"TLT"}) /\ returns["TLT"] > 0
      /\ Spike \in B <=> Moves(returns, {"TLT"}) /\ ~(returns["TLT"] > 0)
      /\ \A n \in B : n \in {Spike, Relief}
  <2> DEFINE b == returns["TLT"] > 0
  <2>1. b \in BOOLEAN
    OBVIOUS
  <2> HIDE DEF b
  <2>2. B = {n \in {Spike, Relief} : Moves(returns, {"TLT"}) /\ (n = Relief) = b}
    BY Zenon DEF b
  <2>3. /\ Relief \in B <=> Moves(returns, {"TLT"}) /\ b
        /\ Spike \in B <=> Moves(returns, {"TLT"}) /\ ~b
        /\ \A n \in B : n \in {Spike, Relief}
    BY <2>1, <2>2, ReadsDiffer, Zenon
  <2> QED BY <2>3, Zenon DEF b
<1>6. /\ Concentrated \in E <=> SpreadOf(returns) <= -20
      /\ \A n \in E : n = Concentrated
      /\ Joining \in F <=> SpreadOf(returns) >= 20
      /\ \A n \in F : n = Joining
      /\ \A n \in C : n = Gold
  BY Zenon
<1> HIDE DEF A, B, C, E, F
<1>7. \A n : n \in Context!Macro(returns) <=> n \in A \/ n \in B \/ n \in C \/ n \in E \/ n \in F
  BY <1>1, Zenon
<1> QED BY <1>4, <1>5, <1>6, <1>7, ReadsDiffer, Zenon DEF Reads

\* Turning every return turns what it is read for.
LEMMA TurnedReads ==
    ASSUME NEW S, NEW returns \in [S -> Int], NEW turned, turned = [x \in S |-> -returns[x]]
    PROVE  /\ turned \in [S -> Int] /\ DollarOf(turned) = DollarOf(returns) /\ SpreadOf(turned) = -SpreadOf(returns)
           /\ Moves(turned, DollarOf(returns)) <=> Moves(returns, DollarOf(returns))
           /\ Moves(turned, {"TLT"}) <=> Moves(returns, {"TLT"})
           /\ Moves(returns, DollarOf(returns)) => (Ups(turned, DollarOf(returns)) <=> ~Ups(returns, DollarOf(returns)))
           /\ Moves(returns, {"TLT"}) => (turned["TLT"] > 0 <=> ~(returns["TLT"] > 0))
           /\ SpreadOf(returns) \in Int
<1>1. turned \in [S -> Int] /\ DollarOf(turned) = DollarOf(returns) /\ SpreadOf(turned) = -SpreadOf(returns)
  BY DEF DollarOf, SpreadOf
<1>2. \A T : Moves(turned, T) <=> Moves(returns, T)
  BY DEF Moves
<1>3. Moves(returns, DollarOf(returns)) => (Ups(turned, DollarOf(returns)) <=> ~Ups(returns, DollarOf(returns)))
  <2>1. PICK y : DollarOf(returns) \subseteq {y} /\ DollarOf(returns) \subseteq S
    BY DEF DollarOf
  <2> QED BY <2>1 DEF Moves, Ups
<1>4. Moves(returns, {"TLT"}) => (turned["TLT"] > 0 <=> ~(returns["TLT"] > 0))
  BY DEF Moves
<1>5. SpreadOf(returns) \in Int
  BY DEF SpreadOf
<1> QED BY <1>1, <1>2, <1>3, <1>4, <1>5

\* The reads off the macro proxies (derive_macro_context):
\* never a headwind and a tailwind of the dollar, a spike and a relief of yields,
\* or concentration and participation at once; and the opposite returns give the
\* opposite read of each pair, whatever proxies have returns and whatever they are.
THEOREM MacroNeverContradicts ==
    ASSUME NEW S, NEW returns \in [S -> Int]
    PROVE  Context!MacroSound(returns)
<1> DEFINE turned == [x \in S |-> -returns[x]]
           M == Context!Macro(returns)
           T == Context!Macro(turned)
<1>1. turned = [x \in DOMAIN returns |-> -returns[x]]
  OBVIOUS
<1>2. turned \in [S -> Int] /\ Reads(returns, M) /\ Reads(turned, T)
  BY MacroReads
<1> HIDE DEF turned, M, T
<1>3. /\ DollarOf(turned) = DollarOf(returns) /\ SpreadOf(turned) = -SpreadOf(returns)
      /\ Moves(turned, DollarOf(returns)) <=> Moves(returns, DollarOf(returns))
      /\ Moves(turned, {"TLT"}) <=> Moves(returns, {"TLT"})
      /\ Moves(returns, DollarOf(returns)) => (Ups(turned, DollarOf(returns)) <=> ~Ups(returns, DollarOf(returns)))
      /\ Moves(returns, {"TLT"}) => (turned["TLT"] > 0 <=> ~(returns["TLT"] > 0))
      /\ SpreadOf(returns) \in Int
  BY TurnedReads DEF turned
<1>4. SpreadOf(turned) <= -20 <=> SpreadOf(returns) >= 20
  BY <1>3
<1>5. SpreadOf(turned) >= 20 <=> SpreadOf(returns) <= -20
  BY <1>3
<1>6. ~(SpreadOf(returns) <= -20 /\ SpreadOf(returns) >= 20)
  BY <1>3
<1>7. /\ ~(Headwind \in M /\ Tailwind \in M) /\ (Headwind \in M => Tailwind \in T /\ Headwind \notin T)
      /\ (Tailwind \in M => Headwind \in T /\ Tailwind \notin T)
  BY <1>2, <1>3, Zenon DEF Reads
<1>8. /\ ~(Spike \in M /\ Relief \in M) /\ (Spike \in M => Relief \in T /\ Spike \notin T)
      /\ (Relief \in M => Spike \in T /\ Relief \notin T)
  BY <1>2, <1>3, Zenon DEF Reads
<1>9. /\ ~(Concentrated \in M /\ Joining \in M) /\ (Concentrated \in M => Joining \in T /\ Concentrated \notin T)
      /\ (Joining \in M => Concentrated \in T /\ Joining \notin T)
  BY <1>2, <1>4, <1>5, <1>6, Zenon DEF Reads
<1>10. ASSUME NEW a, NEW b, a # b, ~(a \in M /\ b \in M), a \in M => b \in T /\ a \notin T, b \in M => a \in T /\ b \notin T
       PROVE  ~({a, b} \subseteq M) /\ \A n \in {a, b} : n \in M => T \cap {a, b} = {a, b} \ {n}
  BY <1>10
<1>11. \A pair \in Context!Opposites : ~(pair \subseteq M) /\ \A n \in pair : n \in M => T \cap pair = pair \ {n}
  <2>1. Context!Opposites = {{Headwind, Tailwind}, {Spike, Relief}, {Concentrated, Joining}}
    BY Zenon DEF Context!Opposites, Headwind, Tailwind, Spike, Relief, Gold, Concentrated, Joining
  <2>2. /\ ~({Headwind, Tailwind} \subseteq M)
        /\ \A n \in {Headwind, Tailwind} : n \in M => T \cap {Headwind, Tailwind} = {Headwind, Tailwind} \ {n}
    BY <1>7, <1>10, ReadsDiffer
  <2>3. /\ ~({Spike, Relief} \subseteq M)
        /\ \A n \in {Spike, Relief} : n \in M => T \cap {Spike, Relief} = {Spike, Relief} \ {n}
    BY <1>8, <1>10, ReadsDiffer
  <2>4. /\ ~({Concentrated, Joining} \subseteq M)
        /\ \A n \in {Concentrated, Joining} : n \in M => T \cap {Concentrated, Joining} = {Concentrated, Joining} \ {n}
    BY <1>9, <1>10, ReadsDiffer
  <2>5. SUFFICES ASSUME NEW pair \in Context!Opposites
                 PROVE  ~(pair \subseteq M) /\ \A n \in pair : n \in M => T \cap pair = pair \ {n}
    OBVIOUS
  <2>6. pair = {Headwind, Tailwind} \/ pair = {Spike, Relief} \/ pair = {Concentrated, Joining}
    BY <2>1, <2>5
  <2> QED BY <2>2, <2>3, <2>4, <2>6
<1> QED BY <1>1, <1>11 DEF Context!MacroSound, M, T

Forms == {"json", "broken", "plain", "empty", "none"}
Replies == [form : Forms, numbers : SUBSET Int]

\* A number near a fact is within a twentieth or within one in a hundred of it.
LEMMA NearFact ==
    ASSUME NEW v \in Int, NEW f \in Int, Study!Near(v, f)
    PROVE  20 * Study!Magnitude(v - f) <= 100 \/ 100 * Study!Magnitude(v - f) <= Study!Magnitude(f)
<1> DEFINE d == Study!Magnitude(v - f)
           m == Study!Magnitude(f)
<1>1. d \in Int /\ m \in Int
  BY DEF Study!Magnitude
<1>2. 100 * d <= (IF m < 500 THEN 500 ELSE m)
  BY DEF Study!Near, Study!AtLeast
<1> HIDE DEF d, m
<1>3. CASE m < 500
  <2>1. 100 * d <= 500
    BY <1>2, <1>3
  <2> QED BY <1>1, <2>1 DEF d
<1>4. CASE ~(m < 500)
  BY <1>2, <1>4 DEF d, m
<1> QED BY <1>3, <1>4 DEF d, m

\* A fact told with the wrong sign is near no fact that is not negative.
LEMMA TurnedIsFar ==
    ASSUME NEW f \in Int, f > 1000, NEW g \in Int, g >= 0
    PROVE  ~Study!Near(-f, g)
<1>1. -f - g \in Int /\ -f - g < 0 /\ -(-f - g) = f + g
  OBVIOUS
<1>2. Study!Magnitude(-f - g) = f + g
  BY <1>1 DEF Study!Magnitude
<1>3. Study!Magnitude(g) = g
  BY DEF Study!Magnitude
<1>4. CASE g < 500
  <2>1. Study!AtLeast(g, 500) = 500
    BY <1>4 DEF Study!AtLeast
  <2>2. ~(100 * (f + g) <= 500)
    OBVIOUS
  <2> QED BY <1>2, <1>3, <2>1, <2>2 DEF Study!Near
<1>5. CASE ~(g < 500)
  <2>1. Study!AtLeast(g, 500) = g
    BY <1>5 DEF Study!AtLeast
  <2>2. ~(100 * (f + g) <= g)
    OBVIOUS
  <2> QED BY <1>2, <1>3, <2>1, <2>2 DEF Study!Near
<1> QED BY <1>4, <1>5

\* The research narration (_narrate and _passes_fact_guard): without a
\* model the template is told; what a model says is told only when it is not empty
\* and each of its numbers is within a twentieth, or within a hundredth, of a fact
\* or of a number always allowed; and a fact above ten told with the wrong sign
\* brings the template back.
THEOREM NarrationIsGuarded ==
    ASSUME NEW answer \in Replies, NEW facts \in SUBSET Int, NEW strict \in BOOLEAN
    PROVE  Study!NarrationSound(answer, facts, strict)
<1>1. Study!Narrated(FALSE, answer, facts, strict) = "template"
  BY DEF Study!Narrated
<1>2. ASSUME Study!Narrated(TRUE, answer, facts, strict) = "model"
      PROVE  answer.form # "empty" /\ \A v \in answer.numbers \ Study!AlwaysAllowed :
                \E f \in facts \cup Study!AlwaysAllowed :
                   20 * Study!Magnitude(v - f) <= 100 \/ 100 * Study!Magnitude(v - f) <= Study!Magnitude(f)
  <2>1. answer.form # "empty" /\ Study!PassesFactGuard(answer.numbers, facts)
    BY <1>2 DEF Study!Narrated
  <2>2. SUFFICES ASSUME NEW v \in answer.numbers \ Study!AlwaysAllowed
                 PROVE  \E f \in facts \cup Study!AlwaysAllowed :
                           20 * Study!Magnitude(v - f) <= 100 \/ 100 * Study!Magnitude(v - f) <= Study!Magnitude(f)
    BY <2>1
  <2>3. PICK f \in facts \cup Study!AlwaysAllowed : Study!Near(v, f)
    BY <2>1 DEF Study!PassesFactGuard
  <2>4. v \in Int /\ f \in Int
    BY DEF Replies, Study!AlwaysAllowed
  <2> QED BY <2>3, <2>4, NearFact
<1>3. ASSUME NEW f \in facts, f > 1000, -f \notin facts, \A g \in facts : g >= 0
      PROVE  Study!Narrated(TRUE, [form |-> "plain", numbers |-> {-f}], facts, strict) = "template-guarded"
  <2> DEFINE told == [form |-> "plain", numbers |-> {-f}]
  <2>1. f \in Int /\ -f \notin Study!AlwaysAllowed /\ -f \in told.numbers
    BY <1>3 DEF Study!AlwaysAllowed
  <2>2. \A g \in facts \cup Study!AlwaysAllowed : g \in Int /\ g >= 0
    BY <1>3 DEF Study!AlwaysAllowed
  <2>3. \A g \in facts \cup Study!AlwaysAllowed : ~Study!Near(-f, g)
    BY <1>3, <2>1, <2>2, TurnedIsFar
  <2>4. ~Study!PassesFactGuard(told.numbers, facts)
    BY <2>1, <2>3 DEF Study!PassesFactGuard
  <2>5. told.form = "plain" /\ told # Study!NoAnswer
    BY DEF Study!NoAnswer
  <2> HIDE DEF told
  <2>6. Study!Narrated(TRUE, told, facts, strict) = "template-guarded"
    BY <2>4, <2>5 DEF Study!Narrated
  <2> QED BY <2>6 DEF told
<1> QED BY <1>1, <1>2, <1>3 DEF Study!NarrationSound

-----------------------------------------------------------------------------
(***************************************************************************)
(* What the indicators of Indicators say, for every series of candles.     *)
(***************************************************************************)

\* What holds of a number when it holds of those before it holds of all of them.
LEMMA ByTheEarlier ==
    ASSUME NEW D \in SUBSET Nat, NEW good,
           \A i \in D : (\A j \in D : j < i => j \in good) => i \in good
    PROVE  D \subseteq good
<1> DEFINE bad == D \ good
<1> SUFFICES ASSUME bad # {} PROVE FALSE
  OBVIOUS
<1>1. bad \subseteq Nat
  OBVIOUS
<1>2. PICK m \in bad : \A k \in bad : m <= k
  <2> HIDE DEF bad
  <2> QED BY <1>1, LeastNat
<1>3. \A j \in D : j < m => j \in good
  <2> SUFFICES ASSUME NEW j \in D, j < m, j \notin good PROVE FALSE
    OBVIOUS
  <2>1. m <= j /\ j \in Nat /\ m \in Nat
    BY <1>2
  <2> QED BY <2>1
<1> QED BY <1>2, <1>3

\* What an indicator, or a series, said at candle n is what it still says later.
Foretold(early, late, n) ==
    /\ DOMAIN early = {i \in DOMAIN late : i <= n}
    /\ \A i \in DOMAIN early : early[i] = late[i]

\* Sums and means look at the values they add up, and at nothing else.
LEMMA SumsAgree ==
    ASSUME NEW v, NEW w, NEW S, \A i \in S : v[i] = w[i]
    PROVE  SumOf(v, S) = SumOf(w, S) /\ Mean(v, S) = Mean(w, S)
<1> DEFINE P(f) == f = [s \in SUBSET S |->
                          IF s = {} THEN 0
                          ELSE LET x == CHOOSE x \in s : TRUE IN v[x] + f[s \ {x}]]
           Q(f) == f = [s \in SUBSET S |->
                          IF s = {} THEN 0
                          ELSE LET x == CHOOSE x \in s : TRUE IN w[x] + f[s \ {x}]]
<1>1. \A s \in SUBSET S : s # {} => v[CHOOSE x \in s : TRUE] = w[CHOOSE x \in s : TRUE]
  OBVIOUS
<1>2. \A f : P(f) <=> Q(f)
  BY <1>1
<1>3. (CHOOSE f : P(f)) = (CHOOSE f : Q(f))
  <2> HIDE DEF P, Q
  <2> QED BY <1>2, Zenon
<1>4. SumOf(v, S) = (CHOOSE f : P(f))[S] /\ SumOf(w, S) = (CHOOSE f : Q(f))[S]
  BY DEF SumOf, MapThenSumSet, MapThenFoldSet
<1>5. SumOf(v, S) = SumOf(w, S)
  <2> HIDE DEF P, Q
  <2> QED BY <1>3, <1>4
<1> QED BY <1>5 DEF Mean

-----------------------------------------------------------------------------
(* The recursions, by the law of each: at which candle it starts, with     *)
(* what, and what it makes of the value before.                            *)

Stepped == {"ema", "sma", "wilder", "smoothed"}
Gapped == {"gaps", "adx"}
UpTo(values, i) == {j \in DOMAIN values : j <= i}
Indexes(law, values, period) ==
    {j \in DOMAIN values : IF law \in {"ema", "sma"} THEN j >= period
                           ELSE IF law \in Stepped THEN j >= period + 1
                           ELSE Cardinality(UpTo(values, j)) >= period}
Starts(law, values, period, i) ==
    IF law \in {"ema", "sma"} THEN i = period
    ELSE IF law \in Stepped THEN i = period + 1
    ELSE Cardinality(UpTo(values, i)) = period
First(law, values, period, i) ==
    CASE law = "ema" -> Mean(values, 1..period)
      [] law = "sma" -> SumOf(values, 1..period)
      [] law = "wilder" -> Mean(values, 2..i)
      [] law = "smoothed" -> SumOf(values, 2..i)
      [] OTHER -> Mean(values, UpTo(values, i))
Next(law, values, period, f, i) ==
    CASE law = "ema" -> f[i - 1] + (2 * (values[i] - f[i - 1])) \div (period + 1)
      [] law = "sma" -> f[i - 1] + values[i] - values[i - period]
      [] law = "wilder" -> (f[i - 1] * (period - 1) + values[i]) \div period
      [] law = "smoothed" -> f[i - 1] - f[i - 1] \div period + values[i]
      [] law = "gaps" -> LET previous == f[Max(UpTo(values, i) \ {i})]
                         IN  previous + (2 * (values[i] - previous)) \div (period + 1)
      [] law = "adx" -> ((IF i - 1 \in DOMAIN values THEN f[i - 1] ELSE 0) * (period - 1) + values[i]) \div period
Follow(law, values, period, f, i) ==
    IF Starts(law, values, period, i) THEN First(law, values, period, i) ELSE Next(law, values, period, f, i)
Obeys(law, values, period, f) ==
    f = [i \in Indexes(law, values, period) |-> Follow(law, values, period, f, i)]
\* The values a law runs over: a list, or the places where a list has a number.
Runs(law, values) ==
    /\ law \in Stepped \cup Gapped
    /\ \E n \in Nat : DOMAIN values \subseteq 1..n
    /\ law \in Stepped => Len(values) \in Nat /\ DOMAIN values = 1..Len(values)

\* The number before the last of a list with gaps, and how many there are so far.
LEMMA GapsCount ==
    ASSUME NEW values, NEW n \in Nat, DOMAIN values \subseteq 1..n,
           NEW i \in DOMAIN values
    PROVE  /\ IsFiniteSet(UpTo(values, i)) /\ Cardinality(UpTo(values, i)) \in Nat
           /\ i \in UpTo(values, i)
           /\ Cardinality(UpTo(values, i) \ {i}) = Cardinality(UpTo(values, i)) - 1
           /\ UpTo(values, i) \ {i} # {} =>
                 LET m == Max(UpTo(values, i) \ {i})
                 IN  m \in DOMAIN values /\ m < i /\ UpTo(values, m) = UpTo(values, i) \ {i}
           /\ UpTo(values, i) \ {i} = {} => Cardinality(UpTo(values, i)) = 1
           /\ i - 1 \in DOMAIN values => UpTo(values, i - 1) = UpTo(values, i) \ {i}
<1> DEFINE U == UpTo(values, i)
<1>0. U \subseteq 1..n /\ i \in U /\ i \in 1..n
  BY DEF UpTo
<1>1. IsFiniteSet(U) /\ Cardinality(U) \in Nat
  <2>1. IsFiniteSet(1..n)
    BY FS_Interval
  <2>2. IsFiniteSet(U)
    <3> HIDE DEF U
    <3> QED BY <1>0, <2>1, FS_Subset
  <2> HIDE DEF U
  <2> QED BY <2>2, FS_CardinalityType
<1>2. Cardinality(U \ {i}) = Cardinality(U) - 1
  <2> HIDE DEF U
  <2> QED BY <1>0, <1>1, FS_RemoveElement
<1>3. U \ {i} = {} => Cardinality(U) = 1
  <2>1. Cardinality({}) = 0
    BY FS_EmptySet
  <2> HIDE DEF U
  <2> QED BY <1>1, <1>2, <2>1
<1>4. U \ {i} \in SUBSET (1..n)
  BY <1>0
<1>5. ASSUME U \ {i} # {}
      PROVE  LET m == Max(U \ {i})
             IN  m \in DOMAIN values /\ m < i /\ UpTo(values, m) = U \ {i}
  <2> DEFINE R == U \ {i}
             m == Max(R)
  <2>1. m \in R /\ \A y \in R : y <= m
    <3> HIDE DEF R
    <3>1. R \in SUBSET (1..n) /\ R # {}
      BY <1>4, <1>5 DEF R
    <3> QED BY <3>1, Greatest
  <2> HIDE DEF m
  <2>2. m \in DOMAIN values /\ m \in 1..n /\ m < i
    BY <1>0, <2>1 DEF UpTo
  <2>3. ASSUME NEW j \in DOMAIN values PROVE j <= m <=> j <= i /\ j # i
    <3>1. j \in 1..n
      OBVIOUS
    <3>2. j <= i /\ j # i => j <= m
      BY <2>1 DEF UpTo
    <3> QED BY <1>0, <2>2, <3>1, <3>2
  <2>4. UpTo(values, m) = R
    BY <2>3 DEF UpTo
  <2> HIDE DEF R
  <2> QED BY <2>2, <2>4 DEF R, m
<1>6. ASSUME i - 1 \in DOMAIN values PROVE UpTo(values, i - 1) = U \ {i}
  <2>1. \A j \in DOMAIN values : j <= i - 1 <=> j <= i /\ j # i
    BY <1>0
  <2> QED BY <2>1 DEF UpTo
<1> QED BY <1>0, <1>1, <1>2, <1>3, <1>5, <1>6

\* What a law makes of a candle depends on what the values say up to it, and on
\* what the law made of the candles before.
LEMMA FollowAgrees ==
    ASSUME NEW law, NEW period \in Nat \ {0}, NEW v, NEW w, Runs(law, v), Runs(law, w),
           NEW n \in Nat, Foretold(v, w, n), NEW f, NEW g, NEW i \in Indexes(law, v, period),
           \A j \in Indexes(law, v, period) : j < i => f[j] = g[j]
    PROVE  Follow(law, v, period, f, i) = Follow(law, w, period, g, i)
<1>1. i \in DOMAIN v /\ i \in DOMAIN w /\ i <= n /\ v[i] = w[i]
  BY DEF Foretold, Indexes
<1>2. PICK top \in Nat : DOMAIN v \subseteq 1..top
  BY DEF Runs
<1>3. UpTo(v, i) = UpTo(w, i) /\ \A j \in UpTo(v, i) : v[j] = w[j]
  <2>1. i \in Nat /\ \A j \in DOMAIN v : j \in Nat
    BY <1>1, <1>2
  <2>2. \E m \in Nat : DOMAIN w \subseteq 1..m
    BY DEF Runs
  <2>3. \A j \in DOMAIN w : j \in Nat
    BY <2>2
  <2>4. \A j \in DOMAIN w : j <= i => j <= n
    BY <1>1, <2>1, <2>3
  <2> QED BY <2>4 DEF UpTo, Foretold
<1>4. CASE law \in Stepped
  <2>1. Len(v) \in Nat /\ DOMAIN v = 1..Len(v) /\ i \in 1..Len(v)
    BY <1>1, <1>4 DEF Runs
  <2>2. \A j \in 1..i : v[j] = w[j] /\ j \in DOMAIN v
    BY <2>1 DEF Foretold
  <2>3. CASE Starts(law, v, period, i)
    <3>1. i = period \/ i = period + 1
      BY <1>4, <2>3 DEF Starts
    <3>2. 1..period \subseteq 1..i /\ 2..i \subseteq 1..i
      BY <2>1, <3>1
    <3>3. \A j \in 1..period : v[j] = w[j]
      BY <2>2, <3>2
    <3>4. \A j \in 2..i : v[j] = w[j]
      BY <2>2, <3>2
    <3>5. SumOf(v, 1..period) = SumOf(w, 1..period) /\ Mean(v, 1..period) = Mean(w, 1..period)
      BY <3>3, SumsAgree
    <3>6. SumOf(v, 2..i) = SumOf(w, 2..i) /\ Mean(v, 2..i) = Mean(w, 2..i)
      BY <3>4, SumsAgree
    <3>7. First(law, v, period, i) = First(law, w, period, i)
      BY <1>4, <3>5, <3>6 DEF First, Stepped
    <3>8. Starts(law, w, period, i)
      BY <1>4, <2>3 DEF Starts
    <3> QED BY <2>3, <3>7, <3>8 DEF Follow
  <2>4. CASE ~Starts(law, v, period, i)
    <3>1. i - 1 \in Indexes(law, v, period) /\ i - 1 < i
      BY <1>4, <2>1, <2>4 DEF Indexes, Starts
    <3>2. f[i - 1] = g[i - 1]
      BY <3>1
    <3>3. law = "sma" => v[i - period] = w[i - period]
      <4> SUFFICES ASSUME law = "sma" PROVE i - period \in 1..i
        BY <2>2
      <4>1. i >= period /\ i # period
        BY <2>4 DEF Indexes, Starts
      <4> QED BY <2>1, <4>1
    <3>4. Next(law, v, period, f, i) = Next(law, w, period, g, i)
      BY <1>1, <1>4, <3>2, <3>3 DEF Next, Stepped
    <3>5. ~Starts(law, w, period, i)
      BY <1>4, <2>4 DEF Starts
    <3> QED BY <2>4, <3>4, <3>5 DEF Follow
  <2> QED BY <2>3, <2>4
<1>5. CASE law \in Gapped
  <2>0. law \notin Stepped /\ law \notin {"ema", "sma"}
    BY <1>5 DEF Stepped, Gapped
  <2>1. Starts(law, v, period, i) <=> Starts(law, w, period, i)
    BY <1>3, <2>0 DEF Starts
  <2>2. First(law, v, period, i) = First(law, w, period, i)
    <3>1. Mean(v, UpTo(v, i)) = Mean(w, UpTo(v, i))
      BY <1>3, SumsAgree
    <3> QED BY <1>3, <1>5, <3>1 DEF First, Gapped
  <2>3. ASSUME ~Starts(law, v, period, i)
        PROVE  Next(law, v, period, f, i) = Next(law, w, period, g, i)
    <3> DEFINE U == UpTo(v, i)
               R == U \ {i}
               m == Max(R)
    <3>1. /\ Cardinality(U) \in Nat /\ Cardinality(R) = Cardinality(U) - 1
          /\ R # {} => m \in DOMAIN v /\ m < i /\ UpTo(v, m) = R
          /\ R = {} => Cardinality(U) = 1
          /\ i - 1 \in DOMAIN v => UpTo(v, i - 1) = R
      BY <1>1, <1>2, GapsCount
    <3>2. Cardinality(U) >= period /\ Cardinality(U) # period
      BY <2>0, <2>3 DEF Indexes, Starts
    <3>3. R # {} /\ Cardinality(R) >= period
      <4> HIDE DEF U, R
      <4> QED BY <3>1, <3>2
    <3>4. m \in Indexes(law, v, period) /\ m < i
      BY <2>0, <3>1, <3>3 DEF Indexes
    <3>5. f[m] = g[m]
      BY <3>4
    <3>6. i - 1 \in DOMAIN v => i - 1 \in Indexes(law, v, period)
      BY <2>0, <3>1, <3>3 DEF Indexes
    <3>7. i - 1 \in DOMAIN v => f[i - 1] = g[i - 1]
      BY <1>1, <1>2, <3>6
    <3>8. i - 1 \in DOMAIN v <=> i - 1 \in DOMAIN w
      <4>1. i \in Nat /\ i - 1 <= n
        BY <1>1, <1>2
      <4> QED BY <4>1 DEF Foretold
    <3>9. CASE law = "gaps"
      <4>1. UpTo(w, i) \ {i} = R
        BY <1>3
      <4> QED BY <1>1, <3>5, <3>9, <4>1 DEF Next
    <3>10. CASE law = "adx"
      BY <1>1, <3>7, <3>8, <3>10 DEF Next
    <3> QED BY <1>5, <3>9, <3>10 DEF Gapped
  <2> QED BY <2>1, <2>2, <2>3 DEF Follow
<1> QED BY <1>4, <1>5 DEF Runs

\* A list says of itself what it says.
LEMMA ForetoldBySelf ==
    ASSUME NEW v, NEW n \in Nat, DOMAIN v \subseteq 1..n
    PROVE  Foretold(v, v, n)
BY DEF Foretold

\* Every law has a run.
LEMMA LawsRun ==
    ASSUME NEW law, NEW period \in Nat \ {0}, NEW v, Runs(law, v)
    PROVE  \E f : Obeys(law, v, period, f)
<1>1. PICK n \in Nat : DOMAIN v \subseteq 1..n
  BY DEF Runs
<1> DEFINE D == Indexes(law, v, period)
           upto(k) == {j \in D : j <= k}
           Part(k, f) == f = [i \in upto(k) |-> Follow(law, v, period, f, i)]
           good == {k \in 0..n : \E f : Part(k, f)}
<1> HIDE DEF D
<1>2. \A j \in D : j \in 1..n
  BY <1>1 DEF D, Indexes
<1>3. Foretold(v, v, n)
  BY <1>1, ForetoldBySelf
<1>4. 0 \in good
  <2>1. upto(0) = {}
    <3>1. \A j \in D : ~(j <= 0)
      BY <1>2
    <3> QED BY <3>1
  <2>2. Part(0, [i \in upto(0) |-> 0])
    BY <2>1
  <2> HIDE DEF Part
  <2> QED BY <2>2
<1>5. ASSUME NEW k \in 1..n, k - 1 \in good PROVE k \in good
  <2>1. PICK f : Part(k - 1, f)
    BY <1>5
  <2> DEFINE g == [i \in upto(k) |-> Follow(law, v, period, f, i)]
  <2>2. ASSUME NEW i \in upto(k), NEW j \in D, j < i PROVE g[j] = f[j]
    <3>1. j \in upto(k) /\ j \in upto(k - 1)
      BY <1>2, <2>2
    <3> QED BY <2>1, <3>1
  <2>3. ASSUME NEW i \in upto(k) PROVE Follow(law, v, period, f, i) = Follow(law, v, period, g, i)
    <3>1. \A j \in D : j < i => f[j] = g[j]
      BY <2>2
    <3>2. i \in D
      OBVIOUS
    <3> HIDE DEF g
    <3> QED BY <1>3, <3>1, <3>2, FollowAgrees DEF D
  <2>4. g = [i \in upto(k) |-> Follow(law, v, period, g, i)]
    BY <2>3
  <2>5. Part(k, g)
    <3> HIDE DEF g
    <3> QED BY <2>4
  <2> HIDE DEF Part, g
  <2> QED BY <2>5
<1>6. n \in good
  <2>1. good \in SUBSET (0..n)
    <3> HIDE DEF Part
    <3> QED OBVIOUS
  <2> HIDE DEF good
  <2>2. \A k \in 0..n : k \in good
    BY <1>4, <1>5, <2>1, KeptAlong
  <2> QED BY <2>2
<1>7. PICK f : Part(n, f)
  BY <1>6
<1>8. upto(n) = D
  <2>1. \A j \in D : j <= n
    BY <1>2
  <2> QED BY <2>1
<1>9. f = [i \in D |-> Follow(law, v, period, f, i)]
  <2>1. f = [i \in upto(n) |-> Follow(law, v, period, f, i)]
    BY <1>7
  <2> HIDE DEF upto
  <2> QED BY <1>8, <2>1
<1> QED BY <1>9 DEF Obeys, D

\* The run of a law: what follows from the candle before, from the first on.
RunOfLaw(law, values, period) == CHOOSE f : Obeys(law, values, period, f)

\* A run obeys its law, and is where the law has indexes.
LEMMA RunsObey ==
    ASSUME NEW law, NEW period \in Nat \ {0}, NEW v, Runs(law, v)
    PROVE  /\ Obeys(law, v, period, RunOfLaw(law, v, period))
           /\ DOMAIN RunOfLaw(law, v, period) = Indexes(law, v, period)
<1>1. Obeys(law, v, period, RunOfLaw(law, v, period))
  BY LawsRun DEF RunOfLaw
<1> QED BY <1>1 DEF Obeys

\* A run of a law on the candles so far is the run on all of them, so far.
LEMMA RunsForetold ==
    ASSUME NEW law, NEW period \in Nat \ {0}, NEW v, NEW w, Runs(law, v), Runs(law, w),
           NEW n \in Nat, Foretold(v, w, n)
    PROVE  Foretold(RunOfLaw(law, v, period), RunOfLaw(law, w, period), n)
<1> DEFINE f == RunOfLaw(law, v, period)
           g == RunOfLaw(law, w, period)
           D == Indexes(law, v, period)
           E == Indexes(law, w, period)
<1>1. Obeys(law, v, period, f) /\ DOMAIN f = D /\ Obeys(law, w, period, g) /\ DOMAIN g = E
  BY RunsObey
<1>2. D \subseteq Nat /\ \A i \in DOMAIN w : i \in Nat
  BY DEF Indexes, Runs
<1>3. D = {i \in E : i <= n}
  <2>1. ASSUME NEW i \in DOMAIN w, i <= n PROVE UpTo(v, i) = UpTo(w, i)
    <3>1. \A j \in DOMAIN w : j <= i => j <= n
      BY <1>2, <2>1
    <3> QED BY <3>1 DEF UpTo, Foretold
  <2> QED BY <2>1 DEF Indexes, Foretold
<1> HIDE DEF f, g
<1>4. ASSUME NEW i \in D, \A j \in D : j < i => f[j] = g[j] PROVE f[i] = g[i]
  <2>1. f[i] = Follow(law, v, period, f, i) /\ g[i] = Follow(law, w, period, g, i)
    BY <1>1, <1>3 DEF Obeys
  <2>2. Follow(law, v, period, f, i) = Follow(law, w, period, g, i)
    BY <1>4, FollowAgrees
  <2> QED BY <2>1, <2>2
<1> HIDE DEF D, E
<1> DEFINE good == {i \in D : f[i] = g[i]}
<1>5. \A i \in D : (\A j \in D : j < i => j \in good) => i \in good
  BY <1>4
<1>6. D \subseteq good
  <2> HIDE DEF good
  <2> QED BY <1>2, <1>5, ByTheEarlier
<1> QED BY <1>1, <1>3, <1>6 DEF Foretold, f, g

-----------------------------------------------------------------------------
(* The recursions of indicators.py obey their laws.                        *)

LEMMA EmaIsRun ==
    ASSUME NEW values, NEW period \in Nat \ {0}, Runs("ema", values)
    PROVE  Ema(values, period) = RunOfLaw("ema", values, period)
<1> DEFINE P(f) == f = [i \in period..Len(values) |->
                          IF i = period THEN Mean(values, 1..period)
                          ELSE f[i - 1] + (2 * (values[i] - f[i - 1])) \div (period + 1)]
           Q(f) == Obeys("ema", values, period, f)
<1>1. Indexes("ema", values, period) = period..Len(values)
  BY DEF Runs, Indexes, Stepped
<1>2. ASSUME NEW f PROVE P(f) <=> Q(f)
  BY <1>1 DEF Obeys, Follow, Starts, First, Next
<1>3. (CHOOSE f : P(f)) = (CHOOSE f : Q(f))
  <2> HIDE DEF P, Q
  <2> QED BY <1>2, Zenon
<1> QED BY <1>3 DEF Ema, RunOfLaw

\* The mean that passes over gaps runs by the law of gaps.
LEMMA EmaOfOptionalIsRun ==
    ASSUME NEW values, NEW period \in Nat \ {0}, Runs("gaps", values)
    PROVE  EmaOfOptional(values, period) = RunOfLaw("gaps", values, period)
<1> DEFINE U(i) == {j \in DOMAIN values : j <= i}
           P(f) == f = [i \in {j \in DOMAIN values : Cardinality(U(j)) >= period} |->
                          IF Cardinality(U(i)) = period THEN Mean(values, U(i))
                          ELSE LET previous == f[Max(U(i) \ {i})]
                               IN  previous + (2 * (values[i] - previous)) \div (period + 1)]
           Q(f) == Obeys("gaps", values, period, f)
<1>1. Indexes("gaps", values, period) = {j \in DOMAIN values : Cardinality(U(j)) >= period}
  BY DEF Indexes, Stepped, UpTo
<1>2. \A i : U(i) = UpTo(values, i)
  BY DEF UpTo
<1>3. ASSUME NEW f PROVE P(f) <=> Q(f)
  <2> HIDE DEF U
  <2> QED BY <1>1, <1>2 DEF Obeys, Follow, Starts, First, Next, Stepped
<1>4. (CHOOSE f : P(f)) = (CHOOSE f : Q(f))
  <2> HIDE DEF P, Q
  <2> QED BY <1>3, Zenon
<1> QED BY <1>4 DEF EmaOfOptional, RunOfLaw

\* The running mean is the running total over its window.
LEMMA SmaIsRun ==
    ASSUME NEW values, NEW period \in Nat \ {0}, Runs("sma", values)
    PROVE  LET total == RunOfLaw("sma", values, period)
           IN  Sma(values, period) = [i \in DOMAIN total |-> total[i] \div period]
<1> DEFINE P(f) == f = [i \in period..Len(values) |->
                          IF i = period THEN SumOf(values, 1..period)
                          ELSE f[i - 1] + values[i] - values[i - period]]
           Q(f) == Obeys("sma", values, period, f)
<1>1. Indexes("sma", values, period) = period..Len(values)
  BY DEF Runs, Indexes, Stepped
<1>2. ASSUME NEW f PROVE P(f) <=> Q(f)
  BY <1>1 DEF Obeys, Follow, Starts, First, Next
<1>3. (CHOOSE f : P(f)) = (CHOOSE f : Q(f))
  <2> HIDE DEF P, Q
  <2> QED BY <1>2, Zenon
<1>4. (CHOOSE f : P(f)) = RunOfLaw("sma", values, period)
  BY <1>3 DEF RunOfLaw
<1>5. Sma(values, period) = LET total == CHOOSE f : P(f) IN [i \in DOMAIN total |-> total[i] \div period]
  BY DEF Sma
<1> HIDE DEF P
<1> QED BY <1>4, <1>5

\* The smoothing of rsi and atr runs by its law.
LEMMA WilderIsRun ==
    ASSUME NEW values, NEW period \in Nat \ {0}, Runs("wilder", values)
    PROVE  Wilder(values, period) = RunOfLaw("wilder", values, period)
<1> DEFINE P(f) == f = [i \in (period + 1)..Len(values) |->
                          IF i = period + 1 THEN Mean(values, 2..i)
                          ELSE (f[i - 1] * (period - 1) + values[i]) \div period]
           Q(f) == Obeys("wilder", values, period, f)
<1>1. Indexes("wilder", values, period) = (period + 1)..Len(values)
  BY DEF Runs, Indexes, Stepped
<1>2. ASSUME NEW f PROVE P(f) <=> Q(f)
  BY <1>1 DEF Obeys, Follow, Starts, First, Next, Stepped
<1>3. (CHOOSE f : P(f)) = (CHOOSE f : Q(f))
  <2> HIDE DEF P, Q
  <2> QED BY <1>2, Zenon
<1> QED BY <1>3 DEF Wilder, RunOfLaw

\* The running sum of adx runs by its law.
LEMMA SmoothedIsRun ==
    ASSUME NEW values, NEW period \in Nat \ {0}, Runs("smoothed", values)
    PROVE  Smoothed(values, period) = RunOfLaw("smoothed", values, period)
<1> DEFINE P(f) == f = [i \in (period + 1)..Len(values) |->
                          IF i = period + 1 THEN SumOf(values, 2..i)
                          ELSE f[i - 1] - f[i - 1] \div period + values[i]]
           Q(f) == Obeys("smoothed", values, period, f)
<1>1. Indexes("smoothed", values, period) = (period + 1)..Len(values)
  BY DEF Runs, Indexes, Stepped
<1>2. ASSUME NEW f PROVE P(f) <=> Q(f)
  BY <1>1 DEF Obeys, Follow, Starts, First, Next, Stepped
<1>3. (CHOOSE f : P(f)) = (CHOOSE f : Q(f))
  <2> HIDE DEF P, Q
  <2> QED BY <1>2, Zenon
<1> QED BY <1>3 DEF Smoothed, RunOfLaw

\* The average of dx runs by its law.
LEMMA AveragedIsRun ==
    ASSUME NEW values, NEW period \in Nat \ {0}, Runs("adx", values)
    PROVE  Averaged(values, period) = RunOfLaw("adx", values, period)
<1> DEFINE U(i) == {j \in DOMAIN values : j <= i}
           P(f) == f = [i \in {j \in DOMAIN values : Cardinality(U(j)) >= period} |->
                          IF Cardinality(U(i)) = period THEN Mean(values, U(i))
                          ELSE ((IF i - 1 \in DOMAIN values THEN f[i - 1] ELSE 0) * (period - 1) + values[i]) \div period]
           Q(f) == Obeys("adx", values, period, f)
<1>1. Indexes("adx", values, period) = {j \in DOMAIN values : Cardinality(U(j)) >= period}
  BY DEF Indexes, Stepped, UpTo
<1>2. \A i : U(i) = UpTo(values, i)
  BY DEF UpTo
<1>3. ASSUME NEW f PROVE P(f) <=> Q(f)
  <2> HIDE DEF U
  <2> QED BY <1>1, <1>2 DEF Obeys, Follow, Starts, First, Next, Stepped
<1>4. (CHOOSE f : P(f)) = (CHOOSE f : Q(f))
  <2> HIDE DEF P, Q
  <2> QED BY <1>3, Zenon
<1> QED BY <1>4 DEF Averaged, RunOfLaw

-----------------------------------------------------------------------------
(* No indicator looks ahead.                                               *)

Lists(v) == Len(v) \in Nat /\ DOMAIN v = 1..Len(v)
\* The list of the first candles, and the list of all of them.
Begins(early, late, n) == n \in Nat /\ Lists(early) /\ Lists(late) /\ Foretold(early, late, n)

\* A function over 1..n is a list.
LEMMA FunctionLists ==
    ASSUME NEW n \in Nat, NEW f, f = [i \in 1..n |-> f[i]]
    PROVE  Lists(f) /\ Len(f) = n
<1>1. f \in [1..n -> {f[i] : i \in 1..n}]
  BY Zenon
<1>2. Len(f) = n
  BY <1>1, SeqOfFunction
<1>3. DOMAIN f = 1..n
  BY <1>1
<1> QED BY <1>2, <1>3 DEF Lists

\* What a list says at an index, and before it.
LEMMA ListsBegin ==
    ASSUME NEW c, NEW d, NEW n, Begins(c, d, n), NEW i \in DOMAIN c
    PROVE  /\ i \in Nat /\ i >= 1 /\ i <= n /\ i \in DOMAIN d /\ c[i] = d[i]
           /\ i # 1 => i - 1 \in DOMAIN c /\ i - 1 \in DOMAIN d /\ c[i - 1] = d[i - 1]
           /\ \A j \in 1..i : j \in DOMAIN c /\ j \in DOMAIN d /\ c[j] = d[j]
<1>1. i \in Nat /\ i >= 1 /\ \A j \in 1..i : j \in DOMAIN c
  BY DEF Begins, Lists
<1>2. i \in 1..i /\ (i # 1 => i - 1 \in 1..i)
  BY <1>1
<1> QED BY <1>1, <1>2 DEF Begins, Foretold

\* Lists that are told from a list candle by candle begin alike.
LEMMA ListsFollow ==
    ASSUME NEW c, NEW d, NEW n, Begins(c, d, n), NEW f, NEW g,
           f = [i \in DOMAIN c |-> f[i]], g = [i \in DOMAIN d |-> g[i]],
           \A i \in DOMAIN c : f[i] = g[i]
    PROVE  Begins(f, g, n)
<1>1. Len(c) \in Nat /\ DOMAIN c = 1..Len(c) /\ Len(d) \in Nat /\ DOMAIN d = 1..Len(d)
  BY DEF Begins, Lists
<1>2. Lists(f)
  BY <1>1, FunctionLists
<1>3. Lists(g)
  BY <1>1, FunctionLists
<1>4. DOMAIN f = DOMAIN c /\ DOMAIN g = DOMAIN d
  OBVIOUS
<1>5. Foretold(f, g, n)
  BY <1>4 DEF Begins, Foretold
<1> QED BY <1>2, <1>3, <1>5 DEF Begins

\* The runs over lists that begin alike are foretold.
LEMMA ListRunsForetold ==
    ASSUME NEW law \in Stepped, NEW period \in Nat \ {0}, NEW v, NEW w, NEW n, Begins(v, w, n)
    PROVE  /\ Runs(law, v) /\ Runs(law, w)
           /\ Foretold(RunOfLaw(law, v, period), RunOfLaw(law, w, period), n)
<1>1. Runs(law, v) /\ Runs(law, w)
  BY DEF Begins, Lists, Runs
<1>2. n \in Nat /\ Foretold(v, w, n)
  BY DEF Begins
<1> QED BY <1>1, <1>2, RunsForetold

\* The exponential mean does not look ahead.
LEMMA EmaForetold ==
    ASSUME NEW period \in Nat \ {0}, NEW v, NEW w, NEW n, Begins(v, w, n)
    PROVE  Foretold(Ema(v, period), Ema(w, period), n)
BY ListRunsForetold, EmaIsRun DEF Stepped

\* The running mean does not look ahead.
LEMMA SmaForetold ==
    ASSUME NEW period \in Nat \ {0}, NEW v, NEW w, NEW n, Begins(v, w, n)
    PROVE  Foretold(Sma(v, period), Sma(w, period), n)
<1> DEFINE f == RunOfLaw("sma", v, period)
           g == RunOfLaw("sma", w, period)
<1>1. Runs("sma", v) /\ Runs("sma", w) /\ Foretold(f, g, n)
  BY ListRunsForetold DEF Stepped
<1>2. Sma(v, period) = [i \in DOMAIN f |-> f[i] \div period]
  BY <1>1, SmaIsRun
<1>3. Sma(w, period) = [i \in DOMAIN g |-> g[i] \div period]
  BY <1>1, SmaIsRun
<1> HIDE DEF f, g
<1> QED BY <1>1, <1>2, <1>3 DEF Foretold

\* The smoothing of rsi and atr does not look ahead.
LEMMA WilderForetold ==
    ASSUME NEW period \in Nat \ {0}, NEW v, NEW w, NEW n, Begins(v, w, n)
    PROVE  Foretold(Wilder(v, period), Wilder(w, period), n)
BY ListRunsForetold, WilderIsRun DEF Stepped

\* The running sum of adx does not look ahead.
LEMMA SmoothedForetold ==
    ASSUME NEW period \in Nat \ {0}, NEW v, NEW w, NEW n, Begins(v, w, n)
    PROVE  Foretold(Smoothed(v, period), Smoothed(w, period), n)
BY ListRunsForetold, SmoothedIsRun DEF Stepped

\* Where two series have a number, both of them.
LEMMA BothForetold ==
    ASSUME NEW e, NEW f, NEW g, NEW h, NEW n, Foretold(e, f, n), Foretold(g, h, n)
    PROVE  Both(e, g) = {i \in Both(f, h) : i <= n}
BY DEF Both, Foretold

\* The histogram of macd does not look ahead: neither its line nor its signal does.
LEMMA MacdForetold ==
    ASSUME NEW fast \in Nat \ {0}, NEW slow \in Nat \ {0}, NEW signal \in Nat \ {0},
           NEW v, NEW w, NEW n, Begins(v, w, n)
    PROVE  Foretold(MacdHist(v, fast, slow, signal), MacdHist(w, fast, slow, signal), n)
<1> DEFINE lv == MacdLine(v, fast, slow)
           lw == MacdLine(w, fast, slow)
           sv == EmaOfOptional(lv, signal)
           sw == EmaOfOptional(lw, signal)
<1>1. Foretold(Ema(v, fast), Ema(w, fast), n) /\ Foretold(Ema(v, slow), Ema(w, slow), n)
  BY EmaForetold
<1>2. Foretold(lv, lw, n)
  <2>1. DOMAIN lv = {i \in DOMAIN lw : i <= n}
    BY <1>1, BothForetold DEF MacdLine
  <2>2. \A i \in DOMAIN lv : i \in DOMAIN lw /\ i \in DOMAIN Ema(v, fast) /\ i \in DOMAIN Ema(v, slow)
    BY <2>1 DEF MacdLine, Both
  <2>3. \A i \in DOMAIN lv : lv[i] = Ema(v, fast)[i] - Ema(v, slow)[i]
    BY DEF MacdLine
  <2>4. \A i \in DOMAIN lw : lw[i] = Ema(w, fast)[i] - Ema(w, slow)[i]
    BY DEF MacdLine
  <2> HIDE DEF lv, lw
  <2> QED BY <1>1, <2>1, <2>2, <2>3, <2>4 DEF Foretold
<1>3. ASSUME NEW u \in {v, w} PROVE Runs("gaps", MacdLine(u, fast, slow))
  <2>1. Runs("ema", u) /\ Len(u) \in Nat /\ DOMAIN u = 1..Len(u)
    BY DEF Begins, Lists, Runs, Stepped
  <2>2. DOMAIN Ema(u, fast) = Indexes("ema", u, fast)
    BY <2>1, EmaIsRun, RunsObey
  <2>3. DOMAIN MacdLine(u, fast, slow) \subseteq 1..Len(u)
    BY <2>1, <2>2 DEF MacdLine, Both, Indexes
  <2> QED BY <2>1, <2>3 DEF Runs, Gapped, Stepped
<1>4. Runs("gaps", lv) /\ Runs("gaps", lw)
  BY <1>3
<1>5. Foretold(sv, sw, n)
  <2>1. n \in Nat
    BY DEF Begins
  <2> HIDE DEF lv, lw
  <2> QED BY <1>2, <1>4, <2>1, RunsForetold, EmaOfOptionalIsRun
<1>6. MacdHist(v, fast, slow, signal) = [i \in Both(lv, sv) |-> lv[i] - sv[i]]
  BY DEF MacdHist
<1>7. MacdHist(w, fast, slow, signal) = [i \in Both(lw, sw) |-> lw[i] - sw[i]]
  BY DEF MacdHist
<1> HIDE DEF lv, lw, sv, sw
<1>8. Both(lv, sv) = {i \in Both(lw, sw) : i <= n}
  BY <1>2, <1>5, BothForetold
<1>9. \A i \in Both(lv, sv) : lv[i] = lw[i] /\ sv[i] = sw[i]
  BY <1>2, <1>5 DEF Both, Foretold
<1> QED BY <1>6, <1>7, <1>8, <1>9 DEF Foretold

SquaresOver(values, middle, W) ==
    MapThenSumSet(LAMBDA j : (values[j] - middle) * (values[j] - middle), W)

\* The squares look at the values they add up, and at nothing else.
LEMMA SquaresAgree ==
    ASSUME NEW v, NEW w, NEW middle, NEW W, \A i \in W : v[i] = w[i]
    PROVE  SquaresOver(v, middle, W) = SquaresOver(w, middle, W)
<1> DEFINE P(f) == f = [s \in SUBSET W |->
                          IF s = {} THEN 0
                          ELSE LET x == CHOOSE x \in s : TRUE
                               IN (v[x] - middle) * (v[x] - middle) + f[s \ {x}]]
           Q(f) == f = [s \in SUBSET W |->
                          IF s = {} THEN 0
                          ELSE LET x == CHOOSE x \in s : TRUE
                               IN (w[x] - middle) * (w[x] - middle) + f[s \ {x}]]
<1>1. \A s \in SUBSET W : s # {} => v[CHOOSE x \in s : TRUE] = w[CHOOSE x \in s : TRUE]
  OBVIOUS
<1>2. \A f : P(f) <=> Q(f)
  BY <1>1
<1>3. (CHOOSE f : P(f)) = (CHOOSE f : Q(f))
  <2> HIDE DEF P, Q
  <2> QED BY <1>2, Zenon
<1>4. /\ SquaresOver(v, middle, W) = (CHOOSE f : P(f))[W]
      /\ SquaresOver(w, middle, W) = (CHOOSE f : Q(f))[W]
  BY DEF SquaresOver, MapThenSumSet, MapThenFoldSet
<1> HIDE DEF P, Q
<1> QED BY <1>3, <1>4

\* The window of the last candles lies in the list.
LEMMA WindowBegins ==
    ASSUME NEW c, NEW d, NEW n, Begins(c, d, n), NEW period \in Nat \ {0},
           NEW i \in period..Len(c)
    PROVE  /\ i \in DOMAIN c /\ i \in period..Len(d) /\ i <= n
           /\ \A j \in Trailing(i, period) : j \in DOMAIN c /\ c[j] = d[j]
<1>1. i \in DOMAIN c /\ \A j \in Trailing(i, period) : j \in 1..i
  BY DEF Begins, Lists, Trailing
<1>2. i <= n /\ i \in DOMAIN d /\ \A j \in 1..i : j \in DOMAIN c /\ c[j] = d[j]
  BY <1>1, ListsBegin
<1>3. i \in period..Len(d)
  BY <1>2 DEF Begins, Lists
<1> QED BY <1>1, <1>2, <1>3

\* Windows are foretold: they are full from the same candle on.
LEMMA WindowsForetold ==
    ASSUME NEW c, NEW d, NEW n, Begins(c, d, n), NEW period \in Nat \ {0}
    PROVE  period..Len(c) = {i \in period..Len(d) : i <= n}
<1>1. 1..Len(c) = {i \in 1..Len(d) : i <= n} /\ Len(c) \in Nat /\ Len(d) \in Nat /\ n \in Nat
  BY DEF Begins, Lists, Foretold
<1>2. \A i \in period..Len(d) : i \in 1..Len(d)
  BY <1>1
<1>3. \A i \in period..Len(c) : i \in 1..Len(c)
  BY <1>1
<1> QED BY <1>1, <1>2, <1>3

\* The bands do not look ahead.
LEMMA BollingerForetold ==
    ASSUME NEW period \in Nat \ {0}, NEW deviations, NEW v, NEW w, NEW n, Begins(v, w, n)
    PROVE  Foretold(Bollinger(v, period, deviations), Bollinger(w, period, deviations), n)
<1> DEFINE squares(u, i) == SquaresOver(u, Mean(u, Trailing(i, period)), Trailing(i, period))
           band(u, i) == deviations * Root(squares(u, i) \div period)
           bands(u, i) == [high |-> Mean(u, Trailing(i, period)) + band(u, i),
                           middle |-> Mean(u, Trailing(i, period)),
                           low |-> Mean(u, Trailing(i, period)) - band(u, i)]
<1>1. \A u : Bollinger(u, period, deviations) = [i \in period..Len(u) |-> bands(u, i)]
  BY DEF Bollinger, SquaresOver, MapThenSumSet, MapThenFoldSet
<1>2. ASSUME NEW i \in period..Len(v) PROVE bands(v, i) = bands(w, i)
  <2>1. \A j \in Trailing(i, period) : v[j] = w[j]
    BY WindowBegins
  <2>2. Mean(v, Trailing(i, period)) = Mean(w, Trailing(i, period))
    BY <2>1, SumsAgree
  <2>3. squares(v, i) = squares(w, i)
    BY <2>1, <2>2, SquaresAgree
  <2> HIDE DEF squares
  <2> QED BY <2>2, <2>3
<1> DEFINE e == Bollinger(v, period, deviations)
           l == Bollinger(w, period, deviations)
<1>3. e = [i \in period..Len(v) |-> bands(v, i)] /\ l = [i \in period..Len(w) |-> bands(w, i)]
  BY <1>1
<1> HIDE DEF bands, e, l
<1>4. Foretold(e, l, n)
  BY <1>2, <1>3, WindowsForetold DEF Foretold
<1> QED BY <1>4 DEF e, l

\* The channel does not look ahead.
LEMMA DonchianForetold ==
    ASSUME NEW period \in Nat \ {0}, NEW v, NEW w, NEW x, NEW y, NEW n,
           Begins(v, w, n), Begins(x, y, n), Len(v) = Len(x)
    PROVE  Foretold(Donchian(v, x, period), Donchian(w, y, period), n)
<1> DEFINE seen(u, i) == {u[j] : j \in Trailing(i, period)}
           channel(u, z, i) == [high |-> Max(seen(u, i)), low |-> Min(seen(z, i))]
<1>1. ASSUME NEW i \in period..Len(v) PROVE seen(v, i) = seen(w, i) /\ seen(x, i) = seen(y, i)
  BY WindowBegins
<1>2. \A i \in period..Len(v) : channel(v, x, i) = channel(w, y, i)
  <2> HIDE DEF seen
  <2> QED BY <1>1
<1> DEFINE e == Donchian(v, x, period)
           l == Donchian(w, y, period)
<1>3. e = [i \in period..Len(v) |-> channel(v, x, i)] /\ l = [i \in period..Len(w) |-> channel(w, y, i)]
  BY DEF Donchian
<1> HIDE DEF channel, e, l
<1>4. Foretold(e, l, n)
  BY <1>2, <1>3, WindowsForetold DEF Foretold
<1> QED BY <1>4 DEF e, l

\* The channel of ranges looks no further than its mean and its range.
LEMMA KeltnerForetold ==
    ASSUME NEW e, NEW f, NEW g, NEW h, NEW n, Foretold(e, f, n), Foretold(g, h, n), NEW halves
    PROVE  Foretold(Keltner(e, g, halves), Keltner(f, h, halves), n)
<1>1. Both(e, g) = {i \in Both(f, h) : i <= n}
  BY BothForetold
<1>2. \A i \in Both(e, g) : e[i] = f[i] /\ g[i] = h[i]
  BY DEF Both, Foretold
<1> QED BY <1>1, <1>2 DEF Keltner, Foretold

\* The strength index does not look ahead.
LEMMA RsiForetold ==
    ASSUME NEW period \in Nat \ {0}, NEW v, NEW w, NEW n, Begins(v, w, n)
    PROVE  Foretold(Rsi(v, period), Rsi(w, period), n)
<1> DEFINE ups(u) == [i \in DOMAIN u |-> Max({Change(u, i), 0})]
           downs(u) == [i \in DOMAIN u |-> Max({-Change(u, i), 0})]
           gain(u) == Wilder(ups(u), period)
           loss(u) == Wilder(downs(u), period)
<1>1. \A i \in DOMAIN v : Change(v, i) = Change(w, i)
  BY ListsBegin DEF Change
<1>2. \A i \in DOMAIN v : i \in DOMAIN w
  BY ListsBegin
<1>3. Begins(ups(v), ups(w), n) /\ Begins(downs(v), downs(w), n)
  <2>1. \A i \in DOMAIN v : ups(v)[i] = ups(w)[i] /\ downs(v)[i] = downs(w)[i]
    BY <1>1, <1>2
  <2>2. \A u : ups(u) = [i \in DOMAIN u |-> ups(u)[i]] /\ downs(u) = [i \in DOMAIN u |-> downs(u)[i]]
    OBVIOUS
  <2> HIDE DEF ups, downs
  <2> QED BY <2>1, <2>2, ListsFollow
<1>4. Foretold(gain(v), gain(w), n) /\ Foretold(loss(v), loss(w), n)
  <2> HIDE DEF ups, downs
  <2> QED BY <1>3, WilderForetold
<1>5. DOMAIN gain(v) = DOMAIN loss(v)
  <2>1. Len(ups(v)) = Len(v) /\ Len(downs(v)) = Len(v)
    <3>1. DOMAIN v = 1..Len(v) /\ Len(v) \in Nat
      BY DEF Begins, Lists
    <3> QED BY <3>1, FunctionLists
  <2>2. Runs("wilder", ups(v)) /\ Runs("wilder", downs(v))
    <3> HIDE DEF ups, downs
    <3> QED BY <1>3, ListRunsForetold DEF Stepped
  <2>3. DOMAIN gain(v) = Indexes("wilder", ups(v), period) /\ DOMAIN loss(v) = Indexes("wilder", downs(v), period)
    <3> HIDE DEF ups, downs
    <3> QED BY <2>2, WilderIsRun, RunsObey
  <2>4. DOMAIN ups(v) = DOMAIN downs(v)
    OBVIOUS
  <2> HIDE DEF ups, downs, gain, loss
  <2> QED BY <2>3, <2>4 DEF Indexes, Stepped
<1> DEFINE share(u, i) == IF loss(u)[i] = 0 THEN Whole ELSE (Whole * gain(u)[i]) \div (gain(u)[i] + loss(u)[i])
           e == Rsi(v, period)
           l == Rsi(w, period)
<1>6. e = [i \in DOMAIN gain(v) |-> share(v, i)] /\ l = [i \in DOMAIN gain(w) |-> share(w, i)]
  BY DEF Rsi
<1> HIDE DEF gain, loss
<1>7. \A i \in DOMAIN gain(v) : share(v, i) = share(w, i)
  BY <1>4, <1>5 DEF Foretold
<1> HIDE DEF e, l, share
<1>8. Foretold(e, l, n)
  BY <1>4, <1>6, <1>7 DEF Foretold
<1> QED BY <1>8 DEF e, l

\* The greater of two.
LEMMA MaxOfTwo ==
    ASSUME NEW a \in Int, NEW b \in Int
    PROVE  Max({a, b}) = IF a >= b THEN a ELSE b
BY DEF Max

\* What a candle's ranges and moves are computed from is known with the candle.
LEMMA CandlesAgree ==
    ASSUME NEW c, NEW d, NEW n, Begins(c, d, n), NEW i \in DOMAIN c
    PROVE  /\ TrueRange(c, i) = TrueRange(d, i)
           /\ i # 1 => PlusDm(c, i) = PlusDm(d, i) /\ MinusDm(c, i) = MinusDm(d, i)
<1>1. c[i] = d[i] /\ (i # 1 => c[i - 1] = d[i - 1])
  BY ListsBegin
<1> QED BY <1>1 DEF TrueRange, PlusDm, MinusDm, UpMove, DownMove

\* The average range does not look ahead.
LEMMA AtrForetold ==
    ASSUME NEW period \in Nat \ {0}, NEW c, NEW d, NEW n, Begins(c, d, n)
    PROVE  Foretold(Atr(c, period), Atr(d, period), n)
<1> DEFINE ranges(u) == [i \in DOMAIN u |-> TrueRange(u, i)]
<1>1. \A i \in DOMAIN c : ranges(c)[i] = ranges(d)[i]
  BY CandlesAgree, ListsBegin
<1>2. ranges(c) = [i \in DOMAIN c |-> ranges(c)[i]] /\ ranges(d) = [i \in DOMAIN d |-> ranges(d)[i]]
  OBVIOUS
<1>3. Atr(c, period) = Wilder(ranges(c), period) /\ Atr(d, period) = Wilder(ranges(d), period)
  BY DEF Atr
<1> HIDE DEF ranges
<1>4. Begins(ranges(c), ranges(d), n)
  BY <1>1, <1>2, ListsFollow
<1> QED BY <1>3, <1>4, WilderForetold

\* The dx of a candle does not look ahead, and starts after its window.
LEMMA DxForetold ==
    ASSUME NEW period \in Nat \ {0}, NEW c, NEW d, NEW n, Begins(c, d, n)
    PROVE  /\ Foretold(Dx(c, period), Dx(d, period), n)
           /\ DOMAIN Dx(c, period) \subseteq (period + 2)..Len(c)
           /\ DOMAIN Dx(d, period) \subseteq (period + 2)..Len(d)
<1> DEFINE ranges(u) == [i \in DOMAIN u |-> IF i = 1 THEN 0 ELSE TrueRange(u, i)]
           ups(u) == [i \in DOMAIN u |-> IF i = 1 THEN 0 ELSE PlusDm(u, i)]
           downs(u) == [i \in DOMAIN u |-> IF i = 1 THEN 0 ELSE MinusDm(u, i)]
           range(u) == Smoothed(ranges(u), period)
           plus(u) == Smoothed(ups(u), period)
           minus(u) == Smoothed(downs(u), period)
<1>1. \A i \in DOMAIN c : i \in DOMAIN d /\ i <= n
  BY ListsBegin
<1>2. \A i \in DOMAIN c : ranges(c)[i] = ranges(d)[i] /\ ups(c)[i] = ups(d)[i] /\ downs(c)[i] = downs(d)[i]
  BY <1>1, CandlesAgree
<1>3. \A u \in {c, d} : /\ ranges(u) = [i \in DOMAIN u |-> ranges(u)[i]] /\ ups(u) = [i \in DOMAIN u |-> ups(u)[i]]
                        /\ downs(u) = [i \in DOMAIN u |-> downs(u)[i]]
                        /\ DOMAIN ranges(u) = DOMAIN u /\ DOMAIN ups(u) = DOMAIN u /\ DOMAIN downs(u) = DOMAIN u
  OBVIOUS
<1>4. Begins(ranges(c), ranges(d), n) /\ Begins(ups(c), ups(d), n) /\ Begins(downs(c), downs(d), n)
  <2> HIDE DEF ranges, ups, downs
  <2> QED BY <1>2, <1>3, ListsFollow
<1>5. /\ Foretold(range(c), range(d), n) /\ Foretold(plus(c), plus(d), n) /\ Foretold(minus(c), minus(d), n)
  <2> HIDE DEF ranges, ups, downs
  <2> QED BY <1>4, SmoothedForetold
<1>6. /\ Len(c) \in Nat /\ Len(d) \in Nat /\ n \in Nat /\ DOMAIN c = 1..Len(c) /\ DOMAIN d = 1..Len(d)
  BY DEF Begins, Lists
<1>7. \A i \in (period + 2)..Len(c) : i \in DOMAIN range(c) /\ i \in DOMAIN plus(c) /\ i \in DOMAIN minus(c)
  <2> DEFINE D(u) == Indexes("smoothed", u, period)
  <2>1. /\ DOMAIN range(c) = D(ranges(c)) /\ DOMAIN plus(c) = D(ups(c)) /\ DOMAIN minus(c) = D(downs(c))
    <3>1. Runs("smoothed", ranges(c)) /\ Runs("smoothed", ups(c)) /\ Runs("smoothed", downs(c))
      <4> HIDE DEF ranges, ups, downs
      <4> QED BY <1>4, ListRunsForetold DEF Stepped
    <3> HIDE DEF ranges, ups, downs
    <3> QED BY <3>1, SmoothedIsRun, RunsObey
  <2>2. DOMAIN ranges(c) = DOMAIN c /\ DOMAIN ups(c) = DOMAIN c /\ DOMAIN downs(c) = DOMAIN c
    OBVIOUS
  <2> HIDE DEF ranges, ups, downs, range, plus, minus
  <2> QED BY <1>6, <2>1, <2>2 DEF Indexes, Stepped
<1> HIDE DEF range, plus, minus
<1> DEFINE share(sum, r) == (Whole * sum) \div r
           index(p, m) == IF p + m = 0 THEN 0 ELSE (Whole * Abs(p - m)) \div (p + m)
           at(u, i) == index(share(plus(u)[i], range(u)[i]), share(minus(u)[i], range(u)[i]))
           there(u) == {j \in (period + 2)..Len(u) : range(u)[j] # 0}
           e == Dx(c, period)
           l == Dx(d, period)
<1>8. e = [i \in there(c) |-> at(c, i)] /\ l = [i \in there(d) |-> at(d, i)]
  BY DEF Dx, range, plus, minus
<1>9. \A i \in (period + 2)..Len(c) : range(c)[i] = range(d)[i] /\ at(c, i) = at(d, i)
  <2>1. \A i \in (period + 2)..Len(c) : /\ range(c)[i] = range(d)[i] /\ plus(c)[i] = plus(d)[i]
                                        /\ minus(c)[i] = minus(d)[i]
    BY <1>5, <1>7 DEF Foretold
  <2> QED BY <2>1
<1>10. (period + 2)..Len(c) = {i \in (period + 2)..Len(d) : i <= n}
  <2>1. period + 2 \in Nat \ {0}
    OBVIOUS
  <2> QED BY <2>1, WindowsForetold
<1>11. there(c) = {i \in there(d) : i <= n}
  BY <1>9, <1>10
<1>12. there(c) \subseteq (period + 2)..Len(c) /\ there(d) \subseteq (period + 2)..Len(d)
  OBVIOUS
<1> HIDE DEF at, e, l, there
<1>13. Foretold(e, l, n) /\ DOMAIN e = there(c) /\ DOMAIN l = there(d)
  BY <1>8, <1>9, <1>11, <1>12 DEF Foretold
<1> QED BY <1>12, <1>13 DEF e, l

\* An average of dx waits until it has seen as many of them as its window holds.
LEMMA AveragedStarts ==
    ASSUME NEW dx, NEW n \in Nat, NEW period \in Nat \ {0}, DOMAIN dx \subseteq (period + 2)..n
    PROVE  /\ Runs("adx", dx)
           /\ \A i : i \in DOMAIN Averaged(dx, period) <=>
                        i \in DOMAIN dx /\ Cardinality(UpTo(dx, i)) >= period
           /\ \A i \in DOMAIN Averaged(dx, period) : i \in Nat /\ i > 2 * period /\ i <= n
<1>1. Runs("adx", dx) /\ DOMAIN dx \subseteq 1..n
  BY DEF Runs, Gapped, Stepped
<1>2. DOMAIN Averaged(dx, period) = Indexes("adx", dx, period)
  BY <1>1, RunsObey, AveragedIsRun
<1>3. \A i : i \in DOMAIN Averaged(dx, period) <=> i \in DOMAIN dx /\ Cardinality(UpTo(dx, i)) >= period
  BY <1>2 DEF Indexes, Stepped
<1>4. ASSUME NEW i \in DOMAIN Averaged(dx, period) PROVE i \in Nat /\ i > 2 * period /\ i <= n
  <2>1. i \in DOMAIN dx /\ Cardinality(UpTo(dx, i)) >= period
    BY <1>3
  <2>2. i \in (period + 2)..n /\ UpTo(dx, i) \subseteq (period + 2)..i
    BY <2>1 DEF UpTo
  <2>3. IsFiniteSet((period + 2)..i) /\ Cardinality((period + 2)..i) = i - period - 1
    <3>1. period + 2 \in Int /\ i \in Int /\ period + 2 <= i
      BY <2>2
    <3> QED BY <3>1, FS_Interval
  <2>4. Cardinality(UpTo(dx, i)) <= i - period - 1 /\ Cardinality(UpTo(dx, i)) \in Nat
    BY <2>2, <2>3, FS_Subset, FS_CardinalityType
  <2> QED BY <2>1, <2>2, <2>4
<1> QED BY <1>1, <1>3, <1>4

\* The average directional index does not look ahead, though the code returns
\* none of it for a series too short for its two windows.
LEMMA AdxForetold ==
    ASSUME NEW period \in Nat \ {0}, NEW c, NEW d, NEW n, Begins(c, d, n)
    PROVE  Foretold(Adx(c, period), Adx(d, period), n)
<1> DEFINE dc == Dx(c, period)
           dd == Dx(d, period)
<1>1. /\ Foretold(dc, dd, n) /\ DOMAIN dc \subseteq (period + 2)..Len(c)
      /\ DOMAIN dd \subseteq (period + 2)..Len(d)
  BY DxForetold
<1>2. /\ Len(c) \in Nat /\ Len(d) \in Nat /\ n \in Nat /\ DOMAIN c = 1..Len(c) /\ DOMAIN d = 1..Len(d)
      /\ DOMAIN c = {i \in DOMAIN d : i <= n}
  BY DEF Begins, Lists, Foretold
<1> HIDE DEF dc, dd
<1>3. Runs("adx", dc) /\ Runs("adx", dd)
  <2>1. DOMAIN dc \subseteq 1..Len(c) /\ DOMAIN dd \subseteq 1..Len(d)
    BY <1>1, <1>2
  <2> QED BY <1>2, <2>1 DEF Runs, Gapped, Stepped
<1>4. Foretold(Averaged(dc, period), Averaged(dd, period), n)
  BY <1>1, <1>2, <1>3, RunsForetold, AveragedIsRun
<1>5. Len(c) <= Len(d) /\ (Len(c) < Len(d) => n <= Len(c))
  <2>1. Len(c) # 0 => Len(c) \in 1..Len(d)
    BY <1>2
  <2>2. ASSUME Len(c) < Len(d) PROVE n <= Len(c)
    <3>1. Len(c) + 1 \in 1..Len(d) /\ Len(c) + 1 \notin 1..Len(c)
      BY <1>2, <2>2
    <3>2. Len(c) + 1 \in DOMAIN d /\ Len(c) + 1 \notin DOMAIN c
      BY <1>2, <3>1
    <3>3. ~(Len(c) + 1 <= n)
      BY <1>2, <3>2
    <3> QED BY <1>2, <3>3
  <2> QED BY <1>2, <2>1, <2>2
<1>6. \A i \in DOMAIN Averaged(dd, period) : i > 2 * period
  BY <1>1, <1>2, AveragedStarts
<1>7. \A u \in {c, d} : Adx(u, period) = IF Len(u) > 2 * period THEN Averaged(Dx(u, period), period) ELSE <<>>
  BY DEF Adx
<1> DEFINE e == Adx(c, period)
           l == Adx(d, period)
           none == <<>>
<1>8. DOMAIN none = {}
  OBVIOUS
<1>9. /\ e = IF Len(c) > 2 * period THEN Averaged(dc, period) ELSE none
      /\ l = IF Len(d) > 2 * period THEN Averaged(dd, period) ELSE none
  BY <1>7 DEF dc, dd
<1> HIDE DEF e, l, none
<1>10. CASE Len(c) > 2 * period
  <2>1. Len(d) > 2 * period
    BY <1>2, <1>5, <1>10
  <2>2. Foretold(e, l, n)
    BY <1>4, <1>9, <1>10, <2>1
  <2> QED BY <2>2 DEF e, l
<1>11. CASE ~(Len(c) > 2 * period)
  <2>1. e = none
    BY <1>9, <1>11
  <2>2. {i \in DOMAIN l : i <= n} = {}
    <3>1. CASE Len(d) > 2 * period
      <4>1. n <= 2 * period
        BY <1>2, <1>5, <1>11, <3>1
      <4>2. \A i \in DOMAIN Averaged(dd, period) : i \in Nat
        <5>1. DOMAIN Averaged(dd, period) \subseteq DOMAIN dd
          <6>1. DOMAIN Averaged(dd, period) = Indexes("adx", dd, period)
            BY <1>3, RunsObey, AveragedIsRun
          <6> QED BY <6>1 DEF Indexes
        <5> QED BY <1>1, <1>2, <5>1
      <4> QED BY <1>2, <1>6, <1>9, <3>1, <4>1, <4>2
    <3>2. CASE ~(Len(d) > 2 * period)
      BY <1>8, <1>9, <3>2
    <3> QED BY <3>1, <3>2
  <2>3. Foretold(e, l, n)
    BY <1>8, <2>1, <2>2 DEF Foretold
  <2> QED BY <2>3 DEF e, l
<1> QED BY <1>10, <1>11

VolumeOver(candles, W) == MapThenSumSet(LAMBDA j : candles[j].volume, W)
Typical(candles, j) == (candles[j].high + candles[j].low + candles[j].close) \div 3
TurnoverOver(candles, W) == MapThenSumSet(LAMBDA j : Typical(candles, j) * candles[j].volume, W)

\* Volume and turnover are sums of what the candles traded.
LEMMA TurnoversAreSums ==
    ASSUME NEW u, NEW W
    PROVE  /\ VolumeOver(u, W) = SumOf([i \in W |-> u[i].volume], W)
           /\ TurnoverOver(u, W) = SumOf([i \in W |-> Typical(u, i) * u[i].volume], W)
<1> DEFINE volume == [i \in W |-> u[i].volume]
           turnover == [i \in W |-> Typical(u, i) * u[i].volume]
           V(f) == f = [s \in SUBSET W |->
                          IF s = {} THEN 0
                          ELSE LET x == CHOOSE x \in s : TRUE IN u[x].volume + f[s \ {x}]]
           T(f) == f = [s \in SUBSET W |->
                          IF s = {} THEN 0
                          ELSE LET x == CHOOSE x \in s : TRUE IN Typical(u, x) * u[x].volume + f[s \ {x}]]
           P(f) == f = [s \in SUBSET W |->
                          IF s = {} THEN 0
                          ELSE LET x == CHOOSE x \in s : TRUE IN volume[x] + f[s \ {x}]]
           Q(f) == f = [s \in SUBSET W |->
                          IF s = {} THEN 0
                          ELSE LET x == CHOOSE x \in s : TRUE IN turnover[x] + f[s \ {x}]]
<1>1. \A s \in SUBSET W : s # {} => (CHOOSE x \in s : TRUE) \in W
  OBVIOUS
<1>2. \A x \in W : volume[x] = u[x].volume /\ turnover[x] = Typical(u, x) * u[x].volume
  OBVIOUS
<1>3. ASSUME NEW f PROVE (V(f) <=> P(f)) /\ (T(f) <=> Q(f))
  <2> HIDE DEF volume, turnover
  <2> QED BY <1>1, <1>2
<1>4. (CHOOSE f : V(f)) = (CHOOSE f : P(f))
  <2> HIDE DEF V, P, T, Q
  <2> QED BY <1>3, Zenon
<1>5. (CHOOSE f : T(f)) = (CHOOSE f : Q(f))
  <2> HIDE DEF V, P, T, Q
  <2> QED BY <1>3, Zenon
<1>6. VolumeOver(u, W) = (CHOOSE f : V(f))[W]
  BY DEF VolumeOver, MapThenSumSet, MapThenFoldSet
<1>7. TurnoverOver(u, W) = (CHOOSE f : T(f))[W]
  BY DEF TurnoverOver, MapThenSumSet, MapThenFoldSet
<1>8. SumOf(volume, W) = (CHOOSE f : P(f))[W] /\ SumOf(turnover, W) = (CHOOSE f : Q(f))[W]
  <2> HIDE DEF volume, turnover
  <2> QED BY DEF SumOf, MapThenSumSet, MapThenFoldSet
<1> HIDE DEF V, P, T, Q
<1> QED BY <1>4, <1>5, <1>6, <1>7, <1>8

\* Volume and turnover look at the candles of their window, and at nothing else.
LEMMA TurnoversAgree ==
    ASSUME NEW c, NEW d, NEW W, \A i \in W : c[i] = d[i]
    PROVE  VolumeOver(c, W) = VolumeOver(d, W) /\ TurnoverOver(c, W) = TurnoverOver(d, W)
<1>1. [i \in W |-> c[i].volume] = [i \in W |-> d[i].volume]
  OBVIOUS
<1>2. [i \in W |-> Typical(c, i) * c[i].volume] = [i \in W |-> Typical(d, i) * d[i].volume]
  BY DEF Typical
<1>3. /\ VolumeOver(c, W) = SumOf([i \in W |-> c[i].volume], W)
      /\ TurnoverOver(c, W) = SumOf([i \in W |-> Typical(c, i) * c[i].volume], W)
  BY TurnoversAreSums
<1>4. /\ VolumeOver(d, W) = SumOf([i \in W |-> d[i].volume], W)
      /\ TurnoverOver(d, W) = SumOf([i \in W |-> Typical(d, i) * d[i].volume], W)
  BY TurnoversAreSums
<1> QED BY <1>1, <1>2, <1>3, <1>4, Zenon

\* The price weighted by volume does not look ahead.
LEMMA VwapForetold ==
    ASSUME NEW period \in Nat \ {0}, NEW c, NEW d, NEW n, Begins(c, d, n)
    PROVE  Foretold(Vwap(c, period), Vwap(d, period), n)
<1> DEFINE W(i) == Max({1, i - period + 1})..i
           there(u) == {j \in DOMAIN u : VolumeOver(u, W(j)) > 0}
           at(u, i) == TurnoverOver(u, W(i)) \div VolumeOver(u, W(i))
           e == Vwap(c, period)
           l == Vwap(d, period)
<1>1. e = [i \in there(c) |-> at(c, i)] /\ l = [i \in there(d) |-> at(d, i)]
  BY DEF Vwap, VolumeOver, TurnoverOver, Typical, MapThenSumSet, MapThenFoldSet
<1>2. ASSUME NEW i \in DOMAIN c
      PROVE  /\ i \in DOMAIN d /\ i <= n /\ VolumeOver(c, W(i)) = VolumeOver(d, W(i))
             /\ TurnoverOver(c, W(i)) = TurnoverOver(d, W(i))
  <2>1. i \in Nat /\ i - period + 1 \in Int
    BY ListsBegin
  <2>2. Max({1, i - period + 1}) \in Int /\ Max({1, i - period + 1}) >= 1
    BY <2>1, MaxOfTwo
  <2>3. \A j \in W(i) : j \in 1..i
    BY <2>1, <2>2
  <2>4. \A j \in W(i) : c[j] = d[j]
    <3> HIDE DEF W
    <3> QED BY <2>3, ListsBegin
  <2>5. VolumeOver(c, W(i)) = VolumeOver(d, W(i)) /\ TurnoverOver(c, W(i)) = TurnoverOver(d, W(i))
    <3> HIDE DEF W
    <3> QED BY <2>4, TurnoversAgree
  <2> QED BY <2>5, ListsBegin
<1>3. DOMAIN c = {i \in DOMAIN d : i <= n}
  BY DEF Begins, Foretold
<1> HIDE DEF W, e, l
<1>4. there(c) = {i \in there(d) : i <= n} /\ \A i \in there(c) : at(c, i) = at(d, i)
  BY <1>2, <1>3
<1> HIDE DEF there, at
<1>5. Foretold(e, l, n)
  BY <1>1, <1>4 DEF Foretold
<1> QED BY <1>5 DEF e, l

\* The first candles of a series begin it, and so do their prices.
LEMMA SeriesBegin ==
    ASSUME NEW S, NEW candles \in Seq(S), NEW n \in 0..Len(candles)
    PROVE  Begins(SubSeq(candles, 1, n), candles, n)
<1> DEFINE c == SubSeq(candles, 1, n)
<1>1. Len(candles) \in Nat /\ DOMAIN candles = 1..Len(candles) /\ \A i \in 1..n : candles[i] \in S
  BY Sequence
<1>2. c \in Seq(S) /\ Len(c) = n /\ \A i \in 1..n : c[i] = candles[i]
  <2>1. /\ c \in Seq(S) /\ Len(c) = IF 1 <= n THEN n - 1 + 1 ELSE 0
        /\ \A i \in 1..(n - 1 + 1) : c[i] = candles[1 + i - 1]
    BY <1>1, SubSeqProperties
  <2> HIDE DEF c
  <2> QED BY <1>1, <2>1
<1> HIDE DEF c
<1>3. DOMAIN c = 1..n
  BY <1>2, LenProperties
<1> QED BY <1>1, <1>2, <1>3 DEF Begins, Lists, Foretold, c

\* The first prices of a series begin its prices.
LEMMA FieldsBegin ==
    ASSUME NEW c, NEW d, NEW n, Begins(c, d, n), NEW name
    PROVE  Begins(Field(c, name), Field(d, name), n) /\ Len(Field(c, name)) = Len(c)
<1>1. \A i \in DOMAIN c : c[i] = d[i] /\ i \in DOMAIN d
  BY ListsBegin
<1> DEFINE f == Field(c, name)
           g == Field(d, name)
<1>2. f = [i \in DOMAIN c |-> f[i]] /\ g = [i \in DOMAIN d |-> g[i]] /\ \A i \in DOMAIN c : f[i] = g[i]
  BY <1>1 DEF Field
<1>3. Len(c) \in Nat /\ DOMAIN c = 1..Len(c)
  BY DEF Begins, Lists
<1> HIDE DEF f, g
<1>4. Begins(f, g, n)
  BY <1>2, ListsFollow
<1>5. Len(f) = Len(c)
  BY <1>2, <1>3, FunctionLists
<1> QED BY <1>4, <1>5 DEF f, g

\* The candles indicators are built of, and the lengths of their windows.
PriceCandle == [close : Int, high : Int, low : Int, volume : Int]
WindowLengths == [{"ema", "sma", "rsi", "atr", "adx", "fast", "slow", "signal", "bands", "channel", "vwap"} -> Nat \ {0}]

\* No look-ahead: whatever the candles and the windows, an indicator says of a
\* candle, before and after later candles came, one and the same thing, also that
\* it says nothing (build_indicators, which a backtest runs over the whole series
\* and reads candle by candle).
THEOREM IndicatorsAreCausal ==
    ASSUME NEW candles \in Seq(PriceCandle), NEW p \in WindowLengths
    PROVE  Causal(BuildIndicators(candles, p), candles, p)
<1> DEFINE late == BuildIndicators(candles, p)
<1>1. Len(candles) \in Nat
  BY Sequence
<1> SUFFICES ASSUME NEW n \in 0..(Len(candles) - 1), NEW k \in DOMAIN late
             PROVE  Foretold(BuildIndicators(SubSeq(candles, 1, n), p)[k], late[k], n)
  BY DEF Causal, Foretold
<1> DEFINE first == SubSeq(candles, 1, n)
           early == BuildIndicators(first, p)
<1>2. Begins(first, candles, n)
  BY <1>1, SeriesBegin
<1> HIDE DEF first
<1> DEFINE c(name) == Field(first, name)
           d(name) == Field(candles, name)
<1>3. \A name : Begins(c(name), d(name), n) /\ Len(c(name)) = Len(first)
  BY <1>2, FieldsBegin
<1>4. \A name \in DOMAIN p : p[name] \in Nat \ {0}
  BY DEF WindowLengths
<1> HIDE DEF c, d
<1>5. /\ early.ema = Ema(c("close"), p.ema) /\ late.ema = Ema(d("close"), p.ema)
      /\ early.sma = Sma(c("close"), p.sma) /\ late.sma = Sma(d("close"), p.sma)
      /\ early.rsi = Rsi(c("close"), p.rsi) /\ late.rsi = Rsi(d("close"), p.rsi)
      /\ early.atr = Atr(first, p.atr) /\ late.atr = Atr(candles, p.atr)
      /\ early.adx = Adx(first, p.adx) /\ late.adx = Adx(candles, p.adx)
      /\ early.macd = MacdHist(c("close"), p.fast, p.slow, p.signal)
      /\ late.macd = MacdHist(d("close"), p.fast, p.slow, p.signal)
      /\ early.bands = Bollinger(c("close"), p.bands, 2) /\ late.bands = Bollinger(d("close"), p.bands, 2)
      /\ early.channel = Donchian(c("high"), c("low"), p.channel)
      /\ late.channel = Donchian(d("high"), d("low"), p.channel)
      /\ early.keltner = Keltner(early.ema, early.atr, 3) /\ late.keltner = Keltner(late.ema, late.atr, 3)
      /\ early.vwap = Vwap(first, p.vwap) /\ late.vwap = Vwap(candles, p.vwap)
      /\ k \in {"ema", "sma", "rsi", "atr", "adx", "macd", "bands", "channel", "keltner", "vwap"}
  BY DEF BuildIndicators, c, d
<1> HIDE DEF early, late
<1>6. /\ p.ema \in Nat \ {0} /\ p.sma \in Nat \ {0} /\ p.rsi \in Nat \ {0} /\ p.atr \in Nat \ {0}
      /\ p.adx \in Nat \ {0} /\ p.fast \in Nat \ {0} /\ p.slow \in Nat \ {0} /\ p.signal \in Nat \ {0}
      /\ p.bands \in Nat \ {0} /\ p.channel \in Nat \ {0} /\ p.vwap \in Nat \ {0}
  BY DEF WindowLengths
<1>7. Foretold(early.ema, late.ema, n)
  BY <1>3, <1>5, <1>6, EmaForetold
<1>8. Foretold(early.sma, late.sma, n)
  BY <1>3, <1>5, <1>6, SmaForetold
<1>9. Foretold(early.rsi, late.rsi, n)
  BY <1>3, <1>5, <1>6, RsiForetold
<1>10. Foretold(early.atr, late.atr, n)
  BY <1>2, <1>5, <1>6, AtrForetold
<1>11. Foretold(early.adx, late.adx, n)
  BY <1>2, <1>5, <1>6, AdxForetold
<1>12. Foretold(early.macd, late.macd, n)
  <2>1. PICK fast, slow, signal, v, w :
           fast = p.fast /\ slow = p.slow /\ signal = p.signal /\ v = c("close") /\ w = d("close")
    OBVIOUS
  <2>2. fast \in Nat \ {0} /\ slow \in Nat \ {0} /\ signal \in Nat \ {0} /\ Begins(v, w, n)
    BY <1>3, <1>6, <2>1
  <2>3. Foretold(MacdHist(v, fast, slow, signal), MacdHist(w, fast, slow, signal), n)
    BY <2>2, MacdForetold
  <2> QED BY <1>5, <2>1, <2>3
<1>13. Foretold(early.bands, late.bands, n)
  BY <1>3, <1>5, <1>6, BollingerForetold
<1>14. Foretold(early.channel, late.channel, n)
  BY <1>3, <1>5, <1>6, DonchianForetold
<1>15. Foretold(early.keltner, late.keltner, n)
  BY <1>5, <1>7, <1>10, KeltnerForetold
<1>16. Foretold(early.vwap, late.vwap, n)
  BY <1>2, <1>5, <1>6, VwapForetold
<1>17. Foretold(early[k], late[k], n)
  BY <1>5, <1>7, <1>8, <1>9, <1>10, <1>11, <1>12, <1>13, <1>14, <1>15, <1>16
<1> QED BY <1>17 DEF early, late, first

-----------------------------------------------------------------------------
(* Sums, means and quotients of the numbers of a window.                   *)

\* A sum is the total that the fold builds.
LEMMA SumIsATotal ==
    ASSUME NEW S, IsFiniteSet(S), NEW F
    PROVE  \E f : Totals(F, S, f) /\ SumOf(F, S) = f[S]
<1>1. \E f : Totals(F, S, f)
  BY TotalsExist
<1>2. SumOf(F, S) = (CHOOSE f : Totals(F, S, f))[S]
  BY DEF SumOf, MapThenSumSet, MapThenFoldSet, Totals
<1>3. Totals(F, S, CHOOSE f : Totals(F, S, f))
  BY <1>1
<1> QED BY <1>2, <1>3

\* A sum of integers is an integer, and any term can be taken out.
LEMMA SumSplits ==
    ASSUME NEW S, IsFiniteSet(S), NEW F, \A x \in S : F[x] \in Int
    PROVE  /\ SumOf(F, S) \in Int /\ (S = {} => SumOf(F, S) = 0)
           /\ \A y \in S : SumOf(F, S) = F[y] + SumOf(F, S \ {y})
<1>1. PICK G \in [S -> Int] : \A x \in S : G[x] = F[x]
  <2>1. [x \in S |-> F[x]] \in [S -> Int] /\ \A x \in S : [z \in S |-> F[z]][x] = F[x]
    OBVIOUS
  <2> QED BY <2>1
<1>2. ASSUME NEW T \in SUBSET S PROVE SumOf(F, T) = SumOf(G, T)
  <2>1. \A x \in T : F[x] = G[x]
    BY <1>1
  <2> QED BY <2>1, SumsAgree
<1>3. PICK f : Totals(G, S, f) /\ SumOf(G, S) = f[S]
  BY SumIsATotal
<1>4. f[{}] = 0 /\ f[S] \in Int /\ \A y \in S : f[S] = G[y] + f[S \ {y}]
  BY <1>3, TotalsSplit
<1>5. ASSUME NEW y \in S PROVE SumOf(G, S \ {y}) = f[S \ {y}]
  <2>1. PICK T : T = S \ {y}
    OBVIOUS
  <2>2. IsFiniteSet(T) /\ T \subseteq S
    BY <2>1, FS_Subset
  <2>3. PICK g : Totals(G, T, g) /\ SumOf(G, T) = g[T]
    BY <2>2, SumIsATotal
  <2>4. \A s \in SUBSET T : g[s] = f[s]
    BY <1>3, <2>2, <2>3, TotalsAgree
  <2>5. g[T] = f[T]
    BY <2>4
  <2> QED BY <2>1, <2>3, <2>5
<1> QED BY <1>1, <1>2, <1>3, <1>4, <1>5

\* A sum whose terms are at least, and at most, so many times those of another
\* is at least, and at most, so many times the other.
LEMMA SumsCompare ==
    ASSUME NEW S, IsFiniteSet(S), NEW F, NEW G, NEW lo \in Int, NEW hi \in Int,
           \A x \in S : F[x] \in Int /\ G[x] \in Int /\ lo * G[x] <= F[x] /\ F[x] <= hi * G[x]
    PROVE  lo * SumOf(G, S) <= SumOf(F, S) /\ SumOf(F, S) <= hi * SumOf(G, S)
<1> DEFINE Good(T) == lo * SumOf(G, T) <= SumOf(F, T) /\ SumOf(F, T) <= hi * SumOf(G, T)
           bad == {T \in SUBSET S : ~Good(T)}
<1> SUFFICES ASSUME bad # {} PROVE FALSE
  OBVIOUS
<1>1. PICK T \in bad : \A x \in T : T \ {x} \notin bad
  <2>1. bad \subseteq SUBSET S
    OBVIOUS
  <2> HIDE DEF bad
  <2> QED BY <2>1, LeastSubset
<1>2. T \in SUBSET S /\ ~Good(T) /\ \A x \in T : Good(T \ {x})
  <2> HIDE DEF Good
  <2> QED BY <1>1
<1>3. IsFiniteSet(T) /\ \A x \in T : IsFiniteSet(T \ {x})
  BY <1>2, FS_Subset
<1>4. CASE T = {}
  <2>1. SumOf(F, T) = 0 /\ SumOf(G, T) = 0
    BY <1>3, <1>4, SumSplits
  <2> QED BY <1>2, <2>1
<1>5. CASE T # {}
  <2>1. PICK y \in T : TRUE
    BY <1>5
  <2> DEFINE U == T \ {y}
             f == F[y]
             g == G[y]
             sf == SumOf(F, U)
             sg == SumOf(G, U)
  <2>2. SumOf(F, T) = f + sf /\ SumOf(G, T) = g + sg
    BY <1>2, <1>3, <2>1, SumSplits
  <2>3. sf \in Int /\ sg \in Int
    BY <1>2, <1>3, <2>1, SumSplits
  <2>4. f \in Int /\ g \in Int /\ lo * g <= f /\ f <= hi * g
    BY <1>2, <2>1
  <2>5. lo * sg <= sf /\ sf <= hi * sg
    BY <1>2, <2>1
  <2> HIDE DEF f, g, sf, sg
  <2>6. lo * (g + sg) = lo * g + lo * sg /\ hi * (g + sg) = hi * g + hi * sg
    BY <2>3, <2>4
  <2>7. lo * g \in Int /\ lo * sg \in Int /\ hi * g \in Int /\ hi * sg \in Int
    BY <2>3, <2>4
  <2>8. lo * (g + sg) <= f + sf /\ f + sf <= hi * (g + sg)
    BY <2>3, <2>4, <2>5, <2>6, <2>7
  <2> QED BY <1>2, <2>2, <2>8
<1> QED BY <1>4, <1>5

\* Ones add up to their number.
LEMMA OnesCount ==
    ASSUME NEW S, IsFiniteSet(S), NEW one, \A x \in S : one[x] = 1
    PROVE  SumOf(one, S) = Cardinality(S)
<1> DEFINE Good(T) == SumOf(one, T) = Cardinality(T)
           bad == {T \in SUBSET S : ~Good(T)}
<1> SUFFICES ASSUME bad # {} PROVE FALSE
  OBVIOUS
<1>1. PICK T \in bad : \A x \in T : T \ {x} \notin bad
  <2>1. bad \subseteq SUBSET S
    OBVIOUS
  <2> HIDE DEF bad
  <2> QED BY <2>1, LeastSubset
<1>2. T \in SUBSET S /\ ~Good(T) /\ \A x \in T : Good(T \ {x})
  <2> HIDE DEF Good
  <2> QED BY <1>1
<1>3. IsFiniteSet(T)
  BY <1>2, FS_Subset
<1>4. CASE T = {}
  <2>1. SumOf(one, T) = 0
    BY <1>3, <1>4, SumSplits
  <2>2. Cardinality(T) = 0
    BY <1>4, FS_EmptySet
  <2> QED BY <1>2, <2>1, <2>2
<1>5. CASE T # {}
  <2>1. PICK y \in T : TRUE
    BY <1>5
  <2>2. SumOf(one, T) = 1 + SumOf(one, T \ {y})
    BY <1>2, <1>3, <2>1, SumSplits
  <2>3. Cardinality(T \ {y}) = Cardinality(T) - 1 /\ Cardinality(T) \in Nat
    BY <1>3, <2>1, FS_RemoveElement, FS_CardinalityType
  <2>4. SumOf(one, T \ {y}) = Cardinality(T \ {y})
    BY <1>2, <2>1
  <2> QED BY <1>2, <2>2, <2>3, <2>4
<1> QED BY <1>4, <1>5

\* A quotient of positives is at most what covers the dividend.
LEMMA QuotientAtMost ==
    ASSUME NEW a \in Int, NEW b \in Nat \ {0}, NEW q \in Int, a <= q * b
    PROVE  a \div b <= q
<1> DEFINE r == a \div b
<1>1. r \in Int /\ r * b <= a
  BY Quotient
<1> HIDE DEF r
<1> SUFFICES ASSUME q + 1 <= r PROVE FALSE
  BY <1>1 DEF r
<1> DEFINE d == r - (q + 1)
<1>2. d \in Nat /\ r = (q + 1) + d
  BY <1>1
<1> HIDE DEF d
<1>3. d * b \in Nat /\ r * b = q * b + b + d * b
  BY <1>1, <1>2
<1>4. q * b \in Int /\ r * b \in Int
  BY <1>1
<1> QED BY <1>1, <1>3, <1>4

\* A mean lies among what it averages.
LEMMA MeanBetween ==
    ASSUME NEW S, IsFiniteSet(S), S # {}, NEW F, NEW lo \in Int, NEW hi \in Int,
           \A x \in S : F[x] \in Int /\ lo <= F[x] /\ F[x] <= hi
    PROVE  Mean(F, S) \in Int /\ lo <= Mean(F, S) /\ Mean(F, S) <= hi
<1> DEFINE one == [x \in S |-> 1]
           n == Cardinality(S)
           sum == SumOf(F, S)
<1>1. \A x \in S : one[x] = 1
  OBVIOUS
<1> HIDE DEF one
<1>2. SumOf(one, S) = n
  BY <1>1, OnesCount
<1>3. \A x \in S : F[x] \in Int /\ one[x] \in Int /\ lo * one[x] <= F[x] /\ F[x] <= hi * one[x]
  BY <1>1
<1>4. lo * SumOf(one, S) <= sum /\ sum <= hi * SumOf(one, S)
  BY <1>3, SumsCompare
<1>5. sum \in Int
  BY SumSplits
<1>6. n \in Nat \ {0}
  BY FS_CardinalityType, FS_EmptySet
<1>7. Mean(F, S) = sum \div n
  BY DEF Mean
<1> HIDE DEF n, sum
<1>8. lo <= sum \div n /\ sum \div n <= hi /\ sum \div n \in Int
  BY <1>2, <1>4, <1>5, <1>6, QuotientAtLeast, QuotientAtMost, Quotient
<1> QED BY <1>7, <1>8

\* A sum of natural numbers is one, and at least each of them.
LEMMA SumOfNaturals ==
    ASSUME NEW S, IsFiniteSet(S), NEW F, \A x \in S : F[x] \in Nat
    PROVE  SumOf(F, S) \in Nat /\ \A y \in S : F[y] <= SumOf(F, S)
<1>1. ASSUME NEW T \in SUBSET S PROVE SumOf(F, T) \in Nat
  <2>1. IsFiniteSet(T) /\ \A x \in T : F[x] \in Int
    BY FS_Subset
  <2> DEFINE lo == 0
             hi == 1
  <2>2. lo \in Int /\ hi \in Int /\ \A x \in T : lo * F[x] <= F[x] /\ F[x] <= hi * F[x]
    OBVIOUS
  <2>3. lo * SumOf(F, T) <= SumOf(F, T)
    <3> HIDE DEF lo, hi
    <3> QED BY <2>1, <2>2, SumsCompare
  <2>4. SumOf(F, T) \in Int
    BY <2>1, SumSplits
  <2> QED BY <2>3, <2>4
<1>2. ASSUME NEW y \in S PROVE F[y] <= SumOf(F, S)
  <2>1. SumOf(F, S) = F[y] + SumOf(F, S \ {y})
    BY SumSplits
  <2>2. SumOf(F, S \ {y}) \in Nat
    BY <1>1
  <2> QED BY <2>1, <2>2
<1> QED BY <1>1, <1>2

\* Finitely many numbers have a greatest and a least, and Max and Min choose them.
LEMMA Extremes ==
    ASSUME NEW S \in SUBSET Int, IsFiniteSet(S), S # {}
    PROVE  /\ Max(S) \in S /\ \A y \in S : y <= Max(S)
           /\ Min(S) \in S /\ \A y \in S : Min(S) <= y
<1> DEFINE Good(T) == (\E m \in T : \A y \in T : y <= m) /\ (\E m \in T : \A y \in T : m <= y)
           bad == {T \in SUBSET S : T # {} /\ ~Good(T)}
<1>1. Good(S)
  <2> SUFFICES ASSUME bad # {} PROVE FALSE
    OBVIOUS
  <2>1. PICK T \in bad : \A x \in T : T \ {x} \notin bad
    <3>1. bad \subseteq SUBSET S
      OBVIOUS
    <3> HIDE DEF bad
    <3> QED BY <3>1, LeastSubset
  <2>2. T \in SUBSET Int /\ T # {} /\ ~Good(T)
    OBVIOUS
  <2>3. PICK x \in T : TRUE
    BY <2>2
  <2>4. CASE T \ {x} = {}
    <3>1. T = {x} /\ x <= x
      BY <2>2, <2>3, <2>4
    <3> QED BY <2>2, <3>1
  <2>5. CASE T \ {x} # {}
    <3>1. Good(T \ {x})
      <4>1. T \ {x} \in SUBSET S
        BY <2>1
      <4> HIDE DEF Good
      <4> QED BY <2>1, <2>3, <2>5, <4>1
    <3>2. PICK m \in T \ {x} : \A y \in T \ {x} : y <= m
      BY <3>1
    <3>3. PICK l \in T \ {x} : \A y \in T \ {x} : l <= y
      BY <3>1
    <3>4. \E g \in T : \A y \in T : y <= g
      <4>1. CASE x <= m
        BY <2>2, <2>3, <3>2, <4>1
      <4>2. CASE ~(x <= m)
        <5>1. \A y \in T : y <= x
          BY <2>2, <2>3, <3>2, <4>2
        <5> QED BY <2>3, <5>1
      <4> QED BY <4>1, <4>2
    <3>5. \E g \in T : \A y \in T : g <= y
      <4>1. CASE l <= x
        BY <2>2, <2>3, <3>3, <4>1
      <4>2. CASE ~(l <= x)
        <5>1. \A y \in T : x <= y
          BY <2>2, <2>3, <3>3, <4>2
        <5> QED BY <2>3, <5>1
      <4> QED BY <4>1, <4>2
    <3> QED BY <2>2, <3>4, <3>5
  <2> QED BY <2>4, <2>5
<1>2. \E m \in S : \A y \in S : m >= y
  BY <1>1
<1> QED BY <1>1, <1>2 DEF Max, Min

-----------------------------------------------------------------------------
(* What the averages make of their values.                                 *)

\* The candles up to one of a list, and where each run over a list starts.
LEMMA ListsRun ==
    ASSUME NEW v, Lists(v), NEW period \in Nat \ {0}
    PROVE  /\ \A law \in Stepped : Runs(law, v)
           /\ DOMAIN Ema(v, period) = period..Len(v)
           /\ DOMAIN Sma(v, period) = period..Len(v)
           /\ DOMAIN Wilder(v, period) = (period + 1)..Len(v)
           /\ DOMAIN Smoothed(v, period) = (period + 1)..Len(v)
<1>1. \A law \in Stepped : Runs(law, v)
  BY DEF Lists, Runs
<1>2. /\ Indexes("ema", v, period) = period..Len(v) /\ Indexes("sma", v, period) = period..Len(v)
      /\ Indexes("wilder", v, period) = (period + 1)..Len(v)
      /\ Indexes("smoothed", v, period) = (period + 1)..Len(v)
  BY DEF Lists, Indexes, Stepped
<1>3. Runs("ema", v) /\ Runs("sma", v) /\ Runs("wilder", v) /\ Runs("smoothed", v)
  BY <1>1 DEF Stepped
<1>4. DOMAIN Ema(v, period) = period..Len(v)
  BY <1>2, <1>3, EmaIsRun, RunsObey
<1>5. DOMAIN Sma(v, period) = period..Len(v)
  <2>1. PICK total : total = RunOfLaw("sma", v, period)
    OBVIOUS
  <2>2. Sma(v, period) = [i \in DOMAIN total |-> total[i] \div period]
    BY <1>3, <2>1, SmaIsRun
  <2>3. DOMAIN total = period..Len(v)
    BY <1>2, <1>3, <2>1, RunsObey
  <2> QED BY <2>2, <2>3
<1>6. DOMAIN Wilder(v, period) = (period + 1)..Len(v)
  BY <1>2, <1>3, WilderIsRun, RunsObey
<1>7. DOMAIN Smoothed(v, period) = (period + 1)..Len(v)
  BY <1>2, <1>3, SmoothedIsRun, RunsObey
<1> QED BY <1>1, <1>4, <1>5, <1>6, <1>7

\* The number of candles from one to another.
LEMMA WindowCounts ==
    ASSUME NEW a \in Nat, NEW b \in Nat
    PROVE  /\ IsFiniteSet(a..b)
           /\ a <= b => a..b # {} /\ Cardinality(a..b) = b - a + 1
<1>1. IsFiniteSet(a..b) /\ Cardinality(a..b) = IF a > b THEN 0 ELSE b - a + 1
  BY FS_Interval
<1>2. a <= b => a \in a..b /\ ~(a > b)
  OBVIOUS
<1>3. ASSUME a <= b PROVE Cardinality(a..b) = b - a + 1
  BY <1>1, <1>2, <1>3, Zenon
<1>4. a <= b => a..b # {}
  BY <1>2
<1> QED BY <1>1, <1>3, <1>4

\* One step of an exponential mean stays between its value and its past.
LEMMA EmaStep ==
    ASSUME NEW x \in Int, NEW v \in Int, NEW lo \in Int, NEW hi \in Int, NEW p \in Nat \ {0},
           lo <= x, x <= hi, lo <= v, v <= hi
    PROVE  LET y == x + (2 * (v - x)) \div (p + 1) IN y \in Int /\ lo <= y /\ y <= hi
<1> DEFINE b == p + 1
           d == v - x
           q == (2 * d) \div b
<1>1. b \in Nat \ {0} /\ b >= 2 /\ d \in Int
  OBVIOUS
<1> HIDE DEF b, d
<1>2. q \in Int
  BY <1>1, Quotient
<1>3. CASE d >= 0
  <2>1. d * b = 2 * d + d * (b - 2) /\ d * (b - 2) \in Nat
    BY <1>1, <1>3
  <2>2. 2 * d <= d * b /\ 0 * b <= 2 * d
    BY <1>1, <1>3, <2>1
  <2>3. q <= d /\ 0 <= q
    BY <1>1, <2>2, QuotientAtMost, QuotientAtLeast
  <2> HIDE DEF q
  <2>4. x + q \in Int /\ lo <= x + q /\ x + q <= hi
    BY <1>2, <2>3 DEF d
  <2> QED BY <2>4 DEF b, d, q
<1>4. CASE ~(d >= 0)
  <2> DEFINE e == 0 - d
  <2>1. e \in Nat /\ d = 0 - e
    BY <1>1, <1>4
  <2> HIDE DEF e
  <2>2. d * b = 2 * d - e * (b - 2) /\ e * (b - 2) \in Nat
    BY <1>1, <2>1
  <2>3. d * b <= 2 * d /\ 2 * d <= 0 * b
    BY <1>1, <1>4, <2>2
  <2>4. d <= q /\ q <= 0
    BY <1>1, <2>3, QuotientAtMost, QuotientAtLeast
  <2> HIDE DEF q
  <2>5. x + q \in Int /\ lo <= x + q /\ x + q <= hi
    BY <1>2, <2>4 DEF d
  <2> QED BY <2>5 DEF b, d, q
<1> QED BY <1>3, <1>4

\* One step of Wilder's mean stays between nothing and what bounds its values.
LEMMA WilderStep ==
    ASSUME NEW x \in Nat, NEW v \in Nat, NEW p \in Nat \ {0}
    PROVE  /\ (x * (p - 1) + v) \div p \in Nat
           /\ \A hi \in Nat : x <= hi /\ v <= hi => (x * (p - 1) + v) \div p <= hi
<1> DEFINE q == p - 1
           a == x * q + v
<1>1. q \in Nat /\ p = q + 1
  OBVIOUS
<1> HIDE DEF q
<1>2. a \in Nat
  BY <1>1
<1>3. a \div p \in Nat
  <2>1. 0 * p <= a
    BY <1>2
  <2> HIDE DEF a
  <2>2. a \div p \in Int /\ 0 <= a \div p
    BY <1>2, <2>1, Quotient, QuotientAtLeast
  <2> QED BY <2>2
<1>4. ASSUME NEW hi \in Nat, x <= hi, v <= hi PROVE a \div p <= hi
  <2> DEFINE d == hi - x
  <2>1. d \in Nat /\ hi = x + d
    BY <1>4
  <2> HIDE DEF d
  <2>2. hi * p = x * q + d * q + hi /\ x * q \in Nat /\ d * q \in Nat
    BY <1>1, <2>1
  <2>3. a <= hi * p
    BY <1>4, <2>2
  <2> HIDE DEF a
  <2> QED BY <1>2, <2>3, QuotientAtMost
<1> QED BY <1>3, <1>4 DEF q

\* One step of a running sum that lets a share go: it does not become negative,
\* and with a share of a half or less it does not run dry.
LEMMA SmoothStep ==
    ASSUME NEW x \in Nat, NEW v \in Nat, NEW p \in Nat \ {0}
    PROVE  /\ x - x \div p + v \in Nat
           /\ p >= 2 /\ x > 0 => x - x \div p + v > 0
<1> DEFINE q == x \div p
<1>1. q \in Int /\ q * p <= x
  BY Quotient
<1>2. q <= x
  <2>1. x * p = x + x * (p - 1) /\ x * (p - 1) \in Nat
    OBVIOUS
  <2>2. x <= x * p
    BY <2>1
  <2> QED BY <2>2, QuotientAtMost
<1>3. ASSUME p >= 2, x > 0 PROVE q <= x - 1
  <2> HIDE DEF q
  <2> SUFFICES ASSUME q >= x PROVE FALSE
    BY <1>1
  <2>1. (q - x) * p \in Nat /\ q * p = x * p + (q - x) * p
    BY <1>1
  <2>2. x * p = x + x + x * (p - 2) /\ x * (p - 2) \in Nat
    BY <1>3
  <2> QED BY <1>1, <1>3, <2>1, <2>2
<1> HIDE DEF q
<1> QED BY <1>1, <1>2, <1>3 DEF q

\* An exponential mean lies among the values so far.
LEMMA EmaBetween ==
    ASSUME NEW v, Lists(v), NEW period \in Nat \ {0}, NEW i \in DOMAIN Ema(v, period),
           NEW lo \in Int, NEW hi \in Int,
           \A j \in 1..i : v[j] \in Int /\ lo <= v[j] /\ v[j] <= hi
    PROVE  LET e == Ema(v, period)[i] IN e \in Int /\ lo <= e /\ e <= hi
<1>1. PICK e : e = Ema(v, period)
  OBVIOUS
<1>2. Runs("ema", v) /\ DOMAIN e = period..Len(v) /\ Len(v) \in Nat /\ i \in period..Len(v)
  BY <1>1, ListsRun DEF Lists, Stepped
<1>3. Obeys("ema", v, period, e)
  BY <1>1, <1>2, EmaIsRun, RunsObey
<1>4. \A k \in period..Len(v) :
         e[k] = IF k = period THEN Mean(v, 1..period)
                ELSE e[k - 1] + (2 * (v[k] - e[k - 1])) \div (period + 1)
  BY <1>2, <1>3 DEF Obeys, Follow, Starts, First, Next
<1> DEFINE D == {k \in period..Len(v) : k <= i}
           good == {k \in D : e[k] \in Int /\ lo <= e[k] /\ e[k] <= hi}
<1>5. ASSUME NEW k \in D, \A j \in D : j < k => j \in good PROVE k \in good
  <2>1. CASE k = period
    <3>1. \A j \in 1..period : v[j] \in Int /\ lo <= v[j] /\ v[j] <= hi
      BY <1>2
    <3>2. IsFiniteSet(1..period) /\ 1..period # {}
      <4>1. 1 \in Nat /\ 1 <= period
        OBVIOUS
      <4> QED BY <4>1, WindowCounts
    <3>3. PICK S : S = 1..period
      OBVIOUS
    <3>4. Mean(v, S) \in Int /\ lo <= Mean(v, S) /\ Mean(v, S) <= hi
      BY <3>1, <3>2, <3>3, MeanBetween
    <3> QED BY <1>4, <2>1, <3>3, <3>4
  <2>2. CASE k # period
    <3>1. k - 1 \in D /\ k - 1 < k /\ k \in 1..i
      BY <1>2, <2>2
    <3>2. k - 1 \in good
      BY <1>5, <3>1
    <3>3. PICK x, u : x = e[k - 1] /\ u = v[k]
      OBVIOUS
    <3>4. x \in Int /\ lo <= x /\ x <= hi /\ u \in Int /\ lo <= u /\ u <= hi
      BY <3>1, <3>2, <3>3
    <3>5. LET y == x + (2 * (u - x)) \div (period + 1) IN y \in Int /\ lo <= y /\ y <= hi
      BY <3>4, EmaStep
    <3>6. e[k] = x + (2 * (u - x)) \div (period + 1)
      BY <1>4, <2>2, <3>3
    <3> QED BY <3>5, <3>6
  <2> QED BY <2>1, <2>2
<1>6. D \subseteq good
  <2>1. D \in SUBSET Nat
    BY <1>2
  <2> HIDE DEF D, good
  <2> QED BY <1>5, <2>1, ByTheEarlier
<1>7. i \in D
  BY <1>2
<1> QED BY <1>1, <1>6, <1>7

\* A mean of Wilder's over natural numbers is one, and is bounded as they are.
LEMMA WilderNatural ==
    ASSUME NEW v, Lists(v), NEW period \in Nat \ {0}, \A j \in DOMAIN v : v[j] \in Nat
    PROVE  \A i \in DOMAIN Wilder(v, period) : Wilder(v, period)[i] \in Nat
<1>1. PICK w : w = Wilder(v, period)
  OBVIOUS
<1>2. Runs("wilder", v) /\ DOMAIN w = (period + 1)..Len(v) /\ Len(v) \in Nat /\ DOMAIN v = 1..Len(v)
  BY <1>1, ListsRun DEF Lists, Stepped
<1>3. Obeys("wilder", v, period, w)
  BY <1>1, <1>2, WilderIsRun, RunsObey
<1>4. \A k \in (period + 1)..Len(v) :
         w[k] = IF k = period + 1 THEN Mean(v, 2..k) ELSE (w[k - 1] * (period - 1) + v[k]) \div period
  BY <1>2, <1>3 DEF Obeys, Follow, Starts, First, Next, Stepped
<1> DEFINE D == (period + 1)..Len(v)
           good == {k \in D : w[k] \in Nat}
<1>5. ASSUME NEW k \in D, \A j \in D : j < k => j \in good PROVE k \in good
  <2>0. k \in 1..Len(v) /\ k >= 2
    BY <1>2
  <2>1. CASE k = period + 1
    <3>1. PICK S : S = 2..k
      OBVIOUS
    <3>2. IsFiniteSet(S) /\ Cardinality(S) \in Nat \ {0}
      <4>1. k \in Nat /\ 2 \in Nat /\ 2 <= k
        BY <2>0
      <4>2. IsFiniteSet(2..k) /\ 2..k # {}
        BY <4>1, WindowCounts
      <4> QED BY <3>1, <4>2, FS_EmptySet, FS_CardinalityType
    <3>3. \A j \in S : v[j] \in Nat
      BY <1>2, <2>0, <3>1
    <3>4. SumOf(v, S) \in Nat
      BY <3>2, <3>3, SumOfNaturals
    <3>5. 0 * Cardinality(S) <= SumOf(v, S)
      BY <3>2, <3>4
    <3>6. SumOf(v, S) \div Cardinality(S) \in Int /\ 0 <= SumOf(v, S) \div Cardinality(S)
      BY <3>2, <3>4, <3>5, QuotientAtLeast, Quotient
    <3>7. Mean(v, S) \in Nat
      BY <3>6 DEF Mean
    <3> QED BY <1>4, <2>1, <3>1, <3>7
  <2>2. CASE k # period + 1
    <3>1. k - 1 \in D /\ k - 1 < k
      BY <1>2, <2>2
    <3>2. w[k - 1] \in Nat /\ v[k] \in Nat
      BY <1>2, <1>5, <2>0, <3>1
    <3>3. PICK x, u : x = w[k - 1] /\ u = v[k]
      OBVIOUS
    <3>4. (x * (period - 1) + u) \div period \in Nat
      BY <3>2, <3>3, WilderStep
    <3> QED BY <1>4, <2>2, <3>3, <3>4
  <2> QED BY <2>1, <2>2
<1>6. D \subseteq good
  <2>1. D \in SUBSET Nat
    BY <1>2
  <2> HIDE DEF D, good
  <2> QED BY <1>5, <2>1, ByTheEarlier
<1> QED BY <1>1, <1>2, <1>6

\* A running sum of natural numbers is one.  With a window of two or more it stays
\* positive once it is, and it is from the first candle that moves.
LEMMA SmoothedNatural ==
    ASSUME NEW v, Lists(v), NEW period \in Nat \ {0}, \A j \in DOMAIN v : v[j] \in Nat
    PROVE  /\ \A i \in DOMAIN Smoothed(v, period) : Smoothed(v, period)[i] \in Nat
           /\ period >= 2 => \A i \in DOMAIN Smoothed(v, period) :
                /\ i - 1 \in DOMAIN Smoothed(v, period) /\ Smoothed(v, period)[i - 1] # 0 =>
                      Smoothed(v, period)[i] # 0
                /\ v[2] > 0 => Smoothed(v, period)[i] # 0
<1>1. PICK w : w = Smoothed(v, period)
  OBVIOUS
<1>2. Runs("smoothed", v) /\ DOMAIN w = (period + 1)..Len(v) /\ Len(v) \in Nat /\ DOMAIN v = 1..Len(v)
  BY <1>1, ListsRun DEF Lists, Stepped
<1>3. Obeys("smoothed", v, period, w)
  BY <1>1, <1>2, SmoothedIsRun, RunsObey
<1>4. \A k \in (period + 1)..Len(v) :
         w[k] = IF k = period + 1 THEN SumOf(v, 2..k) ELSE w[k - 1] - w[k - 1] \div period + v[k]
  BY <1>2, <1>3 DEF Obeys, Follow, Starts, First, Next, Stepped
<1> DEFINE D == (period + 1)..Len(v)
           good == {k \in D : w[k] \in Nat}
           wet == {k \in D : w[k] # 0}
<1>5. ASSUME NEW k \in D, k = period + 1 PROVE SumOf(v, 2..k) \in Nat /\ v[2] <= SumOf(v, 2..k)
  <2>1. IsFiniteSet(2..k)
    BY FS_Interval
  <2>2. (\A j \in 2..k : v[j] \in Nat) /\ 2 \in 2..k
    BY <1>2, <1>5
  <2> QED BY <2>1, <2>2, SumOfNaturals
<1>6. ASSUME NEW k \in D, k # period + 1, w[k - 1] \in Nat
      PROVE  w[k] \in Nat /\ (period >= 2 /\ w[k - 1] # 0 => w[k] # 0)
  <2>1. v[k] \in Nat
    BY <1>2
  <2>2. PICK x, u : x = w[k - 1] /\ u = v[k]
    OBVIOUS
  <2>3. x - x \div period + u \in Nat /\ (period >= 2 /\ x > 0 => x - x \div period + u > 0)
    BY <1>6, <2>1, <2>2, SmoothStep
  <2>4. w[k] = x - x \div period + u
    BY <1>4, <1>6, <2>2
  <2> QED BY <1>6, <2>2, <2>3, <2>4
<1>7. \A k \in D : k # period + 1 => k - 1 \in D /\ k - 1 < k
  BY <1>2
<1>8. D \in SUBSET Nat
  BY <1>2
<1>9. D \subseteq good
  <2>1. ASSUME NEW k \in D, \A j \in D : j < k => j \in good PROVE k \in good
    <3>1. CASE k = period + 1
      BY <1>4, <1>5, <3>1
    <3>2. CASE k # period + 1
      BY <1>6, <1>7, <2>1, <3>2
    <3> QED BY <3>1, <3>2
  <2> HIDE DEF D, good
  <2> QED BY <1>8, <2>1, ByTheEarlier
<1>10. ASSUME period >= 2, v[2] > 0 PROVE D \subseteq wet
  <2>1. ASSUME NEW k \in D, \A j \in D : j < k => j \in wet PROVE k \in wet
    <3>1. CASE k = period + 1
      <4>1. w[k] = SumOf(v, 2..k) /\ SumOf(v, 2..k) \in Nat /\ v[2] <= SumOf(v, 2..k)
        BY <1>4, <1>5, <3>1
      <4>2. v[2] \in Nat
        BY <1>2, <1>10, <3>1
      <4>3. w[k] # 0
        BY <1>10, <4>1, <4>2
      <4> QED BY <4>3
    <3>2. CASE k # period + 1
      BY <1>6, <1>7, <1>9, <1>10, <2>1, <3>2
    <3> QED BY <3>1, <3>2
  <2> HIDE DEF D, wet
  <2> QED BY <1>8, <2>1, ByTheEarlier
<1>11. ASSUME period >= 2, NEW i \in D, i - 1 \in D, w[i - 1] # 0 PROVE w[i] # 0
  <2>1. i # period + 1 /\ w[i - 1] \in Nat
    BY <1>2, <1>9, <1>11
  <2> QED BY <1>6, <1>11, <2>1
<1> QED BY <1>1, <1>2, <1>9, <1>10, <1>11

\* The running total of a moving average is the sum of its window.
LEMMA SmaIsMean ==
    ASSUME NEW v, Lists(v), NEW period \in Nat \ {0}, \A j \in DOMAIN v : v[j] \in Int
    PROVE  \A i \in DOMAIN Sma(v, period) : Sma(v, period)[i] = Mean(v, Trailing(i, period))
<1>1. PICK t : t = RunOfLaw("sma", v, period)
  OBVIOUS
<1>2. Runs("sma", v) /\ DOMAIN Sma(v, period) = period..Len(v) /\ Len(v) \in Nat /\ DOMAIN v = 1..Len(v)
  BY ListsRun DEF Lists, Stepped
<1>3. Obeys("sma", v, period, t) /\ Sma(v, period) = [i \in DOMAIN t |-> t[i] \div period]
  BY <1>1, <1>2, SmaIsRun, RunsObey
<1>4. \A k \in period..Len(v) :
         t[k] = IF k = period THEN SumOf(v, 1..period) ELSE t[k - 1] + v[k] - v[k - period]
  BY <1>2, <1>3 DEF Obeys, Follow, Starts, First, Next, Indexes
<1> DEFINE D == period..Len(v)
           good == {k \in D : t[k] = SumOf(v, Trailing(k, period))}
<1>5. ASSUME NEW k \in D, \A j \in D : j < k => j \in good PROVE k \in good
  <2>1. CASE k = period
    <3>1. Trailing(k, period) = 1..period
      BY <2>1 DEF Trailing
    <3> QED BY <1>4, <2>1, <3>1
  <2>2. CASE k # period
    <3>1. k - 1 \in D /\ k - 1 < k
      BY <1>2, <2>2
    <3>2. t[k - 1] = SumOf(v, Trailing(k - 1, period))
      BY <1>5, <3>1
    <3>3. PICK U : U = (k - period)..k
      OBVIOUS
    <3>4. U \ {k} = Trailing(k - 1, period) /\ U \ {k - period} = Trailing(k, period)
      BY <1>2, <2>2, <3>3 DEF Trailing
    <3>5. k \in U /\ k - period \in U
      BY <1>2, <3>3
    <3>6. IsFiniteSet(U) /\ \A j \in U : v[j] \in Int
      <4>1. k \in Int /\ k - period \in Int /\ U \subseteq 1..Len(v)
        BY <1>2, <2>2, <3>3
      <4> QED BY <1>2, <3>3, <4>1, FS_Interval
    <3>7. \A j \in U : SumOf(v, U) = v[j] + SumOf(v, U \ {j})
      BY <3>6, SumSplits
    <3>8. \A j \in U : SumOf(v, U \ {j}) \in Int
      <4> SUFFICES ASSUME NEW j \in U PROVE SumOf(v, U \ {j}) \in Int
        OBVIOUS
      <4>1. IsFiniteSet(U \ {j}) /\ \A i \in U \ {j} : v[i] \in Int
        BY <3>6, FS_Subset
      <4> QED BY <4>1, SumSplits
    <3>9. PICK before, now, sum, new, old :
             /\ before = SumOf(v, U \ {k}) /\ now = SumOf(v, U \ {k - period}) /\ sum = SumOf(v, U)
             /\ new = v[k] /\ old = v[k - period]
      OBVIOUS
    <3>10. sum = new + before /\ sum = old + now
      BY <3>5, <3>7, <3>9
    <3>11. before \in Int /\ now \in Int /\ new \in Int /\ old \in Int
      BY <3>5, <3>6, <3>8, <3>9
    <3>12. t[k] = before + new - old
      BY <1>4, <2>2, <3>2, <3>4, <3>9
    <3>13. t[k] = now
      BY <3>10, <3>11, <3>12
    <3>14. t[k] = SumOf(v, Trailing(k, period))
      BY <3>4, <3>9, <3>13
    <3> QED BY <3>14
  <2> QED BY <2>1, <2>2
<1>6. D \subseteq good
  <2>1. D \in SUBSET Nat
    BY <1>2
  <2> HIDE DEF D, good
  <2> QED BY <1>5, <2>1, ByTheEarlier
<1>7. ASSUME NEW i \in D PROVE Cardinality(Trailing(i, period)) = period
  <2>1. i - period + 1 \in Nat /\ i \in Nat /\ i - period + 1 <= i
    BY <1>2
  <2>2. PICK a : a = i - period + 1
    OBVIOUS
  <2>3. Cardinality(a..i) = i - a + 1
    BY <2>1, <2>2, WindowCounts
  <2> QED BY <2>1, <2>2, <2>3 DEF Trailing
<1>8. ASSUME NEW i \in DOMAIN Sma(v, period) PROVE Sma(v, period)[i] = t[i] \div period
  BY <1>3
<1> QED BY <1>2, <1>6, <1>7, <1>8 DEF Mean

-----------------------------------------------------------------------------
(* Candles with a range, and what is measured on them.                     *)

\* A candle that closes within its range, as _is_valid_candle of market_corridor.py
\* has them.
RealCandle == {c \in PriceCandle : c.low <= c.close /\ c.close <= c.high /\ c.volume >= 0}
Real(c) == Lists(c) /\ \A i \in DOMAIN c : c[i] \in RealCandle

\* A candle's prices, in order.
LEMMA RealPrices ==
    ASSUME NEW c, Real(c), NEW i \in DOMAIN c
    PROVE  /\ c[i].close \in Int /\ c[i].high \in Int /\ c[i].low \in Int /\ c[i].volume \in Nat
           /\ c[i].low <= c[i].close /\ c[i].close <= c[i].high /\ c[i].low <= c[i].high
           /\ i \in Nat /\ i >= 1 /\ (i # 1 => i - 1 \in DOMAIN c)
<1>1. c[i] \in PriceCandle /\ c[i].low <= c[i].close /\ c[i].close <= c[i].high /\ c[i].volume >= 0
  BY DEF Real, RealCandle
<1>2. Len(c) \in Nat /\ DOMAIN c = 1..Len(c)
  BY DEF Real, Lists
<1>3. c[i].close \in Int /\ c[i].high \in Int /\ c[i].low \in Int /\ c[i].volume \in Int
  BY <1>1 DEF PriceCandle
<1> QED BY <1>1, <1>2, <1>3

\* Ranges and directional movements are not negative.
LEMMA MovesNatural ==
    ASSUME NEW c, Real(c), NEW i \in DOMAIN c
    PROVE  /\ TrueRange(c, i) \in Nat
           /\ i # 1 => PlusDm(c, i) \in Nat /\ MinusDm(c, i) \in Nat
<1>1. /\ c[i].close \in Int /\ c[i].high \in Int /\ c[i].low \in Int /\ c[i].low <= c[i].high
      /\ i # 1 => i - 1 \in DOMAIN c
  BY RealPrices
<1>2. i # 1 => c[i - 1].close \in Int /\ c[i - 1].high \in Int /\ c[i - 1].low \in Int
  BY <1>1, RealPrices
<1>3. TrueRange(c, i) \in Nat
  <2>1. CASE i = 1
    BY <1>1, <2>1 DEF TrueRange
  <2>2. CASE i # 1
    <3>1. PICK x, y, z : x = c[i].high - c[i].low /\ y = Abs(c[i].high - c[i - 1].close)
                         /\ z = Abs(c[i].low - c[i - 1].close)
      OBVIOUS
    <3>2. x \in Nat /\ y \in Int /\ z \in Int
      BY <1>1, <1>2, <2>2, <3>1 DEF Abs
    <3>3. \E m \in {x, y, z} : \A u \in {x, y, z} : m >= u
      <4>1. CASE x >= y /\ x >= z
        BY <3>2, <4>1
      <4>2. CASE y >= x /\ y >= z
        BY <3>2, <4>2
      <4>3. CASE z >= x /\ z >= y
        BY <3>2, <4>3
      <4> QED BY <3>2, <4>1, <4>2, <4>3
    <3>4. Max({x, y, z}) \in {x, y, z} /\ Max({x, y, z}) >= x
      BY <3>3 DEF Max
    <3>5. TrueRange(c, i) = Max({x, y, z})
      BY <2>2, <3>1 DEF TrueRange
    <3> QED BY <3>2, <3>4, <3>5
  <2> QED BY <2>1, <2>2
<1>4. ASSUME i # 1 PROVE PlusDm(c, i) \in Nat /\ MinusDm(c, i) \in Nat
  <2>1. PICK up, down : up = UpMove(c, i) /\ down = DownMove(c, i)
    OBVIOUS
  <2>2. up \in Int /\ down \in Int
    BY <1>1, <1>2, <1>4, <2>1 DEF UpMove, DownMove
  <2>3. /\ Max({up, 0}) = (IF up >= 0 THEN up ELSE 0)
        /\ Max({down, 0}) = (IF down >= 0 THEN down ELSE 0)
    BY <2>2, MaxOfTwo
  <2> QED BY <2>1, <2>2, <2>3 DEF PlusDm, MinusDm
<1> QED BY <1>3, <1>4

\* The whole that oscillators are parts of.
LEMMA WholeIs == Whole \in Nat /\ Whole > 0
BY DEF Whole

\* What the two sides of the movement share of the range, against each other, in
\* parts of a whole.
DxShare(plus, minus, range) ==
    LET p == (Whole * plus) \div range
        m == (Whole * minus) \div range
    IN  IF p + m = 0 THEN 0 ELSE (Whole * Abs(p - m)) \div (p + m)

\* A part is at most the whole.
LEMMA PartOfWhole ==
    ASSUME NEW a \in Nat, NEW b \in Nat \ {0}
    PROVE  /\ a \div b \in Nat
           /\ a <= Whole * b => a \div b \in 0..Whole
<1> DEFINE q == a \div b
<1>1. q \in Int /\ 0 <= q
  <2>1. 0 * b <= a
    OBVIOUS
  <2> QED BY <2>1, Quotient, QuotientAtLeast
<1>2. ASSUME a <= Whole * b PROVE q <= Whole
  <2>1. Whole \in Int
    BY WholeIs
  <2> QED BY <1>2, <2>1, QuotientAtMost
<1> HIDE DEF q
<1>3. q \in Nat /\ (a <= Whole * b => q \in 0..Whole)
  BY <1>1, <1>2, WholeIs
<1> QED BY <1>3 DEF q

\* The share is a part of the whole.
LEMMA DxShareBounded ==
    ASSUME NEW plus \in Nat, NEW minus \in Nat, NEW range \in Nat \ {0}
    PROVE  DxShare(plus, minus, range) \in 0..Whole
<1>1. PICK p, m : p = (Whole * plus) \div range /\ m = (Whole * minus) \div range
  OBVIOUS
<1>2. Whole * plus \in Nat /\ Whole * minus \in Nat
  BY DEF Whole
<1>3. p \in Nat /\ m \in Nat
  BY <1>1, <1>2, PartOfWhole, Zenon
<1>4. ASSUME p + m # 0 PROVE (Whole * Abs(p - m)) \div (p + m) \in 0..Whole
  <2>1. PICK a, b : a = Whole * Abs(p - m) /\ b = p + m
    OBVIOUS
  <2>2. b \in Nat \ {0} /\ a \in Nat /\ a <= Whole * b
    BY <1>3, <1>4, <2>1 DEF Abs, Whole
  <2>3. a \div b \in 0..Whole
    BY <2>2, PartOfWhole
  <2> QED BY <2>1, <2>3, Zenon
<1>5. DxShare(plus, minus, range) = IF p + m = 0 THEN 0 ELSE (Whole * Abs(p - m)) \div (p + m)
  BY <1>1, Zenon DEF DxShare
<1>6. 0 \in 0..Whole
  BY WholeIs
<1>7. CASE p + m = 0
  BY <1>5, <1>6, <1>7, Zenon
<1>8. CASE p + m # 0
  BY <1>4, <1>5, <1>8, Zenon
<1> QED BY <1>7, <1>8

\* The candles with a dx: those whose smoothed range is not zero.  They go on once
\* they begin, and begin as early as can be if the first candle moves.
LEMMA DxIs ==
    ASSUME NEW c, Real(c), NEW period \in Nat \ {0}
    PROVE  /\ DOMAIN Dx(c, period) \subseteq (period + 2)..Len(c)
           /\ \A i \in DOMAIN Dx(c, period) : Dx(c, period)[i] \in 0..Whole
           /\ period >= 2 => \A i \in (period + 2)..Len(c) :
                 /\ i - 1 \in DOMAIN Dx(c, period) => i \in DOMAIN Dx(c, period)
                 /\ TrueRange(c, 2) > 0 => i \in DOMAIN Dx(c, period)
<1> DEFINE ranges == [i \in DOMAIN c |-> IF i = 1 THEN 0 ELSE TrueRange(c, i)]
           ups == [i \in DOMAIN c |-> IF i = 1 THEN 0 ELSE PlusDm(c, i)]
           downs == [i \in DOMAIN c |-> IF i = 1 THEN 0 ELSE MinusDm(c, i)]
<1>1. PICK range, plus, minus :
         /\ range = Smoothed(ranges, period) /\ plus = Smoothed(ups, period) /\ minus = Smoothed(downs, period)
  OBVIOUS
<1>2. Dx(c, period) = [i \in {j \in (period + 2)..Len(c) : range[j] # 0} |-> DxShare(plus[i], minus[i], range[i])]
  BY <1>1 DEF Dx, DxShare
<1>3. Len(c) \in Nat /\ DOMAIN c = 1..Len(c)
  BY DEF Real, Lists
<1>4. PICK r, u, d : r = ranges /\ u = ups /\ d = downs
  OBVIOUS
<1>5. /\ r = [i \in 1..Len(c) |-> r[i]] /\ u = [i \in 1..Len(c) |-> u[i]] /\ d = [i \in 1..Len(c) |-> d[i]]
      /\ \A i \in 1..Len(c) : r[i] \in Nat /\ u[i] \in Nat /\ d[i] \in Nat
      /\ 2 \in 1..Len(c) => r[2] = TrueRange(c, 2)
  BY <1>3, <1>4, MovesNatural
<1>6. /\ Lists(r) /\ Len(r) = Len(c) /\ Lists(u) /\ Len(u) = Len(c) /\ Lists(d) /\ Len(d) = Len(c)
      /\ DOMAIN r = 1..Len(c) /\ DOMAIN u = 1..Len(c) /\ DOMAIN d = 1..Len(c)
  BY <1>3, <1>5, FunctionLists
<1>7. /\ range = Smoothed(r, period) /\ plus = Smoothed(u, period) /\ minus = Smoothed(d, period)
  BY <1>1, <1>4
<1> HIDE DEF ranges, ups, downs
<1> DEFINE D == (period + 1)..Len(c)
<1>8. DOMAIN range = D /\ DOMAIN plus = D /\ DOMAIN minus = D
  BY <1>6, <1>7, ListsRun
<1>9. /\ \A j \in DOMAIN r : r[j] \in Nat
      /\ \A j \in DOMAIN u : u[j] \in Nat
      /\ \A j \in DOMAIN d : d[j] \in Nat
  BY <1>5, <1>6
<1>10. \A i \in D : range[i] \in Nat /\ plus[i] \in Nat /\ minus[i] \in Nat
  BY <1>6, <1>7, <1>8, <1>9, SmoothedNatural
<1>11. ASSUME period >= 2, NEW i \in D
       PROVE  /\ i - 1 \in D /\ range[i - 1] # 0 => range[i] # 0
              /\ r[2] > 0 => range[i] # 0
  BY <1>6, <1>7, <1>8, <1>9, <1>11, SmoothedNatural
<1>12. \A i \in (period + 2)..Len(c) : i \in D /\ i - 1 \in D /\ 2 \in 1..Len(c)
  BY <1>3
<1>13. ASSUME NEW i \in DOMAIN Dx(c, period) PROVE Dx(c, period)[i] \in 0..Whole
  <2>1. i \in (period + 2)..Len(c) /\ range[i] # 0 /\ Dx(c, period)[i] = DxShare(plus[i], minus[i], range[i])
    BY <1>2, <1>13
  <2>2. range[i] \in Nat \ {0} /\ plus[i] \in Nat /\ minus[i] \in Nat
    BY <1>10, <1>12, <2>1
  <2>3. PICK x, y, z : x = plus[i] /\ y = minus[i] /\ z = range[i]
    OBVIOUS
  <2>4. DxShare(x, y, z) \in 0..Whole
    <3>1. x \in Nat /\ y \in Nat /\ z \in Nat \ {0}
      BY <2>2, <2>3
    <3> QED BY <3>1, DxShareBounded
  <2> QED BY <2>1, <2>3, <2>4, Zenon
<1>14. DOMAIN Dx(c, period) = {j \in (period + 2)..Len(c) : range[j] # 0}
  BY <1>2
<1>15. ASSUME period >= 2, NEW i \in (period + 2)..Len(c)
       PROVE  /\ i - 1 \in DOMAIN Dx(c, period) => i \in DOMAIN Dx(c, period)
              /\ TrueRange(c, 2) > 0 => i \in DOMAIN Dx(c, period)
  BY <1>5, <1>11, <1>12, <1>14, <1>15
<1> QED BY <1>13, <1>14, <1>15

\* Averages of a list with gaps stay in its scale.
LEMMA AveragedBounded ==
    ASSUME NEW dx, NEW n \in Nat, DOMAIN dx \subseteq 1..n, NEW period \in Nat \ {0},
           NEW top \in Nat, \A i \in DOMAIN dx : dx[i] \in 0..top
    PROVE  \A i \in DOMAIN Averaged(dx, period) : Averaged(dx, period)[i] \in 0..top
<1>1. PICK a : a = Averaged(dx, period)
  OBVIOUS
<1>2. Runs("adx", dx)
  BY DEF Runs, Gapped, Stepped
<1>3. PICK D : D = Indexes("adx", dx, period)
  OBVIOUS
<1>4. Obeys("adx", dx, period, a) /\ DOMAIN a = D
  BY <1>1, <1>2, <1>3, AveragedIsRun, RunsObey
<1>5. \A i : i \in D <=> i \in DOMAIN dx /\ Cardinality(UpTo(dx, i)) >= period
  BY <1>3 DEF Indexes, Stepped
<1>6. \A i \in D :
         a[i] = IF Cardinality(UpTo(dx, i)) = period THEN Mean(dx, UpTo(dx, i))
                ELSE ((IF i - 1 \in DOMAIN dx THEN a[i - 1] ELSE 0) * (period - 1) + dx[i]) \div period
  BY <1>3, <1>4 DEF Obeys, Follow, Starts, First, Next, Stepped
<1> DEFINE good == {i \in D : a[i] \in 0..top}
<1>7. ASSUME NEW i \in D, \A j \in D : j < i => j \in good PROVE i \in good
  <2>1. i \in DOMAIN dx /\ i \in 1..n /\ Cardinality(UpTo(dx, i)) >= period
    BY <1>5
  <2>2. /\ IsFiniteSet(UpTo(dx, i)) /\ Cardinality(UpTo(dx, i)) \in Nat /\ i \in UpTo(dx, i)
        /\ Cardinality(UpTo(dx, i) \ {i}) = Cardinality(UpTo(dx, i)) - 1
        /\ i - 1 \in DOMAIN dx => UpTo(dx, i - 1) = UpTo(dx, i) \ {i}
    BY <2>1, GapsCount
  <2>3. CASE Cardinality(UpTo(dx, i)) = period
    <3>1. PICK S, lo : S = UpTo(dx, i) /\ lo = 0
      OBVIOUS
    <3>2. IsFiniteSet(S) /\ S # {} /\ \A j \in S : dx[j] \in Int /\ lo <= dx[j] /\ dx[j] <= top
      <4>1. \A j \in S : j \in DOMAIN dx
        BY <3>1 DEF UpTo
      <4> QED BY <2>2, <3>1, <4>1
    <3>3. lo \in Int /\ top \in Int
      BY <3>1
    <3>4. Mean(dx, S) \in Int /\ lo <= Mean(dx, S) /\ Mean(dx, S) <= top
      BY <3>2, <3>3, MeanBetween
    <3> QED BY <1>6, <2>3, <3>1, <3>4
  <2>4. CASE Cardinality(UpTo(dx, i)) # period
    <3>1. i - 1 \in DOMAIN dx => i - 1 \in D /\ i - 1 < i
      BY <1>5, <2>1, <2>2, <2>4
    <3>2. PICK x, v : x = (IF i - 1 \in DOMAIN dx THEN a[i - 1] ELSE 0) /\ v = dx[i]
      OBVIOUS
    <3>3. x \in Nat /\ x <= top /\ v \in Nat /\ v <= top
      BY <1>7, <2>1, <3>1, <3>2
    <3>4. (x * (period - 1) + v) \div period \in Nat /\ (x * (period - 1) + v) \div period <= top
      BY <3>3, WilderStep
    <3> QED BY <1>6, <2>4, <3>2, <3>4
  <2> QED BY <2>3, <2>4
<1>8. D \in SUBSET Nat
  BY <1>5
<1>9. D \subseteq good
  <2> HIDE DEF good
  <2> QED BY <1>7, <1>8, ByTheEarlier
<1> QED BY <1>1, <1>4, <1>9

\* A list without gaps counts its candles from the first to the last.
LEMMA UnbrokenCounts ==
    ASSUME NEW v, NEW a \in Nat \ {0}, NEW n \in Nat, DOMAIN v = a..n, NEW i \in DOMAIN v
    PROVE  /\ UpTo(v, i) = a..i /\ Cardinality(UpTo(v, i)) = i - a + 1
           /\ i # a => Max(UpTo(v, i) \ {i}) = i - 1
<1>1. UpTo(v, i) = a..i /\ i \in Nat /\ a <= i
  BY DEF UpTo
<1>2. Cardinality(a..i) = i - a + 1
  BY <1>1, WindowCounts
<1>3. ASSUME i # a PROVE Max(UpTo(v, i) \ {i}) = i - 1
  <2>1. (a..i) \ {i} = a..(i - 1) /\ i - 1 \in a..(i - 1)
    BY <1>1, <1>3
  <2>2. UpTo(v, i) \ {i} = a..(i - 1)
    BY <1>1, <2>1, Zenon
  <2>3. DOMAIN v \subseteq 1..n
    OBVIOUS
  <2>4. PICK m : m = Max(UpTo(v, i) \ {i})
    OBVIOUS
  <2>5. m \in DOMAIN v /\ m < i /\ UpTo(v, m) = a..(i - 1)
    <3>1. UpTo(v, i) \ {i} # {}
      BY <2>1, <2>2
    <3> QED BY <1>1, <2>2, <2>3, <2>4, <3>1, GapsCount
  <2>6. i - 1 \in UpTo(v, m)
    BY <2>1, <2>5
  <2>7. i - 1 <= m
    BY <2>6 DEF UpTo
  <2> QED BY <1>1, <2>4, <2>5, <2>7
<1> QED BY <1>1, <1>2, <1>3

\* Over a list, the mean that passes over gaps is the mean.
LEMMA OptionalIsEma ==
    ASSUME NEW v, Lists(v), NEW period \in Nat \ {0}
    PROVE  EmaOfOptional(v, period) = Ema(v, period)
<1>1. Len(v) \in Nat /\ DOMAIN v = 1..Len(v)
  BY DEF Lists
<1>2. PICK e, g : e = Ema(v, period) /\ g = EmaOfOptional(v, period)
  OBVIOUS
<1>3. Runs("ema", v) /\ Runs("gaps", v)
  BY <1>1 DEF Runs, Stepped, Gapped
<1>4. Obeys("ema", v, period, e) /\ DOMAIN e = period..Len(v)
  BY <1>2, <1>3, EmaIsRun, RunsObey, ListsRun
<1>5. Obeys("gaps", v, period, g) /\ DOMAIN g = Indexes("gaps", v, period)
  BY <1>2, <1>3, EmaOfOptionalIsRun, RunsObey
<1>6. \A i \in 1..Len(v) : UpTo(v, i) = 1..i /\ Cardinality(UpTo(v, i)) = i
  <2> SUFFICES ASSUME NEW i \in 1..Len(v) PROVE UpTo(v, i) = 1..i /\ Cardinality(UpTo(v, i)) = i
    OBVIOUS
  <2>1. PICK a, n : a = 1 /\ n = Len(v)
    OBVIOUS
  <2>2. a \in Nat \ {0} /\ n \in Nat /\ DOMAIN v = a..n /\ i \in a..n
    BY <1>1, <2>1
  <2>3. UpTo(v, i) = a..i /\ Cardinality(UpTo(v, i)) = i - a + 1
    BY <2>2, UnbrokenCounts
  <2> QED BY <2>1, <2>3
<1>7. DOMAIN g = period..Len(v)
  <2>1. Indexes("gaps", v, period) = {i \in 1..Len(v) : Cardinality(UpTo(v, i)) >= period}
    BY <1>1 DEF Indexes, Stepped
  <2> QED BY <1>1, <1>5, <1>6, <2>1
<1>8. \A i \in period..Len(v) :
         e[i] = IF i = period THEN Mean(v, 1..period) ELSE e[i - 1] + (2 * (v[i] - e[i - 1])) \div (period + 1)
  BY <1>4 DEF Obeys, Follow, Starts, First, Next
<1>9. \A i \in period..Len(v) :
         g[i] = IF Cardinality(UpTo(v, i)) = period THEN Mean(v, UpTo(v, i))
                ELSE LET x == g[Max(UpTo(v, i) \ {i})] IN x + (2 * (v[i] - x)) \div (period + 1)
  BY <1>5, <1>7 DEF Obeys, Follow, Starts, First, Next, Stepped
<1> DEFINE good == {i \in period..Len(v) : e[i] = g[i]}
<1>10. ASSUME NEW i \in period..Len(v), \A j \in period..Len(v) : j < i => j \in good PROVE i \in good
  <2>1. i \in 1..Len(v) /\ UpTo(v, i) = 1..i /\ Cardinality(UpTo(v, i)) = i
    BY <1>6
  <2>2. CASE i = period
    BY <1>8, <1>9, <2>1, <2>2
  <2>3. CASE i # period
    <3>1. i - 1 \in period..Len(v) /\ i - 1 < i /\ i # 1
      BY <2>3
    <3>2. Max(UpTo(v, i) \ {i}) = i - 1
      BY <1>1, <2>1, <3>1, UnbrokenCounts
    <3>3. PICK x : x = e[i - 1]
      OBVIOUS
    <3>4. x = g[i - 1]
      BY <1>10, <3>1, <3>3
    <3>5. e[i] = x + (2 * (v[i] - x)) \div (period + 1)
      BY <1>8, <2>3, <3>3
    <3>6. g[i] = x + (2 * (v[i] - x)) \div (period + 1)
      BY <1>9, <2>1, <2>3, <3>2, <3>4
    <3> QED BY <3>5, <3>6
  <2> QED BY <2>2, <2>3
<1>11. period..Len(v) \subseteq good
  <2> HIDE DEF good
  <2>1. period..Len(v) \in SUBSET Nat
    OBVIOUS
  <2> QED BY <1>10, <2>1, ByTheEarlier
<1>12. e = [i \in period..Len(v) |-> e[i]] /\ g = [i \in period..Len(v) |-> g[i]]
  <2>1. e = [i \in DOMAIN e |-> e[i]] /\ g = [i \in DOMAIN g |-> g[i]]
    BY <1>4, <1>5 DEF Obeys
  <2> QED BY <1>4, <1>7, <2>1
<1>13. e = g
  BY <1>11, <1>12
<1> QED BY <1>2, <1>13

\* The histogram of macd is full once its line and its signal are.
LEMMA MacdStarts ==
    ASSUME NEW v, Lists(v), NEW fast \in Nat \ {0}, NEW slow \in Nat \ {0}, NEW signal \in Nat \ {0},
           fast <= slow
    PROVE  DOMAIN MacdHist(v, fast, slow, signal) = (slow + signal - 1)..Len(v)
<1>1. Len(v) \in Nat /\ DOMAIN Ema(v, fast) = fast..Len(v) /\ DOMAIN Ema(v, slow) = slow..Len(v)
  BY ListsRun DEF Lists
<1>2. PICK line, smooth : line = MacdLine(v, fast, slow) /\ smooth = EmaOfOptional(line, signal)
  OBVIOUS
<1>3. DOMAIN line = slow..Len(v)
  <2>1. DOMAIN line = (fast..Len(v)) \cap (slow..Len(v))
    BY <1>1, <1>2 DEF MacdLine, Both
  <2> QED BY <1>1, <2>1
<1>4. DOMAIN smooth = Indexes("gaps", line, signal)
  <2>1. DOMAIN line \subseteq 1..Len(v)
    BY <1>3
  <2>2. Runs("gaps", line)
    BY <1>1, <2>1 DEF Runs, Gapped, Stepped
  <2> QED BY <1>2, <2>2, EmaOfOptionalIsRun, RunsObey
<1>5. DOMAIN smooth = {i \in slow..Len(v) : Cardinality(UpTo(line, i)) >= signal}
  BY <1>3, <1>4 DEF Indexes, Stepped
<1>6. \A i \in slow..Len(v) : Cardinality(UpTo(line, i)) = i - slow + 1
  <2>1. PICK n : n = Len(v)
    OBVIOUS
  <2>2. n \in Nat /\ DOMAIN line = slow..n
    BY <1>1, <1>3, <2>1
  <2>3. \A i \in slow..n : Cardinality(UpTo(line, i)) = i - slow + 1
    BY <2>2, UnbrokenCounts
  <2> QED BY <2>1, <2>3
<1>7. DOMAIN smooth = (slow + signal - 1)..Len(v)
  BY <1>1, <1>5, <1>6
<1>8. DOMAIN MacdHist(v, fast, slow, signal) = DOMAIN line \cap DOMAIN smooth
  BY <1>2 DEF MacdHist, Both
<1>9. (slow..Len(v)) \cap ((slow + signal - 1)..Len(v)) = (slow + signal - 1)..Len(v)
  BY <1>1
<1> QED BY <1>3, <1>7, <1>8, <1>9, Zenon

\* The average directional index: a share of the whole, from the candle its two
\* windows are full at if the market moves then, and from then on at every candle.
LEMMA AdxIs ==
    ASSUME NEW c, Real(c), NEW period \in Nat \ {0}, period >= 2
    PROVE  /\ DOMAIN Adx(c, period) \subseteq (2 * period + 1)..Len(c)
           /\ \A i \in DOMAIN Adx(c, period) :
                 Adx(c, period)[i] \in 0..Whole /\ (i < Len(c) => i + 1 \in DOMAIN Adx(c, period))
           /\ TrueRange(c, 2) > 0 => DOMAIN Adx(c, period) = (2 * period + 1)..Len(c)
<1>1. Len(c) \in Nat
  BY DEF Real, Lists
<1>2. PICK a : a = Adx(c, period)
  OBVIOUS
<1>3. CASE ~(Len(c) > 2 * period)
  <2>1. (2 * period + 1)..Len(c) = {}
    BY <1>1, <1>3
  <2>2. Adx(c, period) = <<>>
    BY <1>3 DEF Adx
  <2>3. DOMAIN Adx(c, period) = {}
    BY <2>2
  <2> QED BY <2>1, <2>3
<1>4. CASE Len(c) > 2 * period
  <2>1. PICK dx : dx = Dx(c, period)
    OBVIOUS
  <2>2. /\ DOMAIN dx \subseteq (period + 2)..Len(c) /\ \A i \in DOMAIN dx : dx[i] \in 0..Whole
        /\ \A i \in (period + 2)..Len(c) :
              /\ i - 1 \in DOMAIN dx => i \in DOMAIN dx
              /\ TrueRange(c, 2) > 0 => i \in DOMAIN dx
    BY <2>1, DxIs
  <2>3. a = Averaged(dx, period)
    BY <1>2, <1>4, <2>1 DEF Adx
  <2>4. /\ \A i : i \in DOMAIN a <=> i \in DOMAIN dx /\ Cardinality(UpTo(dx, i)) >= period
        /\ \A i \in DOMAIN a : i \in Nat /\ i > 2 * period /\ i <= Len(c)
    BY <1>1, <2>2, <2>3, AveragedStarts
  <2>5. \A i \in DOMAIN a : a[i] \in 0..Whole
    <3>1. DOMAIN dx \subseteq 1..Len(c) /\ Whole \in Nat
      BY <2>2, WholeIs
    <3> QED BY <1>1, <2>2, <2>3, <3>1, AveragedBounded
  <2>6. ASSUME NEW i \in DOMAIN a, i < Len(c) PROVE i + 1 \in DOMAIN a
    <3>1. /\ i \in Nat /\ i \in DOMAIN dx /\ i + 1 \in (period + 2)..Len(c) /\ (i + 1) - 1 = i
          /\ Cardinality(UpTo(dx, i)) >= period
      BY <1>1, <2>2, <2>4, <2>6
    <3>2. i + 1 \in DOMAIN dx /\ (i + 1) - 1 \in DOMAIN dx
      BY <2>2, <3>1
    <3>3. DOMAIN dx \subseteq 1..Len(c)
      BY <2>2
    <3>4. PICK k : k = i + 1
      OBVIOUS
    <3>5. /\ UpTo(dx, k - 1) = UpTo(dx, k) \ {k} /\ Cardinality(UpTo(dx, k)) \in Nat
          /\ Cardinality(UpTo(dx, k) \ {k}) = Cardinality(UpTo(dx, k)) - 1
      BY <1>1, <3>2, <3>3, <3>4, GapsCount
    <3>6. Cardinality(UpTo(dx, i)) = Cardinality(UpTo(dx, k)) - 1
      BY <3>1, <3>4, <3>5
    <3>7. Cardinality(UpTo(dx, k)) >= period
      BY <3>1, <3>5, <3>6
    <3> QED BY <2>4, <3>2, <3>4, <3>7
  <2>7. DOMAIN a \subseteq (2 * period + 1)..Len(c)
    BY <1>1, <2>4
  <2>8. ASSUME TrueRange(c, 2) > 0, NEW i \in (2 * period + 1)..Len(c) PROVE i \in DOMAIN a
    <3>1. PICK first, n : first = period + 2 /\ n = Len(c)
      OBVIOUS
    <3>2. \A j \in first..n : j \in DOMAIN dx
      BY <2>2, <2>8, <3>1
    <3>3. first \in Nat \ {0} /\ n \in Nat /\ DOMAIN dx = first..n /\ i \in first..n
      <4>1. first \in Nat \ {0} /\ n \in Nat /\ i \in first..n
        BY <1>1, <3>1
      <4>2. DOMAIN dx \subseteq first..n
        BY <2>2, <3>1
      <4> QED BY <3>2, <4>1, <4>2
    <3>4. Cardinality(UpTo(dx, i)) = i - first + 1
      BY <3>3, UnbrokenCounts
    <3> QED BY <2>4, <3>1, <3>3, <3>4
  <2> QED BY <1>2, <2>5, <2>6, <2>7, <2>8
<1> QED BY <1>3, <1>4

\* The candles where both of two series that started have a number.
LEMMA BothStart ==
    ASSUME NEW f, NEW g, NEW a \in Int, NEW b \in Int, NEW n \in Int, DOMAIN f = a..n, DOMAIN g = b..n
    PROVE  Both(f, g) = Max({a, b})..n
<1>1. Max({a, b}) = IF a >= b THEN a ELSE b
  BY MaxOfTwo
<1>2. (a..n) \cap (b..n) = (IF a >= b THEN a ELSE b)..n
  OBVIOUS
<1> QED BY <1>1, <1>2 DEF Both

\* The strength index: where it is, and a share of the whole.
LEMMA RsiIs ==
    ASSUME NEW v, Lists(v), \A i \in DOMAIN v : v[i] \in Int, NEW period \in Nat \ {0}
    PROVE  /\ DOMAIN Rsi(v, period) = (period + 1)..Len(v)
           /\ \A i \in DOMAIN Rsi(v, period) : Rsi(v, period)[i] \in 0..Whole
<1>1. Len(v) \in Nat /\ DOMAIN v = 1..Len(v)
  BY DEF Lists
<1>2. PICK ups, downs : /\ ups = [i \in DOMAIN v |-> Max({Change(v, i), 0})]
                        /\ downs = [i \in DOMAIN v |-> Max({-Change(v, i), 0})]
  OBVIOUS
<1>3. \A i \in DOMAIN v : Max({Change(v, i), 0}) \in Nat /\ Max({-Change(v, i), 0}) \in Nat
  <2> SUFFICES ASSUME NEW i \in DOMAIN v
               PROVE  Max({Change(v, i), 0}) \in Nat /\ Max({-Change(v, i), 0}) \in Nat
    OBVIOUS
  <2>1. PICK x, y : x = Change(v, i) /\ y = -Change(v, i)
    OBVIOUS
  <2>2. Change(v, i) \in Int
    <3>1. i # 1 => i - 1 \in DOMAIN v
      BY <1>1
    <3> QED BY <3>1 DEF Change
  <2>3. x \in Int /\ y \in Int
    BY <2>1, <2>2
  <2>4. Max({x, 0}) = (IF x >= 0 THEN x ELSE 0) /\ Max({y, 0}) = (IF y >= 0 THEN y ELSE 0)
    BY <2>3, MaxOfTwo
  <2> QED BY <2>1, <2>3, <2>4
<1>4. /\ Lists(ups) /\ Len(ups) = Len(v) /\ Lists(downs) /\ Len(downs) = Len(v)
      /\ \A i \in DOMAIN ups : ups[i] \in Nat
      /\ \A i \in DOMAIN downs : downs[i] \in Nat
  <2>1. /\ ups = [i \in 1..Len(v) |-> ups[i]] /\ downs = [i \in 1..Len(v) |-> downs[i]]
        /\ DOMAIN ups = DOMAIN v /\ DOMAIN downs = DOMAIN v
    BY <1>1, <1>2
  <2>2. Lists(ups) /\ Len(ups) = Len(v) /\ Lists(downs) /\ Len(downs) = Len(v)
    BY <1>1, <2>1, FunctionLists
  <2> QED BY <1>2, <1>3, <2>1, <2>2
<1>5. PICK gain, loss : gain = Wilder(ups, period) /\ loss = Wilder(downs, period)
  OBVIOUS
<1>6. DOMAIN gain = (period + 1)..Len(v) /\ DOMAIN loss = (period + 1)..Len(v)
  BY <1>4, <1>5, ListsRun
<1>7. \A i \in (period + 1)..Len(v) : gain[i] \in Nat /\ loss[i] \in Nat
  BY <1>4, <1>5, <1>6, WilderNatural
<1>8. Rsi(v, period) = [i \in DOMAIN gain |-> IF loss[i] = 0 THEN Whole ELSE (Whole * gain[i]) \div (gain[i] + loss[i])]
  BY <1>2, <1>5 DEF Rsi
<1>9. ASSUME NEW x \in Nat, NEW y \in Nat
      PROVE  (IF y = 0 THEN Whole ELSE (Whole * x) \div (x + y)) \in 0..Whole
  <2>1. CASE y = 0
    BY <2>1, WholeIs
  <2>2. CASE y # 0
    <3>1. PICK a, b : a = Whole * x /\ b = x + y
      OBVIOUS
    <3>2. a \in Nat /\ b \in Nat \ {0} /\ a <= Whole * b
      BY <2>2, <3>1 DEF Whole
    <3>3. a \div b \in 0..Whole
      BY <3>2, PartOfWhole
    <3> QED BY <2>2, <3>1, <3>3, Zenon
  <2> QED BY <2>1, <2>2
<1>10. \A i \in DOMAIN gain : Rsi(v, period)[i] \in 0..Whole
  <2> SUFFICES ASSUME NEW i \in DOMAIN gain PROVE Rsi(v, period)[i] \in 0..Whole
    OBVIOUS
  <2>1. PICK x, y : x = gain[i] /\ y = loss[i]
    OBVIOUS
  <2>2. x \in Nat /\ y \in Nat
    BY <1>6, <1>7, <2>1
  <2>3. Rsi(v, period)[i] = IF y = 0 THEN Whole ELSE (Whole * x) \div (x + y)
    BY <1>8, <2>1, Zenon
  <2> QED BY <1>9, <2>2, <2>3
<1>11. DOMAIN Rsi(v, period) = DOMAIN gain
  BY <1>8
<1> QED BY <1>6, <1>10, <1>11

\* The average range: where it is, and not negative.
LEMMA AtrIs ==
    ASSUME NEW c, Real(c), NEW period \in Nat \ {0}
    PROVE  /\ DOMAIN Atr(c, period) = (period + 1)..Len(c)
           /\ \A i \in DOMAIN Atr(c, period) : Atr(c, period)[i] \in Nat
<1>1. Len(c) \in Nat /\ DOMAIN c = 1..Len(c)
  BY DEF Real, Lists
<1>2. PICK ranges : ranges = [i \in DOMAIN c |-> TrueRange(c, i)]
  OBVIOUS
<1>3. ranges = [i \in 1..Len(c) |-> ranges[i]] /\ DOMAIN ranges = DOMAIN c
  BY <1>1, <1>2
<1>4. Lists(ranges) /\ Len(ranges) = Len(c)
  BY <1>1, <1>3, FunctionLists
<1>5. \A i \in DOMAIN ranges : ranges[i] \in Nat
  BY <1>2, <1>3, MovesNatural
<1>6. Atr(c, period) = Wilder(ranges, period)
  BY <1>2 DEF Atr
<1> QED BY <1>4, <1>5, <1>6, ListsRun, WilderNatural

\* What is seen at finitely many candles is finite.
LEMMA SeenFinite ==
    ASSUME NEW S, IsFiniteSet(S), NEW F
    PROVE  IsFiniteSet(Seen(F, S))
<1> DEFINE f == [j \in S |-> F[j]]
<1>1. f \in Surjection(S, Seen(F, S))
  BY DEF Surjection, Seen
<1> QED BY <1>1, FS_Surjection

\* The least and the greatest of what is seen at some candles.
LEMMA SeenBetween ==
    ASSUME NEW S, IsFiniteSet(S), NEW F, \A j \in S : F[j] \in Int, NEW i \in S
    PROVE  LET T == Seen(F, S)
           IN  /\ Min(T) \in Int /\ Max(T) \in Int /\ Min(T) <= F[i] /\ F[i] <= Max(T)
               /\ \A j \in S : Min(T) <= F[j] /\ F[j] <= Max(T)
<1>1. PICK T : T = Seen(F, S)
  OBVIOUS
<1>2. T \in SUBSET Int /\ IsFiniteSet(T) /\ T # {}
  BY <1>1, SeenFinite DEF Seen
<1>3. \A y \in T : Min(T) <= y /\ y <= Max(T)
  BY <1>2, Extremes
<1>4. Min(T) \in Int /\ Max(T) \in Int
  BY <1>2, Extremes
<1>5. \A j \in S : Min(T) <= F[j] /\ F[j] <= Max(T)
  BY <1>1, <1>3 DEF Seen
<1> QED BY <1>1, <1>4, <1>5

\* The last candles of a window, as many as there are.
LEMMA LastCandles ==
    ASSUME NEW i \in Nat \ {0}, NEW period \in Nat \ {0}
    PROVE  LET W == Max({1, i - period + 1})..i
           IN  IsFiniteSet(W) /\ i \in W /\ W \subseteq 1..i
<1>1. PICK a, b : a = Max({1, i - period + 1}) /\ b = i - period + 1
  OBVIOUS
<1>2. a = IF 1 >= b THEN 1 ELSE b
  BY <1>1, MaxOfTwo
<1>3. a \in Nat /\ 1 <= a /\ a <= i
  BY <1>1, <1>2
<1>4. IsFiniteSet(a..i) /\ i \in a..i /\ a..i \subseteq 1..i
  BY <1>3, WindowCounts
<1> QED BY <1>1, <1>4

\* The price weighted by volume lies between the low and the high of its window.
LEMMA VwapIs ==
    ASSUME NEW c, Real(c), NEW period \in Nat \ {0}, NEW i \in DOMAIN Vwap(c, period)
    PROVE  LET W == Max({1, i - period + 1})..i
           IN  Vwap(c, period)[i] \in Min(Seen(Field(c, "low"), W))..Max(Seen(Field(c, "high"), W))
<1> DEFINE Frame(k) == Max({1, k - period + 1})..k
           there == {j \in DOMAIN c : VolumeOver(c, Frame(j)) > 0}
<1>1. Vwap(c, period) = [j \in there |-> TurnoverOver(c, Frame(j)) \div VolumeOver(c, Frame(j))]
  BY DEF Vwap, VolumeOver, TurnoverOver, Typical, MapThenSumSet, MapThenFoldSet
<1>2. PICK W : W = Frame(i)
  OBVIOUS
<1>3. /\ i \in DOMAIN c /\ VolumeOver(c, W) > 0
      /\ Vwap(c, period)[i] = TurnoverOver(c, W) \div VolumeOver(c, W)
  BY <1>1, <1>2
<1>4. Len(c) \in Nat /\ DOMAIN c = 1..Len(c)
  BY DEF Real, Lists
<1>5. i \in Nat \ {0}
  BY <1>3, <1>4
<1>6. IsFiniteSet(W) /\ i \in W /\ W \subseteq 1..i
  BY <1>2, <1>5, LastCandles
<1> HIDE DEF Frame, there
<1>7. W \subseteq DOMAIN c
  BY <1>3, <1>4, <1>6
<1>8. PICK lows, highs, volume, turnover :
         /\ lows = Field(c, "low") /\ highs = Field(c, "high")
         /\ volume = [j \in W |-> c[j].volume] /\ turnover = [j \in W |-> Typical(c, j) * c[j].volume]
  OBVIOUS
<1>9. \A j \in W : /\ lows[j] \in Int /\ highs[j] \in Int /\ volume[j] \in Nat /\ turnover[j] \in Int
                   /\ lows[j] <= Typical(c, j) /\ Typical(c, j) <= highs[j] /\ Typical(c, j) \in Int
                   /\ turnover[j] = Typical(c, j) * volume[j]
  <2> SUFFICES ASSUME NEW j \in W
               PROVE  /\ lows[j] \in Int /\ highs[j] \in Int /\ volume[j] \in Nat /\ turnover[j] \in Int
                      /\ lows[j] <= Typical(c, j) /\ Typical(c, j) <= highs[j] /\ Typical(c, j) \in Int
                      /\ turnover[j] = Typical(c, j) * volume[j]
    OBVIOUS
  <2>1. PICK l, h, x : l = c[j].low /\ h = c[j].high /\ x = c[j].close
    OBVIOUS
  <2>2. l \in Int /\ h \in Int /\ x \in Int /\ l <= x /\ x <= h /\ c[j].volume \in Nat
    BY <1>7, <2>1, RealPrices
  <2>3. PICK s, three : s = h + l + x /\ three = 3
    OBVIOUS
  <2>4. s \in Int /\ three \in Nat \ {0} /\ l * three <= s /\ s <= h * three
    BY <2>2, <2>3
  <2>5. s \div three \in Int /\ l <= s \div three /\ s \div three <= h
    BY <2>2, <2>4, Quotient, QuotientAtLeast, QuotientAtMost
  <2>6. Typical(c, j) = s \div three
    BY <2>1, <2>3, Zenon DEF Typical
  <2>7. PICK t : t = Typical(c, j)
    OBVIOUS
  <2>8. t \in Int /\ l <= t /\ t <= h
    BY <2>5, <2>6, <2>7, Zenon
  <2>9. lows[j] = l /\ highs[j] = h /\ volume[j] = c[j].volume /\ turnover[j] = t * c[j].volume
    <3>1. lows[j] = c[j].low /\ highs[j] = c[j].high
      BY <1>7, <1>8 DEF Field
    <3> QED BY <1>8, <2>1, <2>7, <3>1
  <2> QED BY <2>2, <2>7, <2>8, <2>9
<1>10. PICK lo, hi : lo = Min(Seen(lows, W)) /\ hi = Max(Seen(highs, W))
  OBVIOUS
<1>11. lo \in Int /\ hi \in Int /\ \A j \in W : lo <= lows[j] /\ highs[j] <= hi
  BY <1>6, <1>9, <1>10, SeenBetween
<1>12. \A j \in W : /\ turnover[j] \in Int /\ volume[j] \in Int
                    /\ lo * volume[j] <= turnover[j] /\ turnover[j] <= hi * volume[j]
  <2> SUFFICES ASSUME NEW j \in W
               PROVE  lo * volume[j] <= turnover[j] /\ turnover[j] <= hi * volume[j]
    BY <1>9
  <2>1. PICK t, v : t = Typical(c, j) /\ v = volume[j]
    OBVIOUS
  <2>2. t \in Int /\ v \in Nat /\ lo <= t /\ t <= hi /\ turnover[j] = t * v
    BY <1>9, <1>11, <2>1
  <2>3. lo * v <= t * v /\ t * v <= hi * v
    <3>1. PICK x, y : x = t - lo /\ y = hi - t
      OBVIOUS
    <3>2. x \in Nat /\ y \in Nat /\ t = lo + x /\ hi = t + y
      BY <1>11, <2>2, <3>1
    <3>3. x * v \in Nat /\ y * v \in Nat
      BY <2>2, <3>2
    <3>4. t * v = lo * v + x * v /\ hi * v = t * v + y * v
      BY <1>11, <2>2, <3>2
    <3>5. lo * v \in Int /\ t * v \in Int
      BY <1>11, <2>2
    <3> QED BY <3>3, <3>4, <3>5
  <2> QED BY <2>1, <2>2, <2>3
<1>13. VolumeOver(c, W) = SumOf(volume, W) /\ TurnoverOver(c, W) = SumOf(turnover, W)
  BY <1>8, TurnoversAreSums
<1>14. PICK a, b : a = SumOf(turnover, W) /\ b = SumOf(volume, W)
  OBVIOUS
<1>15. lo * b <= a /\ a <= hi * b
  BY <1>6, <1>11, <1>12, <1>14, SumsCompare
<1>16. a \in Int /\ b \in Nat \ {0}
  <2>1. a \in Int
    BY <1>6, <1>12, <1>14, SumSplits
  <2>2. b \in Nat
    BY <1>6, <1>9, <1>14, SumOfNaturals
  <2> QED BY <1>3, <1>13, <1>14, <2>1, <2>2
<1>17. a \div b \in Int /\ lo <= a \div b /\ a \div b <= hi
  BY <1>11, <1>15, <1>16, Quotient, QuotientAtLeast, QuotientAtMost
<1>18. PICK x : x = a \div b
  OBVIOUS
<1>19. Vwap(c, period)[i] = x
  BY <1>3, <1>13, <1>14, <1>18, Zenon
<1>20. x \in Int /\ lo <= x /\ x <= hi
  BY <1>17, <1>18, Zenon
<1>21. x \in lo..hi
  BY <1>11, <1>20
<1>22. Vwap(c, period)[i] \in Min(Seen(Field(c, "low"), W))..Max(Seen(Field(c, "high"), W))
  BY <1>8, <1>10, <1>19, <1>21, Zenon
<1> QED BY <1>2, <1>22 DEF Frame

\* A field of a list of candles is a list as long.
LEMMA FieldLists ==
    ASSUME NEW c, Len(c) \in Nat, DOMAIN c = 1..Len(c), NEW name
    PROVE  Lists(Field(c, name)) /\ Len(Field(c, name)) = Len(c)
<1>1. PICK f : f = Field(c, name)
  OBVIOUS
<1>2. f = [i \in 1..Len(c) |-> f[i]]
  BY <1>1 DEF Field
<1> QED BY <1>1, <1>2, FunctionLists

\* The channel of the last candles holds the last close.
LEMMA DonchianHolds ==
    ASSUME NEW c, Real(c), NEW period \in Nat \ {0}, NEW i \in period..Len(c)
    PROVE  LET d == Donchian(Field(c, "high"), Field(c, "low"), period)[i]
           IN  c[i].close \in d.low..d.high
<1>1. Len(c) \in Nat /\ DOMAIN c = 1..Len(c) /\ i \in DOMAIN c /\ i \in Nat \ {0}
  BY DEF Real, Lists
<1>2. PICK highs, lows, W : highs = Field(c, "high") /\ lows = Field(c, "low") /\ W = Trailing(i, period)
  OBVIOUS
<1>3. Len(highs) = Len(c)
  BY <1>1, <1>2, FieldLists
<1>4. IsFiniteSet(W) /\ i \in W /\ W \subseteq DOMAIN c
  <2>1. PICK a : a = i - period + 1
    OBVIOUS
  <2>2. a \in Nat /\ 1 <= a /\ a <= i /\ W = a..i
    BY <1>1, <1>2, <2>1 DEF Trailing
  <2>3. IsFiniteSet(a..i)
    BY <1>1, <2>2, WindowCounts
  <2> QED BY <1>1, <2>2, <2>3
<1>5. \A j \in W : highs[j] = c[j].high /\ lows[j] = c[j].low /\ highs[j] \in Int /\ lows[j] \in Int
  BY <1>2, <1>4, RealPrices DEF Field
<1>6. PICK top, bottom : top = Max(Seen(highs, W)) /\ bottom = Min(Seen(lows, W))
  OBVIOUS
<1>7. top \in Int /\ highs[i] <= top
  BY <1>4, <1>5, <1>6, SeenBetween
<1>8. bottom \in Int /\ bottom <= lows[i]
  BY <1>4, <1>5, <1>6, SeenBetween
<1>9. PICK x : x = c[i].close
  OBVIOUS
<1>10. c[i].low <= x /\ x <= c[i].high /\ x \in Int
  BY <1>1, <1>9, RealPrices
<1>11. x \in bottom..top
  BY <1>4, <1>5, <1>7, <1>8, <1>10
<1>12. Donchian(highs, lows, period)[i] = [high |-> top, low |-> bottom]
  BY <1>2, <1>3, <1>6 DEF Donchian, Seen
<1>13. PICK d : d = Donchian(highs, lows, period)[i]
  OBVIOUS
<1>14. d.low = bottom /\ d.high = top
  BY <1>12, <1>13
<1> QED BY <1>2, <1>9, <1>11, <1>13, <1>14, Zenon

\* The indicators of real candles, by name.
LEMMA SeriesRead ==
    ASSUME NEW candles \in Seq(RealCandle)
    PROVE  /\ Real(candles)
           /\ Lists(Field(candles, "close")) /\ Len(Field(candles, "close")) = Len(candles)
           /\ Len(Field(candles, "high")) = Len(candles)
           /\ \A i \in DOMAIN Field(candles, "close") : Field(candles, "close")[i] \in Int
<1>1. Real(candles)
  BY Sequence DEF Real, Lists
<1>2. Len(candles) \in Nat /\ DOMAIN candles = 1..Len(candles)
  BY <1>1 DEF Real, Lists
<1>3. \A i \in DOMAIN candles : candles[i].close \in Int
  BY <1>1, RealPrices
<1> QED BY <1>1, <1>2, <1>3, FieldLists DEF Field

\* What build_indicators makes of each field.
LEMMA IndicatorsRead ==
    ASSUME NEW candles, NEW p
    PROVE  LET b == BuildIndicators(candles, p)
               closes == Field(candles, "close")
           IN  /\ b.ema = Ema(closes, p.ema) /\ b.sma = Sma(closes, p.sma) /\ b.rsi = Rsi(closes, p.rsi)
               /\ b.atr = Atr(candles, p.atr) /\ b.adx = Adx(candles, p.adx)
               /\ b.macd = MacdHist(closes, p.fast, p.slow, p.signal)
               /\ b.channel = Donchian(Field(candles, "high"), Field(candles, "low"), p.channel)
               /\ b.keltner = Keltner(b.ema, b.atr, 3) /\ b.vwap = Vwap(candles, p.vwap)
BY DEF BuildIndicators

\* Once warm, an indicator stays warm: of real candles every average, oscillator
\* and channel has a number from the candle that fills its window on, at every
\* candle, and adx from the first candle that moves (the Nones at the head of the
\* lists of indicators.py, which the setups index from the end).
THEOREM IndicatorsWarmUp ==
    ASSUME NEW candles \in Seq(RealCandle), NEW p \in WindowLengths, p.fast <= p.slow, p.adx >= 2
    PROVE  WarmsUp(BuildIndicators(candles, p), candles, p)
<1>1. PICK b : b = BuildIndicators(candles, p)
  OBVIOUS
<1>2. PICK closes : closes = Field(candles, "close")
  OBVIOUS
<1>3. Real(candles) /\ Lists(closes) /\ Len(closes) = Len(candles) /\ \A i \in DOMAIN closes : closes[i] \in Int
  BY <1>2, SeriesRead
<1>4. /\ b.ema = Ema(closes, p.ema) /\ b.sma = Sma(closes, p.sma) /\ b.rsi = Rsi(closes, p.rsi)
      /\ b.atr = Atr(candles, p.atr) /\ b.adx = Adx(candles, p.adx)
      /\ b.macd = MacdHist(closes, p.fast, p.slow, p.signal) /\ b.keltner = Keltner(b.ema, b.atr, 3)
  BY <1>1, <1>2, IndicatorsRead
<1>5. /\ p.ema \in Nat \ {0} /\ p.sma \in Nat \ {0} /\ p.rsi \in Nat \ {0} /\ p.atr \in Nat \ {0}
      /\ p.adx \in Nat \ {0} /\ p.fast \in Nat \ {0} /\ p.slow \in Nat \ {0} /\ p.signal \in Nat \ {0}
  BY DEF WindowLengths
<1>6. Len(candles) \in Nat
  BY <1>3 DEF Lists
<1>7. DOMAIN b.sma = p.sma..Len(candles) /\ DOMAIN b.ema = p.ema..Len(candles)
  BY <1>3, <1>4, <1>5, ListsRun
<1>8. DOMAIN b.rsi = (p.rsi + 1)..Len(candles)
  BY <1>3, <1>4, <1>5, RsiIs
<1>9. DOMAIN b.atr = (p.atr + 1)..Len(candles)
  BY <1>3, <1>4, <1>5, AtrIs
<1>10. DOMAIN b.keltner = Max({p.ema, p.atr + 1})..Len(candles)
  <2>1. PICK first : first = p.atr + 1
    OBVIOUS
  <2>2. first \in Int /\ p.ema \in Int /\ Len(candles) \in Int
    BY <1>5, <1>6, <2>1
  <2>3. Both(b.ema, b.atr) = Max({p.ema, first})..Len(candles)
    BY <1>7, <1>9, <2>1, <2>2, BothStart
  <2> QED BY <1>4, <2>1, <2>3 DEF Keltner
<1>11. DOMAIN b.macd = (p.slow + p.signal - 1)..Len(candles)
  <2>1. PICK fast, slow, signal : fast = p.fast /\ slow = p.slow /\ signal = p.signal
    OBVIOUS
  <2>2. fast \in Nat \ {0} /\ slow \in Nat \ {0} /\ signal \in Nat \ {0} /\ fast <= slow
    BY <1>5, <2>1
  <2>3. DOMAIN MacdHist(closes, fast, slow, signal) = (slow + signal - 1)..Len(closes)
    BY <1>3, <2>2, MacdStarts
  <2> QED BY <1>3, <1>4, <2>1, <2>3
<1>12. /\ DOMAIN b.adx \subseteq (2 * p.adx + 1)..Len(candles)
       /\ \A i \in DOMAIN b.adx : i < Len(candles) => i + 1 \in DOMAIN b.adx
       /\ TrueRange(candles, 2) > 0 => DOMAIN b.adx = (2 * p.adx + 1)..Len(candles)
  BY <1>3, <1>4, <1>5, AdxIs
<1>13. WarmsUp(b, candles, p)
  BY <1>7, <1>8, <1>9, <1>10, <1>11, <1>12 DEF WarmsUp
<1> QED BY <1>1, <1>13

\* Scale: of real candles an exponential mean lies among the closes so far, the
\* running mean is the mean of its window, oscillators are shares of the whole,
\* ranges are not negative, the channel holds the close, the volume-weighted price
\* lies between the low and the high of its window, and the mean that passes over
\* gaps is the plain one where there are none (indicators.py).
THEOREM IndicatorsKeepScale ==
    ASSUME NEW candles \in Seq(RealCandle), NEW p \in WindowLengths, p.adx >= 2
    PROVE  Bounded(BuildIndicators(candles, p), candles, p)
<1>1. PICK b : b = BuildIndicators(candles, p)
  OBVIOUS
<1>2. PICK closes : closes = Field(candles, "close")
  OBVIOUS
<1>3. Real(candles) /\ Lists(closes) /\ Len(closes) = Len(candles) /\ \A i \in DOMAIN closes : closes[i] \in Int
  BY <1>2, SeriesRead
<1>4. /\ b.ema = Ema(closes, p.ema) /\ b.sma = Sma(closes, p.sma) /\ b.rsi = Rsi(closes, p.rsi)
      /\ b.atr = Atr(candles, p.atr) /\ b.adx = Adx(candles, p.adx) /\ b.vwap = Vwap(candles, p.vwap)
      /\ b.channel = Donchian(Field(candles, "high"), Field(candles, "low"), p.channel)
  BY <1>1, <1>2, IndicatorsRead
<1>5. /\ p.ema \in Nat \ {0} /\ p.sma \in Nat \ {0} /\ p.rsi \in Nat \ {0} /\ p.atr \in Nat \ {0}
      /\ p.adx \in Nat \ {0} /\ p.channel \in Nat \ {0} /\ p.vwap \in Nat \ {0}
  BY DEF WindowLengths
<1>6. Len(candles) \in Nat /\ DOMAIN closes = 1..Len(candles)
  BY <1>3 DEF Lists
<1>7. \A i \in DOMAIN b.ema : b.ema[i] \in Min(Seen(closes, 1..i))..Max(Seen(closes, 1..i))
  <2> SUFFICES ASSUME NEW i \in DOMAIN b.ema
               PROVE  b.ema[i] \in Min(Seen(closes, 1..i))..Max(Seen(closes, 1..i))
    OBVIOUS
  <2>1. i \in 1..Len(candles) /\ 1..i \subseteq DOMAIN closes /\ i \in 1..i /\ i \in Nat
    <3>1. i \in p.ema..Len(candles)
      BY <1>3, <1>4, <1>5, ListsRun
    <3> QED BY <1>5, <1>6, <3>1
  <2>2. IsFiniteSet(1..i)
    BY <2>1, WindowCounts
  <2>3. PICK lo, hi : lo = Min(Seen(closes, 1..i)) /\ hi = Max(Seen(closes, 1..i))
    OBVIOUS
  <2>4. \A j \in 1..i : closes[j] \in Int
    BY <1>3, <2>1
  <2>5. lo \in Int /\ hi \in Int /\ \A j \in 1..i : closes[j] \in Int /\ lo <= closes[j] /\ closes[j] <= hi
    BY <2>1, <2>2, <2>3, <2>4, SeenBetween
  <2>6. b.ema[i] \in Int /\ lo <= b.ema[i] /\ b.ema[i] <= hi
    BY <1>3, <1>4, <1>5, <2>5, EmaBetween
  <2> QED BY <2>3, <2>5, <2>6
<1>8. \A i \in DOMAIN b.sma : b.sma[i] = Mean(closes, Trailing(i, p.sma))
  BY <1>3, <1>4, <1>5, SmaIsMean
<1>9. \A i \in DOMAIN b.rsi : b.rsi[i] \in 0..Whole
  BY <1>3, <1>4, <1>5, RsiIs
<1>10. \A i \in DOMAIN b.adx : b.adx[i] \in 0..Whole
  BY <1>3, <1>4, <1>5, AdxIs
<1>11. \A i \in DOMAIN b.atr : b.atr[i] >= 0
  <2>1. \A i \in DOMAIN b.atr : b.atr[i] \in Nat
    BY <1>3, <1>4, <1>5, AtrIs
  <2> QED BY <2>1
<1>12. \A i \in DOMAIN b.channel : candles[i].close \in b.channel[i].low..b.channel[i].high
  <2> SUFFICES ASSUME NEW i \in DOMAIN b.channel
               PROVE  candles[i].close \in b.channel[i].low..b.channel[i].high
    OBVIOUS
  <2>1. i \in p.channel..Len(candles)
    <3>1. DOMAIN b.channel = p.channel..Len(Field(candles, "high"))
      BY <1>4 DEF Donchian
    <3>2. Len(Field(candles, "high")) = Len(candles)
      BY SeriesRead
    <3> QED BY <3>1, <3>2
  <2> QED BY <1>3, <1>4, <1>5, <2>1, DonchianHolds
<1>13. \A i \in DOMAIN b.vwap :
          LET W == Max({1, i - p.vwap + 1})..i
          IN  b.vwap[i] \in Min(Seen(Field(candles, "low"), W))..Max(Seen(Field(candles, "high"), W))
  BY <1>3, <1>4, <1>5, VwapIs
<1>14. EmaOfOptional(closes, p.ema) = b.ema
  BY <1>3, <1>4, <1>5, OptionalIsEma
<1>15. AveragesLie(b, Field(candles, "close"), p)
  BY <1>2, <1>7, <1>8, <1>14, Zenon DEF AveragesLie
<1>16. OscillatorsScale(b)
  BY <1>9, <1>10, <1>11 DEF OscillatorsScale
<1>17. PricesHeld(b, candles, p)
  BY <1>12, <1>13 DEF PricesHeld
<1>18. Bounded(b, candles, p)
  BY <1>15, <1>16, <1>17 DEF Bounded
<1> QED BY <1>1, <1>18
=============================================================================
