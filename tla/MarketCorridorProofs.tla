-------------------------- MODULE MarketCorridorProofs --------------------------
(***************************************************************************)
(* What the corridor and the limiter it shares between threads promise,    *)
(* proved for every minute, limit, target list and chain of providers; and *)
(* what MCIngest samples of batches and calendars, for every batch and     *)
(* every year.                                                             *)
(***************************************************************************)
EXTENDS MCIngest, SequenceFacts

\* Every refresher has a program counter and a list of targets.
RefShape ==
    /\ DOMAIN ref = Refreshers
    /\ \A r \in Refreshers : {"pc", "todo", "chain", "codes", "kept", "status"} = DOMAIN ref[r]

\* A thread between the look at the head and the popleft, and one between the
\* count and the append.
Popping(r, d) == At(r, "pop") /\ Target(r).market_type = d
Appending(r, d) == At(r, "append") /\ Target(r).market_type = d

Descends(ages) == \A i, j \in DOMAIN ages : i < j => ages[j] <= ages[i]
\* Events and requests let through agree from the newest on; an event older than
\* them all has expired.
Aligned(events, through) ==
    /\ \A k \in 0..(Len(events) - 1) :
          events[Len(events) - k] = IF k < Len(through) THEN through[Len(through) - k] ELSE Window

LimiterTypes ==
    /\ window \in [Domains -> Seq(0..Window)]
    /\ granted \in [Domains -> Seq(0..(Window - 1))]
\* Who is about to pop, and who to append, each to be counted.
Poppers(d) == {r \in Refreshers : Popping(r, d)}
Appenders(d) == {r \in Refreshers : Appending(r, d)}
\* Requests let through that have lost their event, with the threads about to pop,
\* are fewer than the threads: where all are about to pop, an expired event waits.
Matched ==
    \A d \in Domains :
        /\ Descends(granted[d])
        /\ Aligned(window[d], granted[d])
        /\ Len(granted[d]) + Cardinality(Poppers(d)) <= Len(window[d]) + Cardinality(Refreshers) - 1
\* Threads that have passed the count are counted.
Counted ==
    \A d \in Domains :
        Len(window[d]) + Cardinality(Appenders(d)) <= Limit[d] + Cardinality(Refreshers) - 1
LimiterInv == RefShape /\ LimiterTypes /\ Matched /\ Counted

-----------------------------------------------------------------------------
(* What the steps do to the threads.                                       *)

\* A thread at rest.
LEMMA IdleShape == {"pc", "todo", "chain", "codes", "kept", "status"} = DOMAIN Idle /\ Idle.pc = "idle"
  BY DEF Idle

\* A thread that goes on within its target.
LEMMA GoStep ==
    ASSUME RefShape, NEW r \in Refreshers, NEW pc, Go(r, pc)
    PROVE  /\ RefShape' /\ ref'[r].pc = pc /\ ref'[r].todo = ref[r].todo
           /\ \A q \in Refreshers \ {r} : ref'[q] = ref[q]
  BY DEF RefShape, Go

\* A thread that is done with its target.
LEMMA NextTargetStep ==
    ASSUME RefShape, NEW r \in Refreshers, NextTarget(r)
    PROVE  /\ RefShape' /\ ref'[r].pc \in {"idle", "clear"}
           /\ \A q \in Refreshers \ {r} : ref'[q] = ref[q]
<1> DEFINE next == IF Len(ref[r].todo) = 1 THEN Idle
                   ELSE [Idle EXCEPT !.pc = "clear", !.todo = Tail(ref[r].todo)]
<1>1. ref' = [ref EXCEPT ![r] = next]
  BY DEF NextTarget
<1>2. {"pc", "todo", "chain", "codes", "kept", "status"} = DOMAIN next /\ next.pc \in {"idle", "clear"}
  BY IdleShape DEF Idle
<1> HIDE DEF next
<1> QED BY <1>1, <1>2 DEF RefShape

\* A thread whose provider is done with.
LEMMA NextProviderStep ==
    ASSUME RefShape, NEW r \in Refreshers, NextProvider(r)
    PROVE  /\ RefShape' /\ ref'[r].pc \in {"idle", "clear", "client"}
           /\ \A q \in Refreshers \ {r} : ref'[q] = ref[q]
<1>1. CASE Len(ref[r].chain) > 1
  <2> DEFINE next == [Idle EXCEPT !.pc = "client", !.todo = ref[r].todo, !.chain = Tail(ref[r].chain)]
  <2>1. ref' = [ref EXCEPT ![r] = next]
    BY <1>1 DEF NextProvider
  <2>2. {"pc", "todo", "chain", "codes", "kept", "status"} = DOMAIN next /\ next.pc = "client"
    BY IdleShape DEF Idle
  <2> HIDE DEF next
  <2> QED BY <2>1, <2>2 DEF RefShape
<1>2. CASE ~(Len(ref[r].chain) > 1)
  BY <1>2, NextTargetStep DEF NextProvider
<1> QED BY <1>1, <1>2

\* A thread whose provider raised, or whose write the store refused.
LEMMA CaughtStep ==
    ASSUME RefShape, NEW r \in Refreshers, Caught(r)
    PROVE  /\ RefShape' /\ ref'[r].pc = "note"
           /\ \A q \in Refreshers \ {r} : ref'[q] = ref[q]
  BY DEF RefShape, Caught

\* The steps that leave the limiter alone: none of them leads to a pop or an append.
Quiet(r) ==
    \/ Start(r) \/ Clear(r) \/ PopEmpty(r) \/ Retry(r) \/ Refuse(r) \/ LogRefusal(r) \/ Resolve(r)
    \/ NoClient(r) \/ Explain(r) \/ Fetch(r) \/ FetchFails(r) \/ Note(r) \/ Replace(r) \/ Log(r)
    \/ WriteFails(r) \/ NoteFails(r) \/ ReplaceFails(r) \/ LogFails(r)

\* A quiet step keeps the shape of a refresh and leaves it away from pop and append.
LEMMA QuietStep ==
    ASSUME RefShape, NEW r \in Refreshers, Quiet(r)
    PROVE  /\ RefShape' /\ ref'[r].pc \notin {"pop", "append"}
           /\ \A q \in Refreshers \ {r} : ref'[q] = ref[q]
           /\ UNCHANGED limiter
<1>1. UNCHANGED limiter
  BY DEF Quiet, Start, Clear, PopEmpty, Retry, Refuse, LogRefusal, Resolve, NoClient, Explain, Fetch, FetchFails,
         Note, Replace, Log, WriteFails, NoteFails, ReplaceFails, LogFails
<1>2. CASE Start(r)
  <2>1. PICK list : ref' = [ref EXCEPT ![r] = [Idle EXCEPT !.pc = "clear", !.todo = TargetsOf(list)]]
    BY <1>2 DEF Start
  <2> DEFINE next == [Idle EXCEPT !.pc = "clear", !.todo = TargetsOf(list)]
  <2>2. {"pc", "todo", "chain", "codes", "kept", "status"} = DOMAIN next /\ next.pc = "clear"
    BY IdleShape DEF Idle
  <2> HIDE DEF next
  <2> QED BY <1>1, <2>1, <2>2 DEF RefShape, next
<1>3. CASE Clear(r) \/ NoClient(r) \/ Retry(r) \/ Refuse(r) \/ Note(r)
  <2>1. \E pc \in {"prune", "explain", "limited", "refused", "replace", "log"} : Go(r, pc)
    BY <1>3 DEF Clear, NoClient, Retry, Refuse, Note
  <2> QED BY <1>1, <2>1, GoStep
<1>4. CASE PopEmpty(r) \/ LogRefusal(r) \/ WriteFails(r)
  <2>1. NextTarget(r)
    BY <1>4 DEF PopEmpty, LogRefusal, WriteFails, GivesUp
  <2> QED BY <1>1, <2>1, NextTargetStep
<1>5. CASE Resolve(r)
  <2>1. CASE NextTarget(r)
    BY <1>1, <2>1, NextTargetStep
  <2>2. CASE ~NextTarget(r)
    <3>1. ref' = [ref EXCEPT ![r].pc = "client", ![r].chain = Chain(Target(r).market_type, "ohlcv")]
      BY <1>5, <2>2 DEF Resolve
    <3> QED BY <1>1, <3>1 DEF RefShape
  <2> QED BY <2>1, <2>2
<1>6. CASE Explain(r)
  BY <1>1, <1>6, NextProviderStep DEF Explain
<1>7. CASE Fetch(r)
  <2>1. PICK raws : Answered(r, raws)
    BY <1>7 DEF Fetch
  <2>2. PICK codes, kept, status :
           ref' = [ref EXCEPT ![r].pc = "note", ![r].codes = codes, ![r].kept = kept, ![r].status = status]
    BY <2>1 DEF Answered
  <2> QED BY <1>1, <2>2 DEF RefShape
<1>8. CASE FetchFails(r) \/ Replace(r) \/ NoteFails(r) \/ ReplaceFails(r) \/ LogFails(r)
  <2>1. CASE Replace(r)
    BY <1>1, <2>1 DEF Replace, RefShape
  <2>2. CASE ~Replace(r)
    <3>1. Caught(r) \/ NextTarget(r)
      BY <1>8, <2>2 DEF FetchFails, NoteFails, ReplaceFails, LogFails, GivesUp
    <3> QED BY <1>1, <3>1, CaughtStep, NextTargetStep
  <2> QED BY <2>1, <2>2
<1>9. CASE Log(r)
  BY <1>1, <1>9, NextProviderStep, NextTargetStep DEF Log
<1> QED BY <1>2, <1>3, <1>4, <1>5, <1>6, <1>7, <1>8, <1>9 DEF Quiet
-----------------------------------------------------------------------------
(* Sequences of ages.                                                      *)

\* The oldest of ages that descend are the first of them.
LEMMA OldestFirst ==
    ASSUME NEW n \in Nat, NEW E, E \subseteq 1..n, \A i, j \in 1..n : i < j /\ j \in E => i \in E
    PROVE  Cardinality(E) \in 0..n /\ E = 1..Cardinality(E)
<1> DEFINE F == (1..(n + 1)) \ E
           Less == OpToRel(<, Nat)
<1>1. IsWellFoundedOn(Less, Nat)
  BY NatLessThanWellFounded
<1>2. F \subseteq Nat /\ n + 1 \in F
  OBVIOUS
<1> HIDE DEF Less
<1>3. PICK m \in F : \A k \in F : ~(<<k, m>> \in Less)
  <2>1. F # {}
    BY <1>2
  <2> HIDE DEF F
  <2> QED BY <1>1, <1>2, <2>1, WFMin
<1>4. \A k \in F : ~(k < m)
  <2>1. \A k \in F : k \in Nat /\ m \in Nat
    BY <1>2
  <2> HIDE DEF F
  <2> QED BY <1>3, <2>1 DEF OpToRel, Less
<1>5. m \in 1..(n + 1) /\ m \notin E
  OBVIOUS
<1>6. \A i \in 1..n : i < m => i \in E
  BY <1>4, <1>5
<1>7. \A i \in 1..n : i \in E => i < m
  BY <1>5
<1> HIDE DEF F
<1>8. E = 1..(m - 1) /\ m - 1 \in 0..n
  <2>1. \A i \in 1..n : i \in E <=> i < m
    BY <1>6, <1>7
  <2>2. \A i \in 1..n : i < m <=> i \in 1..(m - 1)
    BY <1>5
  <2>3. 1..(m - 1) \subseteq 1..n
    BY <1>5
  <2>4. E = 1..(m - 1)
    BY <2>1, <2>2, <2>3
  <2> QED BY <1>5, <2>4
<1>9. Cardinality(1..(m - 1)) = m - 1
  <2>1. Cardinality(1..(m - 1)) = IF 1 > m - 1 THEN 0 ELSE ((m - 1) - 1) + 1
    BY <1>5, FS_Interval
  <2> QED BY <1>5, <2>1
<1> QED BY <1>8, <1>9

\* What is left when ages that descend lose those of a minute and more.
LEMMA RecentAges ==
    ASSUME NEW ages \in Seq(Nat), Descends(ages)
    PROVE  /\ Recent(ages) \in Seq(0..(Window - 1)) /\ Len(Recent(ages)) <= Len(ages)
           /\ \A k \in 0..(Len(Recent(ages)) - 1) :
                 Recent(ages)[Len(Recent(ages)) - k] = ages[Len(ages) - k]
           /\ \A k \in Len(Recent(ages))..(Len(ages) - 1) : ages[Len(ages) - k] >= Window
<1> DEFINE n == Len(ages)
           E == {i \in DOMAIN ages : ages[i] >= Window}
           e == Cardinality(E)
<1>1. n \in Nat /\ DOMAIN ages = 1..n /\ (\A i \in 1..n : ages[i] \in Nat) /\ Window \in Nat
  BY Sequence, CorridorAssumption
<1> HIDE DEF n
<1>2. E \subseteq 1..n /\ \A i, j \in 1..n : i < j /\ j \in E => i \in E
  <2>1. ASSUME NEW i \in 1..n, NEW j \in 1..n, i < j, j \in E PROVE i \in E
    <3>1. ages[j] <= ages[i] /\ ages[j] >= Window
      BY <1>1, <2>1 DEF Descends
    <3> QED BY <1>1, <3>1
  <2> QED BY <1>1, <2>1
<1>3. e \in 0..n /\ E = 1..e
  <2> HIDE DEF E
  <2> QED BY <1>1, <1>2, OldestFirst
<1>4. Recent(ages) = SubSeq(ages, e + 1, n)
  BY DEF Recent, n
<1>5. \A i \in (e + 1)..n : ages[i] \in 0..(Window - 1)
  <2>1. \A i \in (e + 1)..n : i \in 1..n /\ i \notin 1..e
    BY <1>1, <1>3
  <2>2. \A i \in 1..n : i \notin E => ages[i] < Window
    BY <1>1
  <2> HIDE DEF e, E
  <2> QED BY <1>1, <1>3, <2>1, <2>2
<1>6. \A i \in 1..e : ages[i] >= Window
  <2>1. \A i \in E : ages[i] >= Window
    OBVIOUS
  <2> HIDE DEF e, E
  <2> QED BY <1>3, <2>1
<1> HIDE DEF e, E
<1>7. /\ SubSeq(ages, e + 1, n) \in Seq(0..(Window - 1))
      /\ Len(SubSeq(ages, e + 1, n)) = IF e + 1 <= n THEN (n - (e + 1)) + 1 ELSE 0
      /\ \A i \in 1..((n - (e + 1)) + 1) : SubSeq(ages, e + 1, n)[i] = ages[((e + 1) + i) - 1]
  BY <1>1, <1>3, <1>5, SubSeqProperties
<1> DEFINE left == SubSeq(ages, e + 1, n)
<1>8. Len(left) = n - e /\ \A i \in 1..(n - e) : left[i] = ages[e + i]
  <2>1. (n - (e + 1)) + 1 = n - e /\ \A i \in 1..(n - e) : ((e + 1) + i) - 1 = e + i
    BY <1>1, <1>3
  <2>2. Len(left) = n - e
    BY <1>1, <1>3, <1>7
  <2> HIDE DEF left
  <2> QED BY <1>7, <2>1, <2>2 DEF left
<1>9. \A k \in 0..((n - e) - 1) : left[(n - e) - k] = ages[n - k]
  <2>1. \A k \in 0..((n - e) - 1) : (n - e) - k \in 1..(n - e) /\ e + ((n - e) - k) = n - k
    BY <1>1, <1>3
  <2> HIDE DEF left
  <2> QED BY <1>8, <2>1
<1>10. \A k \in (n - e)..(n - 1) : ages[n - k] >= Window
  <2>1. \A k \in (n - e)..(n - 1) : n - k \in 1..e
    BY <1>1, <1>3
  <2> QED BY <1>6, <2>1
<1>11. left \in Seq(0..(Window - 1)) /\ Len(left) <= n
  BY <1>1, <1>3, <1>7, <1>8
<1> HIDE DEF left
<1>12. Recent(ages) = left
  BY <1>4 DEF left
<1> QED BY <1>8, <1>9, <1>10, <1>11, <1>12 DEF n
-----------------------------------------------------------------------------
(* The limiter, step by step.                                              *)

\* Lengths are numbers, and ages are at most a minute.
LEMMA Lengths ==
    ASSUME LimiterTypes, NEW d \in Domains
    PROVE  /\ window[d] \in Seq(0..Window) /\ Len(window[d]) \in Nat
           /\ granted[d] \in Seq(0..(Window - 1)) /\ Len(granted[d]) \in Nat
           /\ DOMAIN window[d] = 1..Len(window[d]) /\ DOMAIN granted[d] = 1..Len(granted[d])
           /\ \A i \in 1..Len(window[d]) : window[d][i] \in 0..Window
           /\ \A i \in 1..Len(granted[d]) : granted[d][i] \in 0..(Window - 1)
           /\ Window \in Nat \ {0} /\ Limit[d] \in Nat
<1>1. window[d] \in Seq(0..Window) /\ granted[d] \in Seq(0..(Window - 1))
  BY DEF LimiterTypes
<1> QED BY <1>1, Sequence, CorridorAssumption

\* Which threads are about to pop or append, where one thread moves.
LEMMA Movers ==
    ASSUME NEW r \in Refreshers, \A q \in Refreshers \ {r} : ref'[q] = ref[q], NEW d
    PROVE  \A q \in Refreshers \ {r} : /\ Popping(q, d)' = Popping(q, d)
                                       /\ Appending(q, d)' = Appending(q, d)
  BY DEF Popping, Appending, At, Target

\* How many threads are about to pop or append: no more than there are.
LEMMA Crowds ==
    /\ IsFiniteSet(Refreshers) /\ Cardinality(Refreshers) \in Nat \ {0}
    /\ \A S \in SUBSET Refreshers : /\ IsFiniteSet(S) /\ Cardinality(S) \in Nat
                                    /\ Cardinality(S) <= Cardinality(Refreshers)
                                    /\ \A T \in SUBSET S : Cardinality(T) <= Cardinality(S)
                                    /\ \A r \in S : Cardinality(S \ {r}) = Cardinality(S) - 1
<1>1. IsFiniteSet(Refreshers)
  <2>1. IsFiniteSet({"job"}) /\ IsFiniteSet(Handlers)
    BY FS_Singleton, CorridorAssumption
  <2> QED BY <2>1, FS_Union DEF Refreshers
<1>2. Cardinality(Refreshers) \in Nat \ {0}
  <2>1. Refreshers # {}
    BY DEF Refreshers
  <2> QED BY <1>1, <2>1, FS_CardinalityType, FS_EmptySet
<1>3. ASSUME NEW S \in SUBSET Refreshers
      PROVE  /\ IsFiniteSet(S) /\ Cardinality(S) \in Nat /\ Cardinality(S) <= Cardinality(Refreshers)
             /\ \A T \in SUBSET S : Cardinality(T) <= Cardinality(S)
             /\ \A r \in S : Cardinality(S \ {r}) = Cardinality(S) - 1
  <2>1. IsFiniteSet(S) /\ Cardinality(S) <= Cardinality(Refreshers)
    BY <1>1, FS_Subset
  <2>2. \A T \in SUBSET S : Cardinality(T) <= Cardinality(S)
    BY <2>1, FS_Subset
  <2>3. \A r \in S : Cardinality(S \ {r}) = Cardinality(S) - 1
    BY <2>1, FS_RemoveElement
  <2> QED BY <2>1, <2>2, <2>3, FS_CardinalityType
<1> QED BY <1>1, <1>2, <1>3

\* The same for the threads of a domain, before a step and after it.
LEMMA Crowded ==
    ASSUME NEW d
    PROVE  /\ Poppers(d) \in SUBSET Refreshers /\ Appenders(d) \in SUBSET Refreshers
           /\ Poppers(d)' \in SUBSET Refreshers /\ Appenders(d)' \in SUBSET Refreshers
           /\ Cardinality(Poppers(d)) \in Nat /\ Cardinality(Appenders(d)) \in Nat
           /\ Cardinality(Poppers(d)') \in Nat /\ Cardinality(Appenders(d)') \in Nat
           /\ Cardinality(Poppers(d)') <= Cardinality(Refreshers) /\ Cardinality(Appenders(d)') <= Cardinality(Refreshers)
           /\ Cardinality(Refreshers) \in Nat \ {0}
<1>1. /\ Poppers(d) \in SUBSET Refreshers /\ Appenders(d) \in SUBSET Refreshers
      /\ Poppers(d)' \in SUBSET Refreshers /\ Appenders(d)' \in SUBSET Refreshers
  BY DEF Poppers, Appenders
<1> QED BY <1>1, Crowds

\* A step that moves nobody to a pop leaves no more about to pop, and one fewer when
\* a thread has popped; so for an append.
LEMMA FewerPop ==
    ASSUME NEW d, \A q \in Refreshers : Popping(q, d)' => Popping(q, d)
    PROVE  /\ Cardinality(Poppers(d)') <= Cardinality(Poppers(d))
           /\ \A r \in Refreshers : Popping(r, d) /\ ~Popping(r, d)' => Cardinality(Poppers(d)') <= Cardinality(Poppers(d)) - 1
<1>1. Poppers(d) \in SUBSET Refreshers /\ Poppers(d)' \in SUBSET Poppers(d)
  BY DEF Poppers
<1>2. ASSUME NEW r \in Refreshers, Popping(r, d), ~Popping(r, d)'
      PROVE  Cardinality(Poppers(d)') <= Cardinality(Poppers(d)) - 1
  <2>1. r \in Poppers(d) /\ Poppers(d)' \in SUBSET (Poppers(d) \ {r}) /\ Poppers(d) \ {r} \in SUBSET Refreshers
    BY <1>1, <1>2 DEF Poppers
  <2>2. Cardinality(Poppers(d)') <= Cardinality(Poppers(d) \ {r})
    BY <2>1, Crowds
  <2>3. Cardinality(Poppers(d) \ {r}) = Cardinality(Poppers(d)) - 1
    BY <1>1, <2>1, Crowds
  <2> QED BY <2>2, <2>3
<1> QED BY <1>1, <1>2, Crowds
\* And for an append.
LEMMA FewerAppend ==
    ASSUME NEW d, \A q \in Refreshers : Appending(q, d)' => Appending(q, d)
    PROVE  /\ Cardinality(Appenders(d)') <= Cardinality(Appenders(d))
           /\ \A r \in Refreshers : Appending(r, d) /\ ~Appending(r, d)' => Cardinality(Appenders(d)') <= Cardinality(Appenders(d)) - 1
<1>1. Appenders(d) \in SUBSET Refreshers /\ Appenders(d)' \in SUBSET Appenders(d)
  BY DEF Appenders
<1>2. ASSUME NEW r \in Refreshers, Appending(r, d), ~Appending(r, d)'
      PROVE  Cardinality(Appenders(d)') <= Cardinality(Appenders(d)) - 1
  <2>1. r \in Appenders(d) /\ Appenders(d)' \in SUBSET (Appenders(d) \ {r}) /\ Appenders(d) \ {r} \in SUBSET Refreshers
    BY <1>1, <1>2 DEF Appenders
  <2>2. Cardinality(Appenders(d)') <= Cardinality(Appenders(d) \ {r})
    BY <2>1, Crowds
  <2>3. Cardinality(Appenders(d) \ {r}) = Cardinality(Appenders(d)) - 1
    BY <1>1, <2>1, Crowds
  <2> QED BY <2>2, <2>3
<1> QED BY <1>1, <1>2, Crowds

\* A step that moves nobody to a pop and shortens no deque against the requests
\* keeps them matched; one that lengthens no deque and moves nobody to an append
\* keeps them counted.
LEMMA MatchedStays ==
    ASSUME LimiterInv, LimiterTypes', NEW d \in Domains, \A q \in Refreshers : Popping(q, d)' => Popping(q, d),
           Len(granted'[d]) - Len(window'[d]) <= Len(granted[d]) - Len(window[d])
    PROVE  Len(granted'[d]) + Cardinality(Poppers(d)') <= Len(window'[d]) + Cardinality(Refreshers) - 1
<1>1. Cardinality(Poppers(d)') <= Cardinality(Poppers(d))
  BY FewerPop
<1>2. Len(granted[d]) + Cardinality(Poppers(d)) <= Len(window[d]) + Cardinality(Refreshers) - 1
  BY DEF LimiterInv, Matched
<1>3. Len(granted[d]) \in Nat /\ Len(window[d]) \in Nat /\ Len(granted'[d]) \in Nat /\ Len(window'[d]) \in Nat
  BY Sequence DEF LimiterInv, LimiterTypes
<1>4. /\ Cardinality(Poppers(d)) \in Nat /\ Cardinality(Poppers(d)') \in Nat
      /\ Cardinality(Refreshers) \in Nat
  BY Crowded
<1>5. PICK g, h, w, v, p, q, c : /\ g = Len(granted[d]) /\ h = Len(granted'[d]) /\ w = Len(window[d])
                                 /\ v = Len(window'[d]) /\ p = Cardinality(Poppers(d))
                                 /\ q = Cardinality(Poppers(d)') /\ c = Cardinality(Refreshers)
  OBVIOUS
<1>6. g \in Nat /\ h \in Nat /\ w \in Nat /\ v \in Nat /\ p \in Nat /\ q \in Nat /\ c \in Nat
  BY <1>3, <1>4, <1>5
<1>7. q <= p /\ g + p <= w + c - 1 /\ h - v <= g - w
  BY <1>1, <1>2, <1>5
<1>8. h + q <= v + c - 1
  BY <1>6, <1>7
<1> QED BY <1>5, <1>8
\* The same of the count.
LEMMA CountedStays ==
    ASSUME LimiterInv, LimiterTypes', NEW d \in Domains, \A q \in Refreshers : Appending(q, d)' => Appending(q, d),
           Len(window'[d]) <= Len(window[d])
    PROVE  Len(window'[d]) + Cardinality(Appenders(d)') <= Limit[d] + Cardinality(Refreshers) - 1
<1>1. Cardinality(Appenders(d)') <= Cardinality(Appenders(d))
  BY FewerAppend
<1>2. Len(window[d]) + Cardinality(Appenders(d)) <= Limit[d] + Cardinality(Refreshers) - 1
  BY DEF LimiterInv, Counted
<1>3. Limit[d] \in Nat /\ Len(window[d]) \in Nat /\ Len(window'[d]) \in Nat
  BY Sequence, CorridorAssumption DEF LimiterInv, LimiterTypes
<1> QED BY <1>1, <1>2, <1>3, Crowded

\* A step that moves nobody to a pop or an append and leaves the limiter alone.
LEMMA QuietLimiter ==
    ASSUME LimiterInv, RefShape', UNCHANGED limiter,
           \A r \in Refreshers, d \in Domains : (Popping(r, d)' => Popping(r, d)) /\ (Appending(r, d)' => Appending(r, d))
    PROVE  LimiterInv'
<1>1. UNCHANGED <<window, granted>>
  BY DEF limiter
<1>2. LimiterTypes'
  BY <1>1 DEF LimiterInv, LimiterTypes
<1>3. \A d \in Domains : Len(granted[d]) \in Nat /\ Len(window[d]) \in Nat
  BY Lengths DEF LimiterInv
<1>4. Matched'
  BY <1>1, <1>2, <1>3, MatchedStays DEF LimiterInv, Matched
<1>5. Counted'
  BY <1>1, <1>2, <1>3, CountedStays DEF LimiterInv, Counted
<1> QED BY <1>2, <1>4, <1>5 DEF LimiterInv

\* A thread that sees an expired event is about to pop one that waits.
LEMMA PruneLimiter ==
    ASSUME LimiterInv, NEW r \in Refreshers, Prune(r)
    PROVE  LimiterInv'
<1>1. UNCHANGED <<window, granted>>
  BY DEF Prune, limiter
<1>2. PICK pc \in {"limited", "pop", "admit"} :
         Go(r, pc) /\ (pc = "pop" => Expired(r))
  BY DEF Prune
<1>3. /\ RefShape' /\ ref'[r].pc = pc /\ ref'[r].todo = ref[r].todo
      /\ \A q \in Refreshers \ {r} : ref'[q] = ref[q]
  BY <1>2, GoStep DEF LimiterInv
<1>4. LimiterTypes'
  BY <1>1 DEF LimiterInv, LimiterTypes
<1>5. Counted'
  <2>1. \A d \in Domains, q \in Refreshers : Appending(q, d)' => Appending(q, d)
    BY <1>3 DEF Appending, At, Target
  <2>2. \A d \in Domains : Len(window[d]) \in Nat
    BY Lengths DEF LimiterInv
  <2> QED BY <1>1, <1>4, <2>1, <2>2, CountedStays DEF LimiterInv, Counted
<1>6. ASSUME NEW d \in Domains, Popping(r, d)' PROVE Len(granted[d]) < Len(window[d])
  <2>1. Target(r).market_type = d /\ Expired(r)
    BY <1>2, <1>3, <1>6 DEF Popping, At, Target
  <2>2. window[d] # <<>> /\ Head(window[d]) >= Window
    BY <2>1 DEF Expired, Events
  <2>3. /\ window[d] \in Seq(0..Window) /\ granted[d] \in Seq(0..(Window - 1))
        /\ Len(granted[d]) \in Nat /\ Len(window[d]) \in Nat /\ Len(window[d]) > 0
        /\ \A i \in 1..Len(granted[d]) : granted[d][i] \in 0..(Window - 1)
        /\ Window \in Nat
    BY <2>2, Lengths, Sequence DEF LimiterInv
  <2>4. window[d][1] >= Window
    BY <2>2, <2>3, Sequence
  <2> DEFINE k == Len(window[d]) - 1
  <2>5. k \in 0..k /\ k \in Nat /\ Len(window[d]) - k = 1
    BY <2>3
  <2>6. window[d][1] = IF k < Len(granted[d]) THEN granted[d][Len(granted[d]) - k] ELSE Window
    <3>1. Aligned(window[d], granted[d])
      BY DEF LimiterInv, Matched
    <3> QED BY <2>5, <3>1 DEF Aligned
  <2>7. SUFFICES ASSUME k < Len(granted[d]) PROVE FALSE
    BY <2>3
  <2> HIDE DEF k
  <2>8. Len(granted[d]) - k \in 1..Len(granted[d])
    BY <2>3, <2>5, <2>7
  <2> QED BY <2>3, <2>4, <2>6, <2>7, <2>8
<1>7. ASSUME NEW d \in Domains
      PROVE  Len(granted[d]) + Cardinality(Poppers(d)') <= Len(window[d]) + Cardinality(Refreshers) - 1
  <2>1. Len(granted[d]) \in Nat /\ Len(window[d]) \in Nat
    BY Lengths DEF LimiterInv
  <2>2. CASE Popping(r, d)'
    BY <2>1, <2>2, <1>6, Crowded
  <2>3. CASE ~Popping(r, d)'
    <3>1. \A q \in Refreshers : Popping(q, d)' => Popping(q, d)
      BY <2>3, <1>3, Movers
    <3> QED BY <2>1, <3>1, <1>1, <1>4, MatchedStays
  <2> QED BY <2>2, <2>3
<1>8. Matched'
  BY <1>1, <1>7 DEF LimiterInv, Matched
<1> QED BY <1>3, <1>4, <1>5, <1>8 DEF LimiterInv

\* A delayed popleft may take an event that has not expired: a request let through
\* loses its event, and one thread fewer is about to pop.
LEMMA PopLimiter ==
    ASSUME LimiterInv, NEW r \in Refreshers, Pop(r)
    PROVE  LimiterInv'
<1>1. granted' = granted /\ At(r, "pop") /\ Events(r) # <<>> /\ Go(r, "prune")
      /\ window' = [window EXCEPT ![Target(r).market_type] = Tail(@)]
  BY DEF Pop
<1>2. /\ RefShape' /\ ref'[r].pc = "prune" /\ ref'[r].todo = ref[r].todo
      /\ \A q \in Refreshers \ {r} : ref'[q] = ref[q]
  BY <1>1, GoStep DEF LimiterInv
<1>3. /\ \A d \in Domains, q \in Refreshers : Popping(q, d)' => q # r /\ Popping(q, d)
      /\ \A d \in Domains, q \in Refreshers : Appending(q, d)' => q # r /\ Appending(q, d)
  BY <1>2, Movers DEF Popping, Appending, At
<1>4. ASSUME NEW d \in Domains, d # Target(r).market_type
      PROVE  window'[d] = window[d]
  BY <1>1, <1>4
<1>5. ASSUME NEW d \in Domains, d = Target(r).market_type
      PROVE  /\ window'[d] = Tail(window[d]) /\ window[d] # <<>>
             /\ window'[d] \in Seq(0..Window) /\ Len(window'[d]) = Len(window[d]) - 1 /\ Len(window[d]) > 0
             /\ \A k \in 0..(Len(window'[d]) - 1) : window'[d][Len(window'[d]) - k] = window[d][Len(window[d]) - k]
  <2>1. window[d] # <<>> /\ window[d] \in Seq(0..Window) /\ d \in DOMAIN window /\ Len(window[d]) \in Nat
    BY <1>1, <1>5, Lengths DEF Events, LimiterInv, LimiterTypes
  <2>2. window'[d] = Tail(window[d])
    BY <1>1, <1>5, <2>1
  <2>3. /\ Tail(window[d]) \in Seq(0..Window) /\ Len(Tail(window[d])) = Len(window[d]) - 1 /\ Len(window[d]) > 0
        /\ \A i \in 1..(Len(window[d]) - 1) : Tail(window[d])[i] = window[d][i + 1]
    BY <2>1, Sequence
  <2>4. ASSUME NEW k \in 0..(Len(window[d]) - 2)
        PROVE  Tail(window[d])[(Len(window[d]) - 1) - k] = window[d][Len(window[d]) - k]
    <3>1. (Len(window[d]) - 1) - k \in 1..(Len(window[d]) - 1) /\ ((Len(window[d]) - 1) - k) + 1 = Len(window[d]) - k
      BY <2>1, <2>3
    <3> QED BY <2>3, <3>1
  <2>5. (Len(window[d]) - 1) - 1 = Len(window[d]) - 2
    BY <2>1
  <2> QED BY <2>1, <2>2, <2>3, <2>4, <2>5
<1>6. LimiterTypes'
  <2>1. ASSUME NEW d \in Domains PROVE window'[d] \in Seq(0..Window)
    <3>1. window[d] \in Seq(0..Window)
      BY DEF LimiterInv, LimiterTypes
    <3>2. CASE window'[d] = window[d]
      BY <3>1, <3>2
    <3>3. CASE window'[d] # window[d]
      BY <1>4, <1>5, <3>3
    <3> QED BY <3>2, <3>3
  <2>2. window' = [d \in Domains |-> window'[d]]
    BY <1>1 DEF LimiterInv, LimiterTypes
  <2>3. window' \in [Domains -> Seq(0..Window)]
    BY <2>1, <2>2
  <2> QED BY <1>1, <2>3 DEF LimiterInv, LimiterTypes
<1>7. Counted'
  <2>1. ASSUME NEW d \in Domains PROVE Len(window'[d]) <= Len(window[d]) /\ Len(window'[d]) \in Int
    <3>1. Len(window[d]) \in Nat
      BY Lengths DEF LimiterInv
    <3>2. CASE d # Target(r).market_type
      BY <3>1, <3>2, <1>4
    <3>3. CASE d = Target(r).market_type
      BY <3>1, <3>3, <1>5
    <3> QED BY <3>2, <3>3
  <2>2. \A d \in Domains, q \in Refreshers : Appending(q, d)' => Appending(q, d)
    BY <1>3
  <2> QED BY <2>1, <2>2, <1>6, CountedStays DEF Counted
<1>8. Matched'
  <2> SUFFICES ASSUME NEW d \in Domains
               PROVE  /\ Descends(granted[d])
                      /\ Aligned(window'[d], granted[d])
                      /\ Len(granted[d]) + Cardinality(Poppers(d)') <= Len(window'[d]) + Cardinality(Refreshers) - 1
    BY <1>1 DEF Matched
  <2>1. /\ Descends(granted[d]) /\ Aligned(window[d], granted[d])
        /\ Len(granted[d]) + Cardinality(Poppers(d)) <= Len(window[d]) + Cardinality(Refreshers) - 1
    BY DEF LimiterInv, Matched
  <2>2. Len(granted[d]) \in Nat /\ Len(window[d]) \in Nat
    BY Lengths DEF LimiterInv
  <2>3. CASE d # Target(r).market_type
    <3>1. window'[d] = window[d] /\ granted'[d] = granted[d]
      BY <1>1, <1>4, <2>3
    <3>2. Len(granted'[d]) - Len(window'[d]) <= Len(granted[d]) - Len(window[d])
      BY <3>1, <2>2
    <3>3. \A q \in Refreshers : Popping(q, d)' => Popping(q, d)
      BY <1>3
    <3>4. Len(granted'[d]) + Cardinality(Poppers(d)') <= Len(window'[d]) + Cardinality(Refreshers) - 1
      BY <3>2, <3>3, <1>6, MatchedStays
    <3> QED BY <3>1, <3>4, <2>1
  <2>4. CASE d = Target(r).market_type
    <3>1. Popping(r, d) /\ ~Popping(r, d)'
      BY <1>1, <1>3, <2>4 DEF Popping
    <3>2. Len(window'[d]) = Len(window[d]) - 1
      BY <1>5, <2>4
    <3>3. Aligned(window'[d], granted[d])
      <4>1. \A k \in 0..(Len(window'[d]) - 1) : k \in 0..(Len(window[d]) - 1)
        BY <2>2, <3>2
      <4> QED BY <1>5, <2>1, <2>4, <4>1 DEF Aligned
    <3>4. Cardinality(Poppers(d)') <= Cardinality(Poppers(d)) - 1
      BY <1>3, <3>1, FewerPop
    <3>5. Len(granted[d]) + Cardinality(Poppers(d)') <= Len(window'[d]) + Cardinality(Refreshers) - 1
      <4>1. PICK g, w, v, p, q, c : /\ g = Len(granted[d]) /\ w = Len(window[d]) /\ v = Len(window'[d])
                                    /\ p = Cardinality(Poppers(d)) /\ q = Cardinality(Poppers(d)')
                                    /\ c = Cardinality(Refreshers)
        OBVIOUS
      <4>2. g \in Nat /\ w \in Nat /\ p \in Nat /\ q \in Nat /\ c \in Nat
        BY <2>2, <4>1, Crowded
      <4>3. v = w - 1 /\ q <= p - 1 /\ g + p <= w + c - 1
        BY <2>1, <3>2, <3>4, <4>1
      <4>4. g + q <= v + c - 1
        BY <4>2, <4>3
      <4> QED BY <4>1, <4>4
    <3> QED BY <2>1, <3>3, <3>5
  <2> QED BY <2>3, <2>4
<1> QED BY <1>2, <1>6, <1>7, <1>8 DEF LimiterInv

\* A thread passes the count; all the others may have passed it before.
LEMMA AdmitLimiter ==
    ASSUME LimiterInv, NEW r \in Refreshers, Admit(r)
    PROVE  LimiterInv'
<1>1. UNCHANGED <<window, granted>>
  BY DEF Admit, limiter
<1>2. PICK pc \in {"retry", "append"} :
         Go(r, pc) /\ (pc = "append" => ~(Len(Events(r)) >= Limit[Target(r).market_type]))
  BY DEF Admit
<1>3. /\ RefShape' /\ ref'[r].pc = pc /\ ref'[r].todo = ref[r].todo
      /\ \A q \in Refreshers \ {r} : ref'[q] = ref[q]
  BY <1>2, GoStep DEF LimiterInv
<1>4. LimiterTypes'
  BY <1>1 DEF LimiterInv, LimiterTypes
<1>5. Matched'
  <2>1. \A d \in Domains, q \in Refreshers : Popping(q, d)' => Popping(q, d)
    BY <1>3 DEF Popping, At, Target
  <2>2. \A d \in Domains : Len(granted[d]) \in Nat /\ Len(window[d]) \in Nat
    BY Lengths DEF LimiterInv
  <2> QED BY <1>1, <1>4, <2>1, <2>2, MatchedStays DEF LimiterInv, Matched
<1>6. ASSUME NEW d \in Domains, Appending(r, d)' PROVE Len(window[d]) < Limit[d]
  <2>1. Target(r).market_type = d /\ ~(Len(Events(r)) >= Limit[d])
    BY <1>2, <1>3, <1>6 DEF Appending, At, Target
  <2> QED BY <2>1, Lengths DEF Events, LimiterInv
<1>7. ASSUME NEW d \in Domains
      PROVE  Len(window[d]) + Cardinality(Appenders(d)') <= Limit[d] + Cardinality(Refreshers) - 1
  <2>1. Limit[d] \in Nat /\ Len(window[d]) \in Nat
    BY Lengths DEF LimiterInv
  <2>2. CASE Appending(r, d)'
    BY <2>1, <2>2, <1>6, Crowded
  <2>3. CASE ~Appending(r, d)'
    <3>1. \A q \in Refreshers : Appending(q, d)' => Appending(q, d)
      BY <2>3, <1>3, Movers
    <3> QED BY <2>1, <3>1, <1>1, <1>4, CountedStays
  <2> QED BY <2>2, <2>3
<1>8. Counted'
  BY <1>1, <1>7 DEF Counted
<1> QED BY <1>3, <1>4, <1>5, <1>8 DEF LimiterInv

\* A newest age of zero keeps events and requests aligned.
LEMMA AppendAligned ==
    ASSUME NEW events \in Seq(0..Window), NEW through \in Seq(0..(Window - 1)),
           Aligned(events, through), Descends(through)
    PROVE  /\ Append(events, 0) \in Seq(0..Window) /\ Append(through, 0) \in Seq(0..(Window - 1))
           /\ Len(Append(events, 0)) = Len(events) + 1 /\ Len(Append(through, 0)) = Len(through) + 1
           /\ Aligned(Append(events, 0), Append(through, 0)) /\ Descends(Append(through, 0))
<1> DEFINE w == Len(events)
           g == Len(through)
           more == Append(events, 0)
           let == Append(through, 0)
<1>1. /\ w \in Nat /\ g \in Nat /\ Window \in Nat \ {0} /\ 0 \in 0..Window /\ 0 \in 0..(Window - 1)
      /\ \A i \in 1..g : through[i] \in 0..(Window - 1)
      /\ DOMAIN through = 1..g
  BY Sequence, CorridorAssumption
<1>2. /\ more \in Seq(0..Window) /\ Len(more) = w + 1 /\ more[w + 1] = 0
      /\ \A i \in 1..w : more[i] = events[i]
  BY <1>1, AppendProperties
<1>3. /\ let \in Seq(0..(Window - 1)) /\ Len(let) = g + 1 /\ let[g + 1] = 0
      /\ \A i \in 1..g : let[i] = through[i]
  BY <1>1, AppendProperties
<1>4. DOMAIN let = 1..(g + 1)
  BY <1>3, Sequence
<1> HIDE DEF more, let
<1>5. Descends(let)
  <2>1. ASSUME NEW i \in 1..(g + 1), NEW j \in 1..(g + 1), i < j PROVE let[j] <= let[i]
    <3>1. i \in 1..g /\ let[i] = through[i] /\ through[i] \in 0..(Window - 1)
      BY <1>1, <1>3, <2>1
    <3>2. CASE j = g + 1
      BY <1>1, <1>3, <3>1, <3>2
    <3>3. CASE j # g + 1
      <4>1. j \in 1..g
        BY <1>1, <3>3
      <4> QED BY <1>1, <1>3, <2>1, <3>1, <4>1 DEF Descends
    <3> QED BY <3>2, <3>3
  <2> QED BY <1>4, <2>1 DEF Descends
<1>6. ASSUME NEW k \in 0..w
      PROVE  more[(w + 1) - k] = IF k < g + 1 THEN let[(g + 1) - k] ELSE Window
  <2>1. CASE k = 0
    BY <1>1, <1>2, <1>3, <2>1
  <2>2. CASE k # 0
    <3>1. /\ k - 1 \in 0..(w - 1) /\ w - (k - 1) = (w + 1) - k /\ (w + 1) - k \in 1..w
          /\ (k - 1 < g) <=> (k < g + 1)
      BY <1>1, <2>2
    <3>2. more[(w + 1) - k] = IF k - 1 < g THEN through[g - (k - 1)] ELSE Window
      BY <1>2, <3>1 DEF Aligned
    <3>3. k < g + 1 => g - (k - 1) = (g + 1) - k /\ (g + 1) - k \in 1..g
      BY <1>1, <2>2
    <3> QED BY <1>3, <3>1, <3>2, <3>3
  <2> QED BY <2>1, <2>2
<1>7. (w + 1) - 1 = w
  BY <1>1
<1> QED BY <1>2, <1>3, <1>5, <1>6, <1>7 DEF Aligned, more, let

\* A thread that passed the count is let through.
LEMMA GrantLimiter ==
    ASSUME LimiterInv, NEW r \in Refreshers, Grant(r)
    PROVE  LimiterInv'
<1> DEFINE at == Target(r).market_type
<1>1. /\ At(r, "append") /\ Go(r, "resolve")
      /\ window' = [window EXCEPT ![at] = Append(@, 0)]
      /\ granted' = [granted EXCEPT ![at] = Append(@, 0)]
  BY DEF Grant
<1>2. /\ RefShape' /\ ref'[r].pc = "resolve" /\ ref'[r].todo = ref[r].todo
      /\ \A q \in Refreshers \ {r} : ref'[q] = ref[q]
  BY <1>1, GoStep DEF LimiterInv
<1>3. /\ \A d \in Domains, q \in Refreshers : Popping(q, d)' => q # r /\ Popping(q, d)
      /\ \A d \in Domains, q \in Refreshers : Appending(q, d)' => q # r /\ Appending(q, d)
  BY <1>2, Movers DEF Popping, Appending, At
<1>4. \A d \in Domains : d = at => Appending(r, d)
  BY <1>1 DEF Appending
<1>5. \A d \in Domains : d # at => window'[d] = window[d] /\ granted'[d] = granted[d]
  BY <1>1
<1>6. ASSUME NEW d \in Domains, d = at
      PROVE  /\ window'[d] \in Seq(0..Window) /\ granted'[d] \in Seq(0..(Window - 1))
             /\ Len(window'[d]) = Len(window[d]) + 1 /\ Len(granted'[d]) = Len(granted[d]) + 1
             /\ Aligned(window'[d], granted'[d]) /\ Descends(granted'[d])
  <2>1. d \in DOMAIN window /\ d \in DOMAIN granted
    BY DEF LimiterInv, LimiterTypes
  <2>2. window'[d] = Append(window[d], 0) /\ granted'[d] = Append(granted[d], 0)
    BY <1>1, <1>6, <2>1
  <2>3. /\ window[d] \in Seq(0..Window) /\ granted[d] \in Seq(0..(Window - 1))
        /\ Aligned(window[d], granted[d]) /\ Descends(granted[d])
    BY Lengths DEF LimiterInv, Matched
  <2> QED BY <2>2, <2>3, AppendAligned
<1> HIDE DEF at
<1>7. LimiterTypes'
  <2>1. \A d \in Domains : window'[d] \in Seq(0..Window) /\ granted'[d] \in Seq(0..(Window - 1))
    BY <1>5, <1>6, Lengths DEF LimiterInv
  <2>2. window' = [d \in Domains |-> window'[d]] /\ granted' = [d \in Domains |-> granted'[d]]
    BY <1>1 DEF LimiterInv, LimiterTypes
  <2>3. window' \in [Domains -> Seq(0..Window)] /\ granted' \in [Domains -> Seq(0..(Window - 1))]
    BY <2>1, <2>2
  <2> QED BY <2>3 DEF LimiterTypes
<1>8. ASSUME NEW d \in Domains
      PROVE  /\ Descends(granted'[d]) /\ Aligned(window'[d], granted'[d])
             /\ Len(granted'[d]) + Cardinality(Poppers(d)') <= Len(window'[d]) + Cardinality(Refreshers) - 1
             /\ Len(window'[d]) + Cardinality(Appenders(d)') <= Limit[d] + Cardinality(Refreshers) - 1
  <2>1. Len(granted[d]) \in Nat /\ Len(window[d]) \in Nat /\ Limit[d] \in Nat
    BY Lengths DEF LimiterInv
  <2>2. /\ Descends(granted[d]) /\ Aligned(window[d], granted[d])
        /\ Len(window[d]) + Cardinality(Appenders(d)) <= Limit[d] + Cardinality(Refreshers) - 1
    BY DEF LimiterInv, Matched, Counted
  <2>3. CASE d # at
    <3>1. window'[d] = window[d] /\ granted'[d] = granted[d]
      BY <1>5, <2>3
    <3>2. Len(granted'[d]) + Cardinality(Poppers(d)') <= Len(window'[d]) + Cardinality(Refreshers) - 1
      <4>1. Len(granted'[d]) - Len(window'[d]) <= Len(granted[d]) - Len(window[d])
        BY <3>1, <2>1
      <4> QED BY <4>1, <1>3, <1>7, MatchedStays
    <3>3. Len(window'[d]) + Cardinality(Appenders(d)') <= Limit[d] + Cardinality(Refreshers) - 1
      BY <3>1, <2>1, <1>3, <1>7, CountedStays
    <3> QED BY <3>1, <3>2, <3>3, <2>2
  <2>4. CASE d = at
    <3>1. Len(window'[d]) = Len(window[d]) + 1 /\ Len(granted'[d]) = Len(granted[d]) + 1
      BY <1>6, <2>4
    <3>2. Appending(r, d) /\ ~Appending(r, d)'
      BY <1>3, <1>4, <2>4
    <3>3. Cardinality(Appenders(d)') <= Cardinality(Appenders(d)) - 1
      BY <1>3, <3>2, FewerAppend
    <3>4. Len(window'[d]) + Cardinality(Appenders(d)') <= Limit[d] + Cardinality(Refreshers) - 1
      BY <2>1, <2>2, <3>1, <3>3, Crowded
    <3>5. Len(granted'[d]) - Len(window'[d]) <= Len(granted[d]) - Len(window[d])
      BY <2>1, <3>1
    <3>6. Len(granted'[d]) + Cardinality(Poppers(d)') <= Len(window'[d]) + Cardinality(Refreshers) - 1
      BY <3>5, <1>3, <1>7, MatchedStays
    <3> QED BY <1>6, <2>4, <3>4, <3>6
  <2> QED BY <2>3, <2>4
<1>9. Matched' /\ Counted'
  BY <1>8 DEF Matched, Counted
<1> QED BY <1>2, <1>7, <1>9 DEF LimiterInv

\* A tick ages events and requests alike.
LEMMA TickLimiter ==
    ASSUME LimiterInv, Tick
    PROVE  LimiterInv'
<1>1. /\ ref' = ref /\ \A r \in Refreshers : ref[r].pc # "pop" /\ ref[r].pc # "append"
      /\ window' = [d \in Domains |-> [i \in DOMAIN window[d] |-> LeastOf(window[d][i] + 1, Window)]]
      /\ granted' = [d \in Domains |-> Recent([i \in DOMAIN granted[d] |-> granted[d][i] + 1])]
  BY DEF Tick
<1>2. \A d \in Domains, q \in Refreshers : ~Popping(q, d)' /\ ~Appending(q, d)'
  BY <1>1 DEF Popping, Appending, At
<1>3. ASSUME NEW d \in Domains
      PROVE  /\ window'[d] \in Seq(0..Window) /\ Len(window'[d]) = Len(window[d])
             /\ granted'[d] \in Seq(0..(Window - 1)) /\ Len(granted'[d]) <= Len(granted[d])
             /\ Descends(granted'[d]) /\ Aligned(window'[d], granted'[d])
  <2> DEFINE w == Len(window[d])
             g == Len(granted[d])
             events == [i \in 1..w |-> LeastOf(window[d][i] + 1, Window)]
             aged == [i \in 1..g |-> granted[d][i] + 1]
             h == Len(Recent(aged))
  <2>1. /\ w \in Nat /\ g \in Nat /\ Window \in Nat \ {0}
        /\ DOMAIN window[d] = 1..w /\ DOMAIN granted[d] = 1..g
        /\ \A i \in 1..w : window[d][i] \in 0..Window
        /\ \A i \in 1..g : granted[d][i] \in 0..(Window - 1)
    BY Lengths DEF LimiterInv
  <2>2. window'[d] = events /\ granted'[d] = Recent(aged)
    BY <1>1, <2>1
  <2>3. events \in [1..w -> 0..Window]
    BY <2>1 DEF LeastOf
  <2>4. aged \in [1..g -> Nat]
    BY <2>1
  <2>5. \A i \in 1..w : events[i] = IF window[d][i] + 1 < Window THEN window[d][i] + 1 ELSE Window
    BY DEF LeastOf
  <2>6. \A i \in 1..g : aged[i] = granted[d][i] + 1
    OBVIOUS
  <2> HIDE DEF w, g, events, aged
  <2>7. events \in Seq(0..Window) /\ Len(events) = w /\ aged \in Seq(Nat) /\ Len(aged) = g /\ DOMAIN aged = 1..g
    BY <2>1, <2>3, <2>4, SeqOfFunction
  <2>8. Descends(aged)
    <3>1. Descends(granted[d])
      BY DEF LimiterInv, Matched
    <3>2. ASSUME NEW i \in 1..g, NEW j \in 1..g, i < j PROVE aged[j] <= aged[i]
      <4>1. granted[d][j] <= granted[d][i]
        BY <2>1, <3>1, <3>2 DEF Descends
      <4> QED BY <2>1, <2>6, <4>1
    <3> QED BY <2>7, <3>2 DEF Descends
  <2>9. /\ Recent(aged) \in Seq(0..(Window - 1)) /\ h <= g
        /\ \A k \in 0..(h - 1) : Recent(aged)[h - k] = aged[g - k]
        /\ \A k \in h..(g - 1) : aged[g - k] >= Window
    BY <2>7, <2>8, RecentAges
  <2>10. h \in Nat /\ DOMAIN Recent(aged) = 1..h
    BY <2>9, Sequence
  <2>11. \A i \in 1..h : Recent(aged)[i] \in 0..(Window - 1)
    BY <2>9, Sequence
  <2> DEFINE left == Recent(aged)
  <2>12. \A k \in 0..(h - 1) : left[h - k] = aged[g - k] /\ left[h - k] \in 0..(Window - 1)
    <3>1. \A k \in 0..(h - 1) : h - k \in 1..h
      BY <2>10
    <3> HIDE DEF h
    <3> QED BY <2>9, <2>11, <3>1
  <2> HIDE DEF left, h
  <2>13. \A i \in 1..h : left[i] = aged[(g - h) + i] /\ (g - h) + i \in 1..g
    <3>1. ASSUME NEW i \in 1..h PROVE left[i] = aged[(g - h) + i] /\ (g - h) + i \in 1..g
      <4>1. h - i \in 0..(h - 1) /\ h - (h - i) = i /\ g - (h - i) = (g - h) + i /\ (g - h) + i \in 1..g
        BY <2>1, <2>9, <2>10
      <4> QED BY <2>12, <4>1
    <3> QED BY <3>1
  <2>14. Descends(left)
    <3>1. ASSUME NEW i \in 1..h, NEW j \in 1..h, i < j PROVE left[j] <= left[i]
      <4>1. (g - h) + i \in 1..g /\ (g - h) + j \in 1..g /\ (g - h) + i < (g - h) + j
        BY <2>1, <2>10, <2>13, <3>1
      <4> QED BY <2>7, <2>8, <2>13, <4>1 DEF Descends
    <3> QED BY <2>10, <3>1 DEF Descends, left
  <2>15. Aligned(events, left)
    <3>1. ASSUME NEW k \in 0..(w - 1)
          PROVE  events[w - k] = IF k < h THEN left[h - k] ELSE Window
      <4>1. w - k \in 1..w
        BY <2>1
      <4>2. window[d][w - k] = IF k < g THEN granted[d][g - k] ELSE Window
        BY <3>1 DEF LimiterInv, Matched, Aligned, w, g
      <4>3. events[w - k] = IF window[d][w - k] + 1 < Window THEN window[d][w - k] + 1 ELSE Window
        BY <2>5, <4>1
      <4>4. window[d][w - k] \in 0..Window
        BY <2>1, <4>1
      <4>5. k < g => g - k \in 1..g /\ aged[g - k] = granted[d][g - k] + 1
        BY <2>1, <2>6
      <4>6. CASE k < h
        <5>1. k < g /\ left[h - k] = aged[g - k] /\ left[h - k] \in 0..(Window - 1)
          BY <2>1, <2>9, <2>10, <2>12, <4>6
        <5> QED BY <2>1, <4>2, <4>3, <4>4, <4>5, <4>6, <5>1
      <4>7. CASE ~(k < h) /\ k < g
        <5>1. k \in h..(g - 1)
          BY <2>1, <2>10, <4>7
        <5>2. aged[g - k] >= Window
          BY <2>9, <5>1
        <5> QED BY <2>1, <4>2, <4>3, <4>4, <4>5, <4>7, <5>2
      <4>8. CASE ~(k < h) /\ ~(k < g)
        BY <2>1, <4>2, <4>3, <4>8
      <4> QED BY <4>6, <4>7, <4>8
    <3>2. Len(left) = h
      BY DEF left, h
    <3> QED BY <2>7, <3>1, <3>2 DEF Aligned
  <2> QED BY <2>2, <2>7, <2>9, <2>14, <2>15 DEF left, h, w, g
<1>4. LimiterTypes'
  <2>1. window' = [d \in Domains |-> window'[d]] /\ granted' = [d \in Domains |-> granted'[d]]
    BY <1>1
  <2>2. window' \in [Domains -> Seq(0..Window)] /\ granted' \in [Domains -> Seq(0..(Window - 1))]
    BY <1>3, <2>1
  <2> QED BY <2>2 DEF LimiterTypes
<1>5. ASSUME NEW d \in Domains
      PROVE  Len(granted'[d]) - Len(window'[d]) <= Len(granted[d]) - Len(window[d]) /\ Len(window'[d]) <= Len(window[d])
  <2>1. Len(granted[d]) \in Nat /\ Len(window[d]) \in Nat
    BY Lengths DEF LimiterInv
  <2>2. granted'[d] \in Seq(0..(Window - 1))
    BY <1>3
  <2>3. Len(granted'[d]) \in Nat
    BY <2>2, Sequence
  <2>4. Len(window'[d]) = Len(window[d]) /\ Len(granted'[d]) <= Len(granted[d])
    BY <1>3
  <2> QED BY <2>1, <2>3, <2>4
<1>6. Matched'
  BY <1>2, <1>3, <1>4, <1>5, MatchedStays DEF Matched
<1>7. Counted'
  BY <1>2, <1>4, <1>5, CountedStays DEF Counted
<1> QED BY <1>1, <1>4, <1>6, <1>7 DEF LimiterInv, RefShape

\* A restart empties the limiter and the threads.
LEMMA RestartLimiter ==
    ASSUME LimiterInv, Restart
    PROVE  LimiterInv'
<1>1. /\ ref' = [r \in Refreshers |-> Idle]
      /\ window' = [d \in Domains |-> <<>>] /\ granted' = [d \in Domains |-> <<>>]
  BY DEF Restart
<1>2. RefShape'
  BY <1>1, IdleShape DEF RefShape
<1>3. \A r \in Refreshers : ref'[r].pc = "idle"
  BY <1>1, IdleShape
<1>4. \A d \in Domains, q \in Refreshers : ~Popping(q, d)' /\ ~Appending(q, d)'
  BY <1>3 DEF Popping, Appending, At
<1>5. /\ Len(<<>>) = 0 /\ DOMAIN <<>> = {}
      /\ \A d \in Domains : window'[d] = <<>> /\ granted'[d] = <<>> /\ Limit[d] \in Nat
  BY <1>1, EmptySeq, CorridorAssumption
<1>6. LimiterTypes'
  BY <1>1, EmptySeq DEF LimiterTypes
<1>7. ASSUME NEW d \in Domains
      PROVE  Cardinality(Poppers(d)') = 0 /\ Cardinality(Appenders(d)') = 0 /\ Cardinality(Refreshers) \in Nat \ {0}
  <2>1. Poppers(d)' = {} /\ Appenders(d)' = {}
    BY <1>4 DEF Poppers, Appenders
  <2> QED BY <2>1, Crowds, FS_EmptySet
<1>8. Descends(<<>>) /\ Aligned(<<>>, <<>>)
  BY <1>5 DEF Descends, Aligned
<1>9. Matched'
  BY <1>5, <1>7, <1>8 DEF Matched
<1>10. Counted'
  BY <1>5, <1>7 DEF Counted
<1> QED BY <1>2, <1>6, <1>9, <1>10 DEF LimiterInv

\* Every step keeps the limiter's invariant.
LEMMA LimiterStep ==
    ASSUME LimiterInv, [CorridorNext]_<<manager, corridor>>
    PROVE  LimiterInv'
<1>1. ASSUME NEW r \in Refreshers, Quiet(r) PROVE LimiterInv'
  <2>1. /\ RefShape' /\ ref'[r].pc \notin {"pop", "append"}
        /\ \A q \in Refreshers \ {r} : ref'[q] = ref[q]
        /\ UNCHANGED limiter
    BY <1>1, QuietStep DEF LimiterInv
  <2>2. \A q \in Refreshers, d \in Domains : (Popping(q, d)' => Popping(q, d)) /\ (Appending(q, d)' => Appending(q, d))
    BY <2>1 DEF Popping, Appending, At, Target
  <2> QED BY <2>1, <2>2, QuietLimiter
<1>2. ASSUME NEW r \in Refreshers, Prune(r) \/ Pop(r) \/ Admit(r) \/ Grant(r) PROVE LimiterInv'
  BY <1>2, PruneLimiter, PopLimiter, AdmitLimiter, GrantLimiter
<1>3. ASSUME UNCHANGED corridor PROVE LimiterInv'
  <2>1. UNCHANGED <<ref, window, granted>>
    BY <1>3 DEF corridor
  <2>2. RefShape' /\ \A q \in Refreshers, d \in Domains : (Popping(q, d)' => Popping(q, d)) /\ (Appending(q, d)' => Appending(q, d))
    BY <2>1 DEF LimiterInv, RefShape, Popping, Appending, At, Target
  <2> QED BY <2>1, <2>2, QuietLimiter DEF limiter
<1>4. \/ \E r \in Refreshers : Quiet(r) \/ Prune(r) \/ Pop(r) \/ Admit(r) \/ Grant(r)
      \/ Tick \/ Restart \/ UNCHANGED corridor
  BY DEF CorridorNext, Step, Quiet, Configuring, manager
<1> QED BY <1>1, <1>2, <1>3, <1>4, TickLimiter, RestartLimiter

\* Nothing was asked for at the start.
LEMMA LimiterInit == CorridorInit => LimiterInv
<1> SUFFICES ASSUME CorridorInit PROVE LimiterInv
  OBVIOUS
<1>1. /\ ref = [r \in Refreshers |-> Idle]
      /\ window = [d \in Domains |-> <<>>] /\ granted = [d \in Domains |-> <<>>]
  BY DEF CorridorInit
<1>2. RefShape
  BY <1>1, IdleShape DEF RefShape
<1>3. \A r \in Refreshers : ref[r].pc = "idle"
  BY <1>1, IdleShape
<1>4. \A d \in Domains, q \in Refreshers : ~Popping(q, d) /\ ~Appending(q, d)
  BY <1>3 DEF Popping, Appending, At
<1>5. /\ Len(<<>>) = 0 /\ DOMAIN <<>> = {}
      /\ \A d \in Domains : window[d] = <<>> /\ granted[d] = <<>> /\ Limit[d] \in Nat
  BY <1>1, EmptySeq, CorridorAssumption
<1>6. LimiterTypes
  BY <1>1, EmptySeq DEF LimiterTypes
<1>7. ASSUME NEW d \in Domains
      PROVE  Cardinality(Poppers(d)) = 0 /\ Cardinality(Appenders(d)) = 0 /\ Cardinality(Refreshers) \in Nat \ {0}
  <2>1. Poppers(d) = {} /\ Appenders(d) = {}
    BY <1>4 DEF Poppers, Appenders
  <2> QED BY <2>1, Crowds, FS_EmptySet
<1>8. Descends(<<>>) /\ Aligned(<<>>, <<>>)
  BY <1>5 DEF Descends, Aligned
<1>9. Matched
  BY <1>5, <1>7, <1>8 DEF Matched
<1>10. Counted
  BY <1>5, <1>7 DEF Counted
<1> QED BY <1>2, <1>6, <1>9, <1>10 DEF LimiterInv

\* check_and_record has no lock: however many threads refresh at a time, they let
\* through at most two requests a minute beyond the limit of a domain for each
\* thread after the first, for every limit, every number of targets and however the
\* steps of its loop interleave.
THEOREM BudgetsAreKept == CorridorSpec => []BudgetKept
<1>1. LimiterInv => BudgetKept
  <2> SUFFICES ASSUME LimiterInv, NEW d \in Domains
               PROVE  Len(granted[d]) <= Limit[d] + 2 * (Cardinality(Refreshers) - 1)
    BY DEF BudgetKept
  <2>1. Len(granted[d]) \in Nat /\ Len(window[d]) \in Nat /\ Limit[d] \in Nat
    BY Lengths DEF LimiterInv
  <2>2. /\ Len(granted[d]) + Cardinality(Poppers(d)) <= Len(window[d]) + Cardinality(Refreshers) - 1
        /\ Len(window[d]) + Cardinality(Appenders(d)) <= Limit[d] + Cardinality(Refreshers) - 1
    BY DEF LimiterInv, Matched, Counted
  <2>3. PICK g, w, l, p, q, c : /\ g = Len(granted[d]) /\ w = Len(window[d]) /\ l = Limit[d]
                                /\ p = Cardinality(Poppers(d)) /\ q = Cardinality(Appenders(d))
                                /\ c = Cardinality(Refreshers)
    OBVIOUS
  <2>4. g \in Nat /\ w \in Nat /\ l \in Nat /\ p \in Nat /\ q \in Nat /\ c \in Nat
    BY <2>1, <2>3, Crowded
  <2>5. g + p <= w + c - 1 /\ w + q <= l + c - 1
    BY <2>2, <2>3
  <2>6. g <= l + 2 * (c - 1)
    BY <2>4, <2>5
  <2> QED BY <2>3, <2>6
<1>2. ManagerInit /\ CorridorInit => LimiterInv
  BY LimiterInit
<1>3. LimiterInv /\ [CorridorNext]_<<manager, corridor>> => LimiterInv'
  BY LimiterStep
<1> QED BY <1>1, <1>2, <1>3, PTL DEF CorridorSpec

-----------------------------------------------------------------------------
(* What a failed attempt leaves behind.                                    *)

\* A report stays until the next attempt clears it or succeeds, whatever other
\* threads do meanwhile.
TraceInv ==
    /\ DOMAIN diagnostics = Series /\ DOMAIN lastRun = Series /\ DOMAIN ended = Series
    /\ \A s \in Series : ended[s] = "reported" =>
          lastRun[s] # "success" \/ diagnostics[s] \cap Errors # {}

\* A step that touches no table but the candles and no end.
LEMMA TraceFrame ==
    ASSUME TraceInv, UNCHANGED <<diagnostics, lastRun, ended>>
    PROVE  TraceInv'
  BY DEF TraceInv

\* A step that ends the attempt without a report, or opens the next.
LEMMA TraceOther ==
    ASSUME TraceInv, NEW r, NEW how, how # "reported", Ends(r, how),
           \A s \in Series : s # Key(Target(r)) => diagnostics'[s] = diagnostics[s] /\ lastRun'[s] = lastRun[s],
           DOMAIN diagnostics' = Series, DOMAIN lastRun' = Series
    PROVE  TraceInv'
  BY DEF TraceInv, Ends

\* The errors, one by one.
LEMMA ErrorCodes ==
    /\ "rate_limit_exceeded" \in Errors /\ "provider_not_configured" \in Errors
    /\ "provider_client_unavailable" \in Errors /\ "provider_fetch_failed" \in Errors
  BY DEF Errors

\* Further diagnostics hide no error.
LEMMA TraceNoted ==
    ASSUME TraceInv, NEW r, NEW codes, UNCHANGED lastRun, Noted(r, codes),
           ended' = ended \/ (Ends(r, "reported") /\ codes \cap Errors # {})
    PROVE  TraceInv'
<1> DEFINE at == Key(Target(r))
<1>1. /\ DOMAIN diagnostics' = Series /\ DOMAIN ended' = Series
      /\ \A s \in Series : diagnostics'[s] = IF s = at THEN diagnostics[s] \cup codes ELSE diagnostics[s]
      /\ \A s \in Series : s # at => ended'[s] = ended[s]
      /\ ended'[at] = ended[at] \/ codes \cap Errors # {}
  BY DEF TraceInv, Ends, Noted
<1> HIDE DEF at
<1>2. ASSUME NEW s \in Series, ended'[s] = "reported"
      PROVE  lastRun[s] # "success" \/ diagnostics'[s] \cap Errors # {}
  BY <1>1, <1>2 DEF TraceInv
<1> QED BY <1>1, <1>2 DEF TraceInv

\* A run that is logged as no success.
LEMMA TraceLogged ==
    ASSUME TraceInv, NEW r, NEW status, status # "success", UNCHANGED diagnostics,
           lastRun' = [lastRun EXCEPT ![Key(Target(r))] = status],
           ended' = ended \/ Ends(r, "reported")
    PROVE  TraceInv'
<1> DEFINE at == Key(Target(r))
<1>1. /\ DOMAIN lastRun' = Series /\ DOMAIN ended' = Series
      /\ \A s \in Series : lastRun'[s] = IF s = at THEN status ELSE lastRun[s]
      /\ \A s \in Series : s # at => ended'[s] = ended[s]
  BY DEF TraceInv, Ends
<1> HIDE DEF at
<1> QED BY <1>1 DEF TraceInv

\* What a write that the store refuses outside the try does to the attempt.
LEMMA GivenUp ==
    ASSUME TraceInv, NEW r, GivesUp(r), UNCHANGED lastRun,
           UNCHANGED diagnostics \/ \E codes : Noted(r, codes)
    PROVE  TraceInv'
<1>1. ended' = ended \/ Ends(r, "lost")
  BY DEF GivesUp
<1>2. CASE ended' = ended
  BY <1>2, TraceFrame, TraceNoted
<1>3. CASE Ends(r, "lost")
  <2>1. DOMAIN diagnostics' = Series /\ DOMAIN lastRun' = Series
    BY DEF TraceInv, Noted
  <2>2. \A s \in Series : s # Key(Target(r)) => diagnostics'[s] = diagnostics[s] /\ lastRun'[s] = lastRun[s]
    BY DEF TraceInv, Noted
  <2> QED BY <1>3, <2>1, <2>2, TraceOther
<1> QED BY <1>1, <1>2, <1>3

\* The steps that tell the tables of a failure.
LEMMA TraceTold ==
    ASSUME TraceInv, NEW r \in Refreshers,
           Refuse(r) \/ LogRefusal(r) \/ Explain(r) \/ Note(r) \/ Log(r)
    PROVE  TraceInv'
<1>1. CASE Refuse(r)
  <2>1. Noted(r, {"rate_limit_exceeded"}) /\ lastRun' = lastRun /\ Ends(r, "reported")
    BY <1>1 DEF Refuse, Noted
  <2>2. {"rate_limit_exceeded"} \cap Errors # {}
    BY ErrorCodes
  <2> QED BY <2>1, <2>2, TraceNoted
<1>2. CASE LogRefusal(r)
  <2>1. /\ lastRun' = [lastRun EXCEPT ![Key(Target(r))] = "rate_limited"]
        /\ diagnostics' = diagnostics /\ Ends(r, "reported") /\ "rate_limited" # "success"
    BY <1>2 DEF LogRefusal
  <2> QED BY <2>1, TraceLogged
<1>3. CASE Explain(r)
  <2>1. PICK code \in Errors : diagnostics' = [diagnostics EXCEPT ![Key(Target(r))] = @ \cup {code}]
    BY <1>3, ErrorCodes DEF Explain
  <2>2. lastRun' = lastRun /\ Ends(r, "reported") /\ Noted(r, {code})
    BY <1>3, <2>1 DEF Explain, Noted
  <2>3. {code} \cap Errors # {}
    BY <2>1
  <2> QED BY <2>2, <2>3, TraceNoted
<1>4. CASE Note(r)
  <2>1. PICK codes : codes = ref[r].codes
    OBVIOUS
  <2>2. Noted(r, codes) /\ lastRun' = lastRun
    BY <1>4, <2>1 DEF Note
  <2>3. ended' = ended \/ (Ends(r, "reported") /\ codes \cap Errors # {})
    BY <1>4, <2>1 DEF Note
  <2> QED BY <2>2, <2>3, TraceNoted
<1>5. CASE Log(r)
  <2>1. PICK status : status = ref[r].status
    OBVIOUS
  <2>2. /\ lastRun' = [lastRun EXCEPT ![Key(Target(r))] = status] /\ diagnostics' = diagnostics
        /\ IF status = "success" THEN Ends(r, "stored") ELSE Ends(r, "reported")
    BY <1>5, <2>1 DEF Log
  <2>3. CASE status = "success"
    <3>1. \A s \in Series : s # Key(Target(r)) => diagnostics'[s] = diagnostics[s] /\ lastRun'[s] = lastRun[s]
      BY <2>2 DEF TraceInv
    <3>2. DOMAIN diagnostics' = Series /\ DOMAIN lastRun' = Series
      BY <2>2 DEF TraceInv
    <3> QED BY <2>2, <2>3, <3>1, <3>2, TraceOther
  <2>4. CASE status # "success"
    BY <2>2, <2>4, TraceLogged
  <2> QED BY <2>3, <2>4
<1> QED BY <1>1, <1>2, <1>3, <1>4, <1>5

\* The writes that the store refuses, and a restart in the middle of one.
LEMMA TraceRefused ==
    ASSUME TraceInv, (\E r \in Refreshers : WriteFails(r) \/ NoteFails(r)) \/ Restart
    PROVE  TraceInv'
<1>1. ASSUME NEW r \in Refreshers, WriteFails(r) PROVE TraceInv'
  BY <1>1, GivenUp DEF WriteFails, tables
<1>2. ASSUME NEW r \in Refreshers, NoteFails(r) PROVE TraceInv'
  <2>1. PICK codes : Noted(r, codes)
    BY <1>2 DEF NoteFails
  <2>2. lastRun' = lastRun /\ (GivesUp(r) \/ ended' = ended)
    BY <1>2 DEF NoteFails
  <2> QED BY <2>1, <2>2, GivenUp, TraceNoted
<1>3. ASSUME Restart PROVE TraceInv'
  <2>1. UNCHANGED <<lastRun, ended>> /\ (UNCHANGED diagnostics \/ \E r, codes : Noted(r, codes))
    BY <1>3 DEF Restart
  <2> QED BY <2>1, TraceFrame, TraceNoted
<1> QED BY <1>1, <1>2, <1>3

\* Every step keeps the traces.
LEMMA TraceStep ==
    ASSUME TraceInv, [CorridorNext]_<<manager, corridor>>
    PROVE  TraceInv'
<1>1. ASSUME NEW r \in Refreshers, Clear(r) PROVE TraceInv'
  BY <1>1, TraceOther DEF Clear, TraceInv
<1>2. ASSUME NEW r \in Refreshers, PopEmpty(r) PROVE TraceInv'
  BY <1>2, TraceOther DEF PopEmpty, TraceInv, tables
<1>3. ASSUME NEW r \in Refreshers, Resolve(r) PROVE TraceInv'
  <2>1. UNCHANGED <<diagnostics, lastRun>>
    BY <1>3 DEF Resolve, tables
  <2>2. Ends(r, "nochain") \/ UNCHANGED ended
    BY <1>3 DEF Resolve
  <2> QED BY <2>1, <2>2, TraceOther, TraceFrame DEF TraceInv
<1>4. ASSUME NEW r \in Refreshers, Refuse(r) \/ LogRefusal(r) \/ Explain(r) \/ Note(r) \/ Log(r) PROVE TraceInv'
  BY <1>4, TraceTold
<1>5. ASSUME NEW r \in Refreshers,
             \/ Start(r) \/ Prune(r) \/ Pop(r) \/ Admit(r) \/ Retry(r) \/ Grant(r) \/ NoClient(r)
             \/ Fetch(r) \/ FetchFails(r) \/ Replace(r) \/ ReplaceFails(r) \/ LogFails(r)
      PROVE  TraceInv'
  BY <1>5, TraceFrame DEF Start, Prune, Pop, Admit, Retry, Grant, NoClient, Fetch, FetchFails, Replace,
                          ReplaceFails, LogFails, tables
<1>6. ASSUME (\E r \in Refreshers : WriteFails(r) \/ NoteFails(r)) \/ Restart PROVE TraceInv'
  BY <1>6, TraceRefused
<1>7. ASSUME Tick \/ UNCHANGED corridor PROVE TraceInv'
  BY <1>7, TraceFrame DEF Tick, corridor, tables
<1>8. \/ \E r \in Refreshers :
            \/ Clear(r) \/ PopEmpty(r) \/ Resolve(r)
            \/ Refuse(r) \/ LogRefusal(r) \/ Explain(r) \/ Note(r) \/ Log(r)
            \/ Start(r) \/ Prune(r) \/ Pop(r) \/ Admit(r) \/ Retry(r) \/ Grant(r) \/ NoClient(r)
            \/ Fetch(r) \/ FetchFails(r) \/ Replace(r) \/ ReplaceFails(r) \/ LogFails(r)
            \/ WriteFails(r) \/ NoteFails(r)
      \/ Tick \/ Restart \/ UNCHANGED corridor
  BY DEF CorridorNext, Step, Configuring, manager
<1> QED BY <1>1, <1>2, <1>3, <1>4, <1>5, <1>6, <1>7, <1>8

\* Once refresh has told the tables that an attempt on a series failed, they show
\* it until the next attempt clears or succeeds: the latest run is no success or
\* the diagnostics hold an error, however many refreshes overlap, whichever writes
\* the store refuses and wherever a restart cuts a call.
THEOREM FailuresLeaveTraces == CorridorSpec => []FailureLeavesTrace
<1>1. TraceInv => FailureLeavesTrace
  BY DEF TraceInv, FailureLeavesTrace
<1>2. CorridorInit => TraceInv
  BY DEF CorridorInit, TraceInv
<1>3. TraceInv /\ [CorridorNext]_<<manager, corridor>> => TraceInv'
  BY TraceStep
<1> QED BY <1>1, <1>2, <1>3, PTL DEF CorridorSpec

-----------------------------------------------------------------------------
(* Folds over sequences.                                                   *)

\* The targets added to a list that is not empty leave it so.
LEMMA TargetsAdded ==
    ASSUME NEW T, NEW base \in Seq(T) \ {<<>>}, NEW more \in Seq(T)
    PROVE  FoldLeft(AddNew, base, more) \in Seq(T) \ {<<>>}
<1> DEFINE V == Seq(T) \ {<<>>}
           n == Len(more)
           Folds(f) == f = [s \in SUBSET DOMAIN more |->
                              IF s = {} THEN base ELSE AddNew(f[s \ {Max(s)}], more[Max(s)])]
           added == CHOOSE f : Folds(f)
           step == [p \in V \X (1..n) |-> AddNew(p[1], more[p[2]])]
<1>1. FoldLeft(AddNew, base, more) = added[DOMAIN more]
  BY DEF FoldLeft, MapThenFoldSet
<1>2. n \in Nat /\ DOMAIN more = 1..n /\ \A i \in 1..n : more[i] \in T
  BY Sequence
<1>3. \A v \in V, i \in 1..n : AddNew(v, more[i]) \in V
  BY <1>2, AppendProperties, EmptySeq DEF AddNew
<1>4. step \in [V \X (1..n) -> V]
  BY <1>3
<1> HIDE DEF n
<1>5. PICK fold \in [SUBSET (1..n) -> V] : Folding(base, step, n, fold)
  <2> HIDE DEF step
  <2> QED BY <1>2, <1>4, FoldsExist
<1>6. \A s \in SUBSET (1..n) : s # {} => Max(s) \in 1..n /\ s \ {Max(s)} \in SUBSET (1..n)
  BY <1>2, Greatest
<1>7. Folds(fold)
  BY <1>2, <1>5, <1>6 DEF Folding
<1>8. Folds(added)
  BY <1>7
<1> HIDE DEF added, V, step
<1>9. added[{}] \in V
  BY <1>2, <1>8 DEF V
<1>10. \A s \in SUBSET (1..n) : s # {} /\ added[s \ {Max(s)}] \in V => added[s] \in V
  BY <1>2, <1>3, <1>6, <1>8
<1> HIDE DEF Folds
<1>11. added[1..n] \in V
  BY <1>2, <1>9, <1>10, FoldedIn
<1> QED BY <1>1, <1>2, <1>11 DEF V

\* So do those of a watchlist.
LEMMA WantedAdded ==
    ASSUME NEW T, NEW base \in Seq(T) \ {<<>>}, NEW S, NEW list \in Seq(S),
           \A i \in DOMAIN list : Wanted(list[i]) \in Seq(T)
    PROVE  FoldLeft(AddWanted, base, list) \in Seq(T) \ {<<>>}
<1> DEFINE V == Seq(T) \ {<<>>}
           n == Len(list)
           Folds(f) == f = [s \in SUBSET DOMAIN list |->
                              IF s = {} THEN base ELSE AddWanted(f[s \ {Max(s)}], list[Max(s)])]
           added == CHOOSE f : Folds(f)
           step == [p \in V \X (1..n) |-> AddWanted(p[1], list[p[2]])]
<1>1. FoldLeft(AddWanted, base, list) = added[DOMAIN list]
  BY DEF FoldLeft, MapThenFoldSet
<1>2. n \in Nat /\ DOMAIN list = 1..n
  BY Sequence
<1>3. \A v \in V, i \in 1..n : AddWanted(v, list[i]) \in V
  BY <1>2, TargetsAdded DEF AddWanted
<1>4. step \in [V \X (1..n) -> V]
  BY <1>3
<1> HIDE DEF n
<1>5. PICK fold \in [SUBSET (1..n) -> V] : Folding(base, step, n, fold)
  <2> HIDE DEF step
  <2> QED BY <1>2, <1>4, FoldsExist
<1>6. \A s \in SUBSET (1..n) : s # {} => Max(s) \in 1..n /\ s \ {Max(s)} \in SUBSET (1..n)
  BY <1>2, Greatest
<1>7. Folds(fold)
  BY <1>2, <1>5, <1>6 DEF Folding
<1>8. Folds(added)
  BY <1>7
<1> HIDE DEF added, V, step
<1>9. added[{}] \in V
  BY <1>2, <1>8 DEF V
<1>10. \A s \in SUBSET (1..n) : s # {} /\ added[s \ {Max(s)}] \in V => added[s] \in V
  BY <1>2, <1>3, <1>6, <1>8
<1> HIDE DEF Folds
<1>11. added[1..n] \in V
  BY <1>2, <1>9, <1>10, FoldedIn
<1> QED BY <1>1, <1>2, <1>11 DEF V

\* What a refresh goes through: a list that is not empty, of known domains.
Followed == {target \in UNION {ToSet(TargetsOf(list)) : list \in Watchlists} : target.market_type \in Domains}
\* Whatever watchlist is read, its targets are such a list.
LEMMA TargetsFollowed ==
    ASSUME NEW list \in Watchlists
    PROVE  TargetsOf(list) \in Seq(Followed) \ {<<>>}
<1> DEFINE T == ToSet(BaseTargets) \cup UNION {ToSet(Wanted(list[i])) : i \in DOMAIN list}
<1>1. BaseTargets \in Seq(T) \ {<<>>}
  <2>1. BaseTargets \in Seq(ToSet(BaseTargets)) /\ ToSet(BaseTargets) \subseteq T /\ BaseTargets # <<>>
    BY CorridorAssumption
  <2> HIDE DEF T
  <2> QED BY <2>1
<1>2. ASSUME NEW i \in DOMAIN list
      PROVE  Wanted(list[i]) \in Seq(T) /\ \A t \in ToSet(Wanted(list[i])) : t.market_type \in Domains
  <2> DEFINE entry == list[i]
  <2>1. CASE entry.market_type \notin DOMAIN Ladder
    BY <2>1, EmptySeq DEF Wanted, ToSet
  <2>2. CASE entry.market_type \in DOMAIN Ladder
    <3> DEFINE frames == Ladder[entry.market_type]
               wanted == [k \in DOMAIN frames |->
                            [symbol |-> Symbol(entry), market_type |-> entry.market_type, timeframe |-> frames[k]]]
    <3>1. wanted = Wanted(entry)
      BY <2>2 DEF Wanted
    <3>2. frames \in Seq(Timeframes) /\ entry.market_type \in Domains
      BY <2>2, CorridorAssumption
    <3>3. Len(frames) \in Nat /\ DOMAIN frames = 1..Len(frames)
      BY <3>2, Sequence
    <3>4. \A t \in ToSet(wanted) : t.market_type \in Domains
      <4>1. DOMAIN wanted = DOMAIN frames /\ \A k \in DOMAIN frames : wanted[k].market_type = entry.market_type
        OBVIOUS
      <4> HIDE DEF wanted, frames
      <4> QED BY <3>2, <4>1 DEF ToSet
    <3>5. ToSet(wanted) \subseteq T
      BY <3>1
    <3>6. \A k \in 1..Len(frames) : wanted[k] \in ToSet(wanted)
      BY <3>3 DEF ToSet
    <3>7. wanted \in [1..Len(frames) -> T]
      <4>1. wanted = [k \in 1..Len(frames) |-> wanted[k]]
        BY <3>3
      <4> HIDE DEF T, wanted
      <4> QED BY <3>5, <3>6, <4>1
    <3>8. wanted \in Seq(T)
      <4> HIDE DEF T, wanted
      <4> QED BY <3>3, <3>7, SeqOfFunction
    <3> QED BY <3>1, <3>4, <3>8
  <2> QED BY <2>1, <2>2
<1>3. list \in Seq(ToSet(list))
  BY CorridorAssumption
<1> HIDE DEF T
<1>4. TargetsOf(list) \in Seq(T) \ {<<>>}
  BY <1>1, <1>2, <1>3, WantedAdded DEF TargetsOf
<1>5. \A t \in T : t.market_type \in Domains
  BY <1>2, CorridorAssumption DEF T
<1>6. Len(TargetsOf(list)) \in Nat /\ DOMAIN TargetsOf(list) = 1..Len(TargetsOf(list))
      /\ \A i \in 1..Len(TargetsOf(list)) : TargetsOf(list)[i] \in T
  BY <1>4, Sequence
<1>7. \A i \in 1..Len(TargetsOf(list)) : TargetsOf(list)[i] \in Followed
  BY <1>5, <1>6 DEF Followed, ToSet
<1>8. TargetsOf(list) \in [1..Len(TargetsOf(list)) -> Followed]
  <2>1. TargetsOf(list) = [i \in 1..Len(TargetsOf(list)) |-> TargetsOf(list)[i]]
    BY <1>4, <1>6
  <2> QED BY <1>7, <2>1
<1> QED BY <1>4, <1>6, <1>8, SeqOfFunction

\* A chain is a list.
LEMMA ChainListed ==
    ASSUME settings \in Configurations, NEW domain \in Domains, NEW capability
    PROVE  \E P : Chain(domain, capability) \in Seq(P)
<1> DEFINE route == settings.routes[domain]
           P == ToSet(route)
           V == Seq(P)
           n == Len(route)
           Add(chain, p) == IF p \in DOMAIN registry /\ capability \in registry[p].caps
                            THEN Append(chain, p) ELSE chain
           Folds(f) == f = [s \in SUBSET DOMAIN route |->
                              IF s = {} THEN <<>> ELSE Add(f[s \ {Max(s)}], route[Max(s)])]
           chosen == CHOOSE f : Folds(f)
           step == [p \in V \X (1..n) |-> Add(p[1], route[p[2]])]
<1>1. Chain(domain, capability) = chosen[DOMAIN route]
  BY DEF Chain, FoldLeft, MapThenFoldSet
<1>2. route \in Seq(P)
  BY ManagerAssumption, CorridorAssumption
<1> HIDE DEF P, route
<1>3. n \in Nat /\ DOMAIN route = 1..n /\ \A i \in 1..n : route[i] \in P
  BY <1>2, Sequence
<1>4. \A v \in V, i \in 1..n : Add(v, route[i]) \in V
  BY <1>3, AppendProperties
<1>5. step \in [V \X (1..n) -> V]
  <2> HIDE DEF Add, V
  <2> QED BY <1>4
<1> HIDE DEF n, Add
<1>6. PICK fold \in [SUBSET (1..n) -> V] : Folding(<<>>, step, n, fold)
  <2>1. <<>> \in V
    BY EmptySeq
  <2> HIDE DEF step, V
  <2> QED BY <1>3, <1>5, <2>1, FoldsExist
<1>7. \A s \in SUBSET (1..n) : s # {} => Max(s) \in 1..n /\ s \ {Max(s)} \in SUBSET (1..n)
  BY <1>3, Greatest
<1>8. Folds(fold)
  <2> HIDE DEF V
  <2> QED BY <1>3, <1>6, <1>7 DEF Folding
<1>9. Folds(chosen)
  BY <1>8
<1> HIDE DEF chosen, V, step
<1>10. chosen[{}] \in V
  BY <1>3, <1>9, EmptySeq DEF V
<1>11. \A s \in SUBSET (1..n) : s # {} /\ chosen[s \ {Max(s)}] \in V => chosen[s] \in V
  BY <1>3, <1>4, <1>7, <1>9
<1> HIDE DEF Folds
<1>12. chosen[1..n] \in V
  BY <1>3, <1>10, <1>11, FoldedIn
<1> QED BY <1>1, <1>3, <1>12 DEF V

-----------------------------------------------------------------------------
(* The registry.                                                           *)

\* The names a registry may hold.
KnownNames ==
    ToSet([i \in DOMAIN Builtins |-> Builtins[i].name])
    \cup ToSet([i \in DOMAIN Extensions |-> Extensions[i].name])
    \cup UNION {{p.id : p \in ToSet(s.profiles)} : s \in Configurations}

\* What configure registers has a known name.
LEMMA RegistrationsKnown ==
    ASSUME NEW s \in Configurations
    PROVE  \E R : Registrations(s) \in Seq(R) /\ \A r \in R : r.name \in KnownNames
<1> DEFINE R == {r \in {[name |-> Builtins[i].name, caps |-> Builtins[i].caps,
                         client |-> HasClient(Builtins[i], s.keys)] : i \in DOMAIN Builtins}
                       \cup {[name |-> p.id, caps |-> p.caps, client |-> FALSE] : p \in ToSet(s.profiles)} :
                   r.name \in KnownNames}
           V == Seq(R)
           n == Len(s.profiles)
           builtins == [i \in DOMAIN Builtins |->
                          [name |-> Builtins[i].name, caps |-> Builtins[i].caps,
                           client |-> HasClient(Builtins[i], s.keys)]]
           Add(list, p) == IF Offers(p)
                           THEN Append(list, [name |-> p.id, caps |-> p.caps, client |-> FALSE])
                           ELSE list
           Folds(f) == f = [u \in SUBSET DOMAIN s.profiles |->
                              IF u = {} THEN builtins ELSE Add(f[u \ {Max(u)}], s.profiles[Max(u)])]
           registered == CHOOSE f : Folds(f)
           step == [p \in V \X (1..n) |-> Add(p[1], s.profiles[p[2]])]
<1>1. Registrations(s) = registered[DOMAIN s.profiles]
  BY DEF Registrations, FoldLeft, MapThenFoldSet
<1>2. /\ n \in Nat /\ DOMAIN s.profiles = 1..n
      /\ \A i \in 1..n : s.profiles[i] \in ToSet(s.profiles)
  BY Sequence, ManagerAssumption
<1>3. \A i \in 1..n : [name |-> s.profiles[i].id, caps |-> s.profiles[i].caps, client |-> FALSE] \in R
  <2> SUFFICES ASSUME NEW p \in ToSet(s.profiles)
               PROVE  [name |-> p.id, caps |-> p.caps, client |-> FALSE] \in R
    BY <1>2
  <2>1. p.id \in KnownNames
    BY DEF KnownNames
  <2> QED BY <2>1
<1>4. builtins \in V
  <2>1. Len(Builtins) \in Nat /\ DOMAIN Builtins = 1..Len(Builtins)
    BY ManagerAssumption, Sequence
  <2>2. \A i \in DOMAIN Builtins : Builtins[i].name \in KnownNames
    BY DEF KnownNames, ToSet
  <2>3. \A i \in DOMAIN Builtins : builtins[i] \in R
    BY <2>2
  <2>4. builtins \in [1..Len(Builtins) -> R]
    <3>1. builtins = [i \in 1..Len(Builtins) |-> builtins[i]]
      BY <2>1
    <3> HIDE DEF builtins, R
    <3> QED BY <2>1, <2>3, <3>1
  <2> HIDE DEF builtins, R
  <2> QED BY <2>1, <2>4, SeqOfFunction
<1> HIDE DEF R, builtins
<1>5. \A v \in V, i \in 1..n : Add(v, s.profiles[i]) \in V
  BY <1>3, AppendProperties
<1>6. step \in [V \X (1..n) -> V]
  <2> HIDE DEF Add, V
  <2> QED BY <1>5
<1> HIDE DEF n, Add
<1>7. PICK fold \in [SUBSET (1..n) -> V] : Folding(builtins, step, n, fold)
  <2> HIDE DEF step, V
  <2> QED BY <1>2, <1>4, <1>6, FoldsExist
<1>8. \A u \in SUBSET (1..n) : u # {} => Max(u) \in 1..n /\ u \ {Max(u)} \in SUBSET (1..n)
  BY <1>2, Greatest
<1>9. Folds(fold)
  <2> HIDE DEF V
  <2> QED BY <1>2, <1>7, <1>8 DEF Folding
<1>10. Folds(registered)
  BY <1>9
<1> HIDE DEF registered, V, step
<1>11. registered[{}] \in V
  BY <1>2, <1>4, <1>10
<1>12. \A u \in SUBSET (1..n) : u # {} /\ registered[u \ {Max(u)}] \in V => registered[u] \in V
  BY <1>2, <1>5, <1>8, <1>10
<1> HIDE DEF Folds
<1>13. registered[1..n] \in V
  BY <1>2, <1>11, <1>12, FoldedIn
<1>14. \A r \in R : r.name \in KnownNames
  BY DEF R
<1> QED BY <1>1, <1>2, <1>13, <1>14 DEF V

\* A registry holds the names that were registered.
LEMMA RegistryKnown ==
    ASSUME NEW R, NEW list \in Seq(R), \A r \in R : r.name \in KnownNames
    PROVE  DOMAIN RegistryOf(list) \subseteq KnownNames
<1> DEFINE Rows == {[caps |-> r.caps, configured |-> r.client] : r \in R}
           V == UNION {[D -> Rows] : D \in SUBSET KnownNames}
           n == Len(list)
           Add(e, r) == Registered(e, r.name, r.caps, r.client)
           Folds(f) == f = [u \in SUBSET DOMAIN list |->
                              IF u = {} THEN Nothing ELSE Add(f[u \ {Max(u)}], list[Max(u)])]
           registered == CHOOSE f : Folds(f)
           step == [p \in V \X (1..n) |-> Add(p[1], list[p[2]])]
<1>1. RegistryOf(list) = registered[DOMAIN list]
  BY DEF RegistryOf, FoldLeft, MapThenFoldSet
<1>2. n \in Nat /\ DOMAIN list = 1..n /\ \A i \in 1..n : list[i] \in R
  BY Sequence
<1>3. \A v \in V, i \in 1..n : Add(v, list[i]) \in V
  <2> SUFFICES ASSUME NEW v \in V, NEW r \in R PROVE Add(v, r) \in V
    BY <1>2
  <2>1. PICK D \in SUBSET KnownNames : v \in [D -> Rows]
    OBVIOUS
  <2>2. [caps |-> r.caps, configured |-> r.client] \in Rows /\ r.name \in KnownNames
    OBVIOUS
  <2> DEFINE E == D \cup {r.name}
  <2> HIDE DEF Rows
  <2>3. Add(v, r) \in [E -> Rows] /\ E \in SUBSET KnownNames
    BY <2>1, <2>2 DEF Registered
  <2> HIDE DEF Add, E
  <2> QED BY <2>3
<1>4. step \in [V \X (1..n) -> V]
  <2> HIDE DEF Add, V
  <2> QED BY <1>3
<1> HIDE DEF n, Add
<1>5. Nothing \in V
  <2>1. Nothing \in [{} -> Rows]
    BY DEF Nothing
  <2> HIDE DEF Rows
  <2> QED BY <2>1
<1>6. PICK fold \in [SUBSET (1..n) -> V] : Folding(Nothing, step, n, fold)
  <2> HIDE DEF step, V
  <2> QED BY <1>2, <1>4, <1>5, FoldsExist
<1>7. \A u \in SUBSET (1..n) : u # {} => Max(u) \in 1..n /\ u \ {Max(u)} \in SUBSET (1..n)
  BY <1>2, Greatest
<1>8. Folds(fold)
  <2> HIDE DEF V
  <2> QED BY <1>2, <1>6, <1>7 DEF Folding
<1>9. Folds(registered)
  BY <1>8
<1>10. \A v \in V : DOMAIN v \subseteq KnownNames
  OBVIOUS
<1> HIDE DEF registered, V, step
<1>11. registered[{}] \in V
  BY <1>2, <1>5, <1>9
<1>12. \A u \in SUBSET (1..n) : u # {} /\ registered[u \ {Max(u)}] \in V => registered[u] \in V
  BY <1>2, <1>3, <1>7, <1>9
<1> HIDE DEF Folds
<1>13. registered[1..n] \in V
  BY <1>2, <1>11, <1>12, FoldedIn
<1> QED BY <1>1, <1>2, <1>10, <1>13

-----------------------------------------------------------------------------
(* A batch of candles.                                                     *)

\* How many members of S are less than t; the k-th member of S from below.
Below(S, t) == {u \in S : u < t}
Nth(S, k) == CHOOSE t \in S : Cardinality(Below(S, t)) = k - 1

\* Counting from below goes through a finite set of integers in order.
LEMMA NthMember ==
    ASSUME NEW S, S \subseteq Int, IsFiniteSet(S)
    PROVE  /\ Cardinality(S) \in Nat
           /\ \A k \in 1..Cardinality(S) : Nth(S, k) \in S
           /\ \A i, j \in 1..Cardinality(S) : i < j => Nth(S, i) < Nth(S, j)
           /\ \A t \in S : \E k \in 1..Cardinality(S) : Nth(S, k) = t
<1> DEFINE n == Cardinality(S)
           rank == [t \in S |-> Cardinality(Below(S, t)) + 1]
<1>1. n \in Nat
  BY FS_CardinalityType
<1>2. ASSUME NEW t \in S
      PROVE  Cardinality(Below(S, t)) \in Nat /\ Cardinality(Below(S, t)) < n
  <2>1. Below(S, t) \in SUBSET S /\ Below(S, t) # S
    BY DEF Below
  <2>2. IsFiniteSet(Below(S, t)) /\ Cardinality(Below(S, t)) <= n /\ Cardinality(Below(S, t)) # n
    BY <2>1, FS_Subset
  <2>3. Cardinality(Below(S, t)) \in Nat
    BY <2>2, FS_CardinalityType
  <2> QED BY <1>1, <2>2, <2>3
<1>3. ASSUME NEW t \in S, NEW u \in S, t < u
      PROVE  Cardinality(Below(S, t)) < Cardinality(Below(S, u))
  <2>1. Below(S, t) \in SUBSET Below(S, u) /\ t \in Below(S, u) /\ t \notin Below(S, t)
    <3>1. \A x \in S : x < t => x < u
      BY <1>3
    <3>2. ~(t < t)
      BY <1>3
    <3> QED BY <1>3, <3>1, <3>2 DEF Below
  <2>2. IsFiniteSet(Below(S, u))
    <3>1. Below(S, u) \in SUBSET S
      BY DEF Below
    <3> QED BY <3>1, FS_Subset
  <2>3. /\ Cardinality(Below(S, t)) <= Cardinality(Below(S, u))
        /\ Cardinality(Below(S, t)) # Cardinality(Below(S, u))
    BY <2>1, <2>2, FS_Subset
  <2> QED BY <1>2, <2>3
<1> HIDE DEF n
<1>4. rank \in [S -> 1..n] /\ \A t \in S : rank[t] = Cardinality(Below(S, t)) + 1
  BY <1>1, <1>2
<1>5. \A t, u \in S : rank[t] = rank[u] => t = u
  <2>1. \A t, u \in S : t < u \/ u < t \/ t = u
    OBVIOUS
  <2> QED BY <1>2, <1>3, <1>4, <2>1
<1> HIDE DEF rank
<1>6. rank \in Surjection(S, 1..n)
  <2>1. rank \in Injection(S, 1..n)
    BY <1>4, <1>5 DEF Injection, IsInjective
  <2>2. IsFiniteSet(1..n) /\ Cardinality(1..n) = n
    BY <1>1, FS_Interval
  <2> QED BY <2>1, <2>2, FS_Injection DEF n
<1>7. ASSUME NEW k \in 1..n PROVE Nth(S, k) \in S /\ rank[Nth(S, k)] = k
  <2>1. PICK t \in S : rank[t] = k
    BY <1>6 DEF Surjection
  <2>2. Cardinality(Below(S, t)) = k - 1
    BY <1>2, <1>4, <2>1
  <2>3. Nth(S, k) \in S /\ Cardinality(Below(S, Nth(S, k))) = k - 1
    BY <2>2 DEF Nth
  <2>4. rank[Nth(S, k)] = (k - 1) + 1
    BY <1>4, <2>3
  <2> QED BY <1>1, <2>3, <2>4
<1>8. ASSUME NEW i \in 1..n, NEW j \in 1..n, i < j PROVE Nth(S, i) < Nth(S, j)
  <2> DEFINE t == Nth(S, i)
             u == Nth(S, j)
  <2>1. t \in S /\ u \in S /\ rank[t] = i /\ rank[u] = j
    BY <1>7
  <2> HIDE DEF t, u
  <2>2. ~(u < t) /\ u # t
    BY <1>2, <1>3, <1>4, <1>8, <2>1
  <2>3. t \in Int /\ u \in Int
    BY <2>1
  <2>4. t < u
    BY <2>2, <2>3
  <2> QED BY <2>4 DEF t, u
<1>9. ASSUME NEW t \in S PROVE \E k \in 1..n : Nth(S, k) = t
  <2>1. rank[t] \in 1..n
    BY <1>4
  <2> QED BY <1>5, <1>7, <2>1
<1> QED BY <1>1, <1>7, <1>8, <1>9 DEF n

\* A candle as it is stored.
Candle == [open_time : Int, open : Int, high : Int, low : Int, close : Int, volume : Int]
Time(raw) == Normalized(raw).open_time
\* Candles in ascending order, each open time once.
Ascends(q) == \A i, j \in DOMAIN q : i < j => q[i].open_time < q[j].open_time

\* What the loop keeps of a batch: candles in ascending order, each the last that
\* was accepted for its open time, and one for each open time that was.
LEMMA Deduplicates ==
    ASSUME NEW raws \in Seq(RawCandle)
    PROVE  LET kept == Deduplicated(raws)
               times == {Time(raws[i]) : i \in Accepted(raws)}
           IN  /\ kept \in Seq(Candle) /\ Ascends(kept)
               /\ Len(kept) = Cardinality(times) /\ IsFiniteSet(times)
               /\ \A k \in 1..Len(kept) : \E i \in Accepted(raws) :
                     /\ kept[k] = Normalized(raws[i])
                     /\ \A j \in Accepted(raws) : j > i => Time(raws[j]) # kept[k].open_time
               /\ \A i \in Accepted(raws) : \E k \in 1..Len(kept) : kept[k].open_time = Time(raws[i])
<1> DEFINE kept == Deduplicated(raws)
           times == {Time(raws[i]) : i \in Accepted(raws)}
           n == Cardinality(times)
           m == Len(raws)
           Holding(t) == {i \in Accepted(raws) : Time(raws[i]) = t}
           last(t) == Max(Holding(t))
<1>1. kept = [k \in 1..n |-> Normalized(raws[last(Nth(times, k))])]
  BY DEF Deduplicated, Nth, Below, Time
<1>2. m \in Nat /\ Accepted(raws) \subseteq 1..m /\ \A i \in 1..m : raws[i] \in RawCandle
  BY Sequence DEF Accepted
<1> HIDE DEF kept, m
<1>3. \A i \in Accepted(raws) : Normalized(raws[i]) \in Candle /\ Time(raws[i]) \in Int
  <2> SUFFICES ASSUME NEW raw \in RawCandle PROVE Normalized(raw) \in Candle /\ Time(raw) \in Int
    BY <1>2
  <2> QED BY DEF Normalized, Candle, RawCandle, Time
<1>4. times \subseteq Int /\ IsFiniteSet(times)
  <2> DEFINE f == [i \in Accepted(raws) |-> Time(raws[i])]
  <2>1. IsFiniteSet(Accepted(raws))
    <3>1. IsFiniteSet(1..m)
      BY <1>2, FS_Interval
    <3> QED BY <1>2, <3>1, FS_Subset
  <2>2. f \in Surjection(Accepted(raws), times)
    BY DEF Surjection
  <2> HIDE DEF f
  <2> QED BY <1>3, <2>1, <2>2, FS_Surjection
<1>5. ASSUME NEW t \in times
      PROVE  /\ last(t) \in Accepted(raws) /\ Time(raws[last(t)]) = t
             /\ \A j \in Accepted(raws) : Time(raws[j]) = t => j <= last(t)
  <2>1. Holding(t) \in SUBSET (1..m) /\ Holding(t) # {}
    BY <1>2
  <2>2. Max(Holding(t)) \in Holding(t) /\ \A j \in Holding(t) : j <= Max(Holding(t))
    <3> HIDE DEF Holding
    <3> QED BY <1>2, <2>1, Greatest
  <2> QED BY <2>2
<1> HIDE DEF Holding, times, last, n
<1>6. /\ n \in Nat
      /\ \A k \in 1..n : Nth(times, k) \in times
      /\ \A i, j \in 1..n : i < j => Nth(times, i) < Nth(times, j)
      /\ \A t \in times : \E k \in 1..n : Nth(times, k) = t
  BY <1>4, NthMember DEF n
<1>7. ASSUME NEW k \in 1..n
      PROVE  /\ kept[k] \in Candle /\ kept[k].open_time = Nth(times, k)
             /\ kept[k] = Normalized(raws[last(Nth(times, k))])
  <2>1. kept[k] = Normalized(raws[last(Nth(times, k))])
    BY <1>1
  <2> QED BY <1>3, <1>5, <1>6, <2>1 DEF Time
<1>8. kept \in Seq(Candle) /\ Len(kept) = n /\ DOMAIN kept = 1..n
  <2>1. kept \in [1..n -> Candle]
    BY <1>1, <1>7
  <2> QED BY <1>6, <2>1, SeqOfFunction
<1>9. Ascends(kept)
  BY <1>6, <1>7, <1>8 DEF Ascends
<1>10. ASSUME NEW k \in 1..n
       PROVE  \E i \in Accepted(raws) :
                /\ kept[k] = Normalized(raws[i])
                /\ \A j \in Accepted(raws) : j > i => Time(raws[j]) # kept[k].open_time
  <2> DEFINE i == last(Nth(times, k))
  <2>1. /\ i \in Accepted(raws)
        /\ \A j \in Accepted(raws) : Time(raws[j]) = Nth(times, k) => j <= i
    BY <1>5, <1>6
  <2>2. kept[k] = Normalized(raws[i]) /\ kept[k].open_time = Nth(times, k)
    BY <1>7
  <2> HIDE DEF i
  <2>3. \A j \in Accepted(raws) : j > i => Time(raws[j]) # kept[k].open_time
    BY <1>2, <2>1, <2>2
  <2> QED BY <2>1, <2>2, <2>3
<1>11. ASSUME NEW i \in Accepted(raws) PROVE \E k \in 1..n : kept[k].open_time = Time(raws[i])
  <2>1. Time(raws[i]) \in times
    BY DEF times
  <2> QED BY <1>6, <1>7, <2>1
<1> QED BY <1>4, <1>8, <1>9, <1>10, <1>11 DEF kept, times, n

\* Leaving out the last of a list of candles.
LEMMA FrontOf ==
    ASSUME NEW S, NEW q \in Seq(S), q # <<>>
    PROVE  /\ Front(q) \in Seq(S) /\ Len(Front(q)) = Len(q) - 1 /\ Len(q) \in Nat \ {0}
           /\ \A i \in 1..(Len(q) - 1) : Front(q)[i] = q[i]
           /\ Last(q) = q[Len(q)]
<1>1. Len(q) \in Nat /\ Len(q) > 0 /\ \A i \in 1..Len(q) : q[i] \in S
  BY Sequence
<1>2. \A i \in 1..(Len(q) - 1) : q[i] \in S
  BY <1>1
<1>3. /\ SubSeq(q, 1, Len(q) - 1) \in Seq(S)
      /\ Len(SubSeq(q, 1, Len(q) - 1)) = IF 1 <= Len(q) - 1 THEN ((Len(q) - 1) - 1) + 1 ELSE 0
      /\ \A i \in 1..(((Len(q) - 1) - 1) + 1) : SubSeq(q, 1, Len(q) - 1)[i] = q[(1 + i) - 1]
  BY <1>1, <1>2, SubSeqProperties
<1>4. \A i \in 1..(Len(q) - 1) : (1 + i) - 1 = i /\ i \in 1..(((Len(q) - 1) - 1) + 1)
  BY <1>1
<1>5. (IF 1 <= Len(q) - 1 THEN ((Len(q) - 1) - 1) + 1 ELSE 0) = Len(q) - 1
  <2>1. \A n \in Nat : n > 0 => (IF 1 <= n - 1 THEN ((n - 1) - 1) + 1 ELSE 0) = n - 1
    OBVIOUS
  <2> QED BY <1>1, <2>1
<1> QED BY <1>1, <1>3, <1>4, <1>5 DEF Front, Last

\* What is kept of the deduplicated candles: all, or all but one that still forms.
Whole(sorted, kept) == kept = sorted
ButLast(sorted, kept) == sorted # <<>> /\ kept = Front(sorted)

\* Either way it ascends and agrees with them up to its length.
LEMMA KeptOf ==
    ASSUME NEW S, NEW sorted \in Seq(S), Ascends(sorted), NEW kept,
           Whole(sorted, kept) \/ ButLast(sorted, kept)
    PROVE  /\ kept \in Seq(S) /\ Ascends(kept) /\ Len(kept) \in Nat /\ Len(kept) <= Len(sorted)
           /\ \A k \in 1..Len(kept) : kept[k] = sorted[k]
           /\ Len(kept) = IF Whole(sorted, kept) THEN Len(sorted) ELSE Len(sorted) - 1
<1>1. Len(sorted) \in Nat /\ DOMAIN sorted = 1..Len(sorted)
  BY Sequence
<1>2. CASE Whole(sorted, kept)
  BY <1>1, <1>2 DEF Whole
<1>3. CASE ButLast(sorted, kept) /\ ~Whole(sorted, kept)
  <2>1. /\ kept \in Seq(S) /\ Len(kept) = Len(sorted) - 1 /\ Len(sorted) \in Nat \ {0}
        /\ \A i \in 1..(Len(sorted) - 1) : kept[i] = sorted[i]
    BY <1>3, FrontOf DEF ButLast
  <2>2. DOMAIN kept = 1..(Len(sorted) - 1)
    BY <2>1, Sequence
  <2>3. Ascends(kept)
    <3>1. 1..(Len(sorted) - 1) \subseteq 1..Len(sorted)
      BY <2>1
    <3> QED BY <1>1, <2>1, <2>2, <3>1 DEF Ascends
  <2> QED BY <1>3, <2>1, <2>3
<1> QED BY <1>2, <1>3

\* What the corridor keeps of a batch ascends.
LEMMA KeptAscends ==
    ASSUME NEW raws \in Seq(RawCandle), NEW target, NEW now
    PROVE  /\ Validated(raws, target, now).kept \in Seq(Candle)
           /\ Ascends(Validated(raws, target, now).kept)
<1> DEFINE sorted == Deduplicated(raws)
           kept == Validated(raws, target, now).kept
<1>1. sorted \in Seq(Candle) /\ Ascends(sorted)
  BY Deduplicates
<1>2. kept = IF IsPartial(sorted, ExpectedDelta(target.timeframe), now) THEN Front(sorted) ELSE sorted
  BY DEF Validated
<1>3. Whole(sorted, kept) \/ ButLast(sorted, kept)
  <2> HIDE DEF sorted, kept
  <2> QED BY <1>2 DEF Whole, ButLast, IsPartial
<1> HIDE DEF sorted, kept
<1>4. kept \in Seq(Candle) /\ Ascends(kept)
  BY <1>1, <1>3, KeptOf
<1> QED BY <1>4 DEF kept

\* The shape of a candle that is accepted.
WellShaped(c) ==
    /\ 0 < c.low /\ c.low <= c.open /\ c.open <= c.high
    /\ c.low <= c.close /\ c.close <= c.high /\ 0 <= c.volume
\* _is_valid_candle finds nothing wrong with these shapes and no others.
LEMMA AcceptedShape ==
    ASSUME NEW c \in Candle
    PROVE  Verdict(c) = "ok" <=> WellShaped(c)
<1>1. c.open \in Int /\ c.high \in Int /\ c.low \in Int /\ c.close \in Int /\ c.volume \in Int
  BY DEF Candle
<1> QED BY <1>1 DEF Verdict, WellShaped, LeastOf, MostOf

\* The wide steps between candles that are kept are those of all, but for the
\* step to the candle left out.
LEMMA GapsKept ==
    ASSUME NEW S, NEW sorted \in Seq(S), Ascends(sorted), NEW kept, NEW delta,
           Whole(sorted, kept) \/ ButLast(sorted, kept),
           NEW left \in {0, 1}, left = IF Whole(sorted, kept) THEN 0 ELSE 1
    PROVE  /\ IsFiniteSet(Gaps(sorted, delta)) /\ Cardinality(Gaps(sorted, delta)) \in Nat
           /\ Cardinality(Gaps(kept, delta)) \in
                (Cardinality(Gaps(sorted, delta)) - left)..Cardinality(Gaps(sorted, delta))
<1> DEFINE n == Len(sorted)
           all == Gaps(sorted, delta)
           some == Gaps(kept, delta)
<1>1. /\ n \in Nat /\ Len(kept) \in Nat /\ Len(kept) = n - left
      /\ \A k \in 1..Len(kept) : kept[k] = sorted[k]
  <2>1. n \in Nat
    BY Sequence
  <2> QED BY <2>1, KeptOf
<1> HIDE DEF n
<1>2. IsFiniteSet(all) /\ Cardinality(all) \in Nat
  <2>1. IsFiniteSet(2..n) /\ all \in SUBSET (2..n)
    BY <1>1, FS_Interval DEF Gaps, n
  <2>2. IsFiniteSet(all)
    BY <2>1, FS_Subset
  <2> QED BY <2>2, FS_CardinalityType
<1>3. some = all \ {i \in {n} : left = 1}
  <2>1. \A k \in 2..Len(kept) : k \in 2..n /\ kept[k] = sorted[k] /\ kept[k - 1] = sorted[k - 1]
    BY <1>1
  <2>2. \A k \in 2..n : k \in 2..Len(kept) <=> ~(k = n /\ left = 1)
    BY <1>1
  <2>3. some = {k \in 2..Len(kept) : sorted[k].open_time - sorted[k - 1].open_time > delta}
    BY <2>1 DEF Gaps
  <2>4. all = {k \in 2..n : sorted[k].open_time - sorted[k - 1].open_time > delta}
    BY DEF Gaps, n
  <2> HIDE DEF some, all
  <2> QED BY <2>1, <2>2, <2>3, <2>4
<1> HIDE DEF some, all
<1>4. CASE left = 0
  <2>1. some = all
    BY <1>3, <1>4
  <2> QED BY <1>2, <1>4, <2>1 DEF all, some
<1>5. CASE left = 1
  <2>1. some = all \ {n}
    BY <1>3, <1>5
  <2>2. Cardinality(some) = IF n \in all THEN Cardinality(all) - 1 ELSE Cardinality(all)
    BY <1>2, <2>1, FS_RemoveElement
  <2> QED BY <1>2, <1>5, <2>2 DEF all, some
<1> QED BY <1>4, <1>5

\* The times of ascending candles that no other follows within the cadence are
\* those before a wide step.
Holes(times, delta) == {t \in times : (\E u \in times : t < u) /\ \A u \in times : t < u => t + delta < u}

\* There are as many of them as there are gaps (what _quality_report counts).
LEMMA HolesAreGaps ==
    ASSUME NEW kept \in Seq(Candle), Ascends(kept), NEW delta \in Nat
    PROVE  Cardinality(Holes({c.open_time : c \in ToSet(kept)}, delta)) = Cardinality(Gaps(kept, delta))
<1> DEFINE n == Len(kept)
           at(k) == kept[k].open_time
           times == {c.open_time : c \in ToSet(kept)}
           gaps == Gaps(kept, delta)
           holes == Holes(times, delta)
           before == [k \in gaps |-> at(k - 1)]
<1>1. n \in Nat /\ DOMAIN kept = 1..n /\ \A k \in 1..n : kept[k] \in Candle
  BY Sequence
<1>2. \A k \in 1..n : at(k) \in Int
  BY <1>1 DEF Candle
<1>3. times = {at(k) : k \in 1..n}
  BY <1>1 DEF ToSet
<1>4. \A j, k \in 1..n : j < k => at(j) < at(k)
  BY <1>1 DEF Ascends
<1>5. gaps = {k \in 2..n : at(k) - at(k - 1) > delta}
  BY DEF Gaps
<1> HIDE DEF n, at, times, gaps
<1>6. IsFiniteSet(gaps)
  <2>1. IsFiniteSet(2..n) /\ gaps \in SUBSET (2..n)
    BY <1>1, <1>5, FS_Interval
  <2> QED BY <2>1, FS_Subset
<1>7. ASSUME NEW k \in gaps PROVE at(k - 1) \in holes
  <2>1. k \in 2..n /\ k - 1 \in 1..n /\ k \in 1..n /\ at(k) - at(k - 1) > delta
    BY <1>1, <1>5
  <2>2. at(k - 1) \in times /\ at(k) \in times /\ at(k - 1) < at(k)
    BY <1>1, <1>3, <1>4, <2>1
  <2>3. ASSUME NEW j \in 1..n, at(k - 1) < at(j) PROVE at(k - 1) + delta < at(j)
    <3>1. k <= j
      <4>1. SUFFICES ASSUME j <= k - 1 PROVE FALSE
        BY <2>1
      <4>2. at(j) <= at(k - 1)
        BY <1>2, <1>4, <2>1, <4>1
      <4> QED BY <1>2, <2>1, <2>3, <4>2
    <3>2. at(k) <= at(j)
      BY <1>2, <1>4, <2>1, <3>1
    <3> QED BY <1>2, <2>1, <3>2
  <2> QED BY <1>3, <2>2, <2>3 DEF Holes
<1>8. ASSUME NEW t \in holes PROVE \E k \in gaps : at(k - 1) = t
  <2>1. PICK j \in 1..n : at(j) = t
    BY <1>3 DEF Holes
  <2>2. PICK u \in times : t < u
    BY DEF Holes
  <2>3. PICK i \in 1..n : at(i) = u
    BY <1>3
  <2>4. j < i
    <3>1. SUFFICES ASSUME i <= j PROVE FALSE
      BY <2>1
    <3>2. at(i) <= at(j)
      BY <1>2, <1>4, <3>1
    <3> QED BY <1>2, <2>1, <2>2, <2>3, <3>2
  <2>5. j + 1 \in 2..n /\ j + 1 \in 1..n /\ (j + 1) - 1 = j
    BY <1>1, <2>4
  <2>6. at(j) < at(j + 1) /\ at(j + 1) \in times
    BY <1>3, <1>4, <2>5
  <2>7. at(j) + delta < at(j + 1)
    BY <2>1, <2>6 DEF Holes
  <2>8. j + 1 \in gaps
    BY <1>2, <1>5, <2>5, <2>7
  <2> QED BY <2>1, <2>5, <2>8
<1>9. \A j, k \in gaps : at(j - 1) = at(k - 1) => j = k
  <2> SUFFICES ASSUME NEW j \in gaps, NEW k \in gaps, at(j - 1) = at(k - 1) PROVE j = k
    OBVIOUS
  <2>1. j - 1 \in 1..n /\ k - 1 \in 1..n /\ j \in Int /\ k \in Int
    BY <1>1, <1>5
  <2>2. at(j - 1) \in Int /\ at(k - 1) \in Int /\ ~(j - 1 < k - 1) /\ ~(k - 1 < j - 1)
    BY <1>2, <1>4, <2>1
  <2> QED BY <2>1, <2>2
<1> HIDE DEF holes
<1>10. before \in Bijection(gaps, holes)
  <2>1. before \in [gaps -> holes] /\ \A k \in gaps : before[k] = at(k - 1)
    BY <1>7
  <2>2. IsInjective(before)
    BY <1>9, <2>1 DEF IsInjective
  <2>3. \A t \in holes : \E k \in gaps : before[k] = t
    BY <1>8, <2>1
  <2> HIDE DEF before
  <2> QED BY <2>1, <2>2, <2>3 DEF Bijection, Injection, Surjection
<1>11. Cardinality(holes) = Cardinality(gaps)
  BY <1>6, <1>10, FS_Bijection DEF ExistsBijection
<1> QED BY <1>11 DEF holes, times, gaps

\* _normalize_and_validate_candles, on every batch a provider can send: what is
\* kept is well formed, ascending and the provider's latest word; no closed,
\* well-formed candle is lost; a candle still forming is kept only before a later
\* one; every candle is accounted for; and every hole between kept candles is
\* reported, with at most one more.
THEOREM BatchesAreSound ==
    ASSUME NEW raws \in Seq(RawCandle), NEW now \in Int, NEW target, target.timeframe \in Timeframes
    PROVE  QualitySound(raws, target, now)
<1> DEFINE v == Validated(raws, target, now)
           s == v.stats
           kept == v.kept
           sorted == Deduplicated(raws)
           delta == ExpectedDelta(target.timeframe)
           times == {Time(raws[i]) : i \in Accepted(raws)}
           partial == IsPartial(sorted, delta, now)
           left == IF partial THEN 1 ELSE 0
           n == Len(sorted)
<1>1. /\ sorted \in Seq(Candle) /\ Ascends(sorted) /\ n = Cardinality(times) /\ IsFiniteSet(times)
      /\ \A k \in 1..n : \E i \in Accepted(raws) :
            /\ sorted[k] = Normalized(raws[i])
            /\ \A j \in Accepted(raws) : j > i => Time(raws[j]) # sorted[k].open_time
      /\ \A i \in Accepted(raws) : \E k \in 1..n : sorted[k].open_time = Time(raws[i])
  BY Deduplicates
<1>2. delta \in Nat
  BY DEF ExpectedDelta, Timeframes
<1>3. /\ kept = IF partial THEN Front(sorted) ELSE sorted
      /\ s.candles_received = Len(raws) /\ s.candles_kept = Len(kept)
      /\ s.invalid_count = Len(raws) - Cardinality(Accepted(raws))
      /\ s.duplicate_count = Cardinality(Accepted(raws)) - n
      /\ s.gap_count = Cardinality(Gaps(sorted, delta))
      /\ s.partial_excluded_count = left
  BY DEF Validated
<1>4. /\ Len(raws) \in Nat /\ Accepted(raws) \subseteq 1..Len(raws) /\ DOMAIN raws = 1..Len(raws)
      /\ Cardinality(Accepted(raws)) \in Nat
  <2>1. Len(raws) \in Nat /\ DOMAIN raws = 1..Len(raws)
    BY Sequence
  <2>2. Accepted(raws) \in SUBSET (1..Len(raws)) /\ IsFiniteSet(1..Len(raws))
    BY <2>1, FS_Interval DEF Accepted
  <2> QED BY <2>1, <2>2, FS_Subset, FS_CardinalityType
<1>5. QualitySound(raws, target, now) <=>
        /\ \A c \in ToSet(kept) : WellShaped(c)
        /\ \A k \in DOMAIN kept : k < Len(kept) => kept[k].open_time < kept[k + 1].open_time
        /\ \A c \in ToSet(kept) : \E i \in DOMAIN raws :
              /\ raws[i].parses /\ Normalized(raws[i]) = c
              /\ \A j \in (i + 1)..Len(raws) : ~(Usable(raws[j]) /\ Time(raws[j]) = c.open_time)
        /\ \A i \in DOMAIN raws : raws[i].parses =>
              (WellShaped(Normalized(raws[i])) /\ Time(raws[i]) + delta <= now
                 => Time(raws[i]) \in {c.open_time : c \in ToSet(kept)})
        /\ \A c \in ToSet(kept) : c.open_time + delta <= now \/ \E i \in DOMAIN raws :
              Usable(raws[i]) /\ c.open_time < Time(raws[i])
        /\ s.candles_received = s.candles_kept + s.invalid_count + s.duplicate_count
                                + s.partial_excluded_count
        /\ Cardinality(Holes({c.open_time : c \in ToSet(kept)}, delta))
              \in (s.gap_count - s.partial_excluded_count)..s.gap_count
  <2> HIDE DEF v, delta
  <2> QED BY DEF QualitySound, Holes, WellShaped, Time, v, delta
<1> HIDE DEF v, s, sorted, delta, times
<1>6. (Whole(sorted, kept) \/ ButLast(sorted, kept)) /\ (Whole(sorted, kept) <=> ~partial)
  <2>1. partial => sorted # <<>>
    BY DEF IsPartial
  <2>2. partial => Len(Front(sorted)) = n - 1 /\ n \in Nat \ {0}
    BY <1>1, <2>1, FrontOf
  <2> QED BY <1>3, <2>1, <2>2 DEF Whole, ButLast
<1> HIDE DEF kept, partial
<1>7. /\ kept \in Seq(Candle) /\ Ascends(kept) /\ n \in Nat /\ Len(kept) = n - left
      /\ Len(kept) \in Nat /\ \A k \in 1..Len(kept) : kept[k] = sorted[k]
  <2>1. n \in Nat
    BY <1>1, Sequence
  <2> QED BY <1>1, <1>6, <2>1, KeptOf
<1>8. /\ DOMAIN kept = 1..Len(kept) /\ \A k \in 1..Len(kept) : kept[k] \in Candle
      /\ DOMAIN sorted = 1..n /\ \A k \in 1..n : sorted[k] \in Candle
  BY <1>1, <1>7, Sequence
<1> HIDE DEF n
<1>9. ASSUME NEW k \in 1..Len(kept)
      PROVE  \E i \in Accepted(raws) :
                /\ kept[k] = Normalized(raws[i])
                /\ \A j \in Accepted(raws) : j > i => Time(raws[j]) # kept[k].open_time
  <2>1. k \in 1..n /\ kept[k] = sorted[k]
    BY <1>7
  <2> QED BY <1>1, <2>1
<1>10. \A i \in Accepted(raws) : i \in DOMAIN raws /\ Usable(raws[i]) /\ raws[i].parses
                                 /\ Normalized(raws[i]) \in Candle
  <2>1. \A raw \in RawCandle : Normalized(raw) \in Candle
    BY DEF RawCandle, Normalized, Candle
  <2>2. \A i \in DOMAIN raws : raws[i] \in RawCandle
    BY Sequence
  <2> QED BY <2>1, <2>2 DEF Accepted, Usable
<1>11. \A c \in ToSet(kept) : \E k \in 1..Len(kept) : c = kept[k]
  BY <1>8 DEF ToSet
<1>12. \A c \in ToSet(kept) : WellShaped(c)
  <2>1. \A i \in Accepted(raws) : WellShaped(Normalized(raws[i]))
    BY <1>10, AcceptedShape DEF Usable
  <2> QED BY <1>9, <1>11, <2>1
<1>13. ASSUME NEW k \in DOMAIN kept, k < Len(kept) PROVE kept[k].open_time < kept[k + 1].open_time
  <2>1. k + 1 \in DOMAIN kept /\ k < k + 1
    BY <1>7, <1>8, <1>13
  <2> QED BY <1>7, <2>1 DEF Ascends
<1>14. ASSUME NEW c \in ToSet(kept)
       PROVE  \E i \in DOMAIN raws :
                 /\ raws[i].parses /\ Normalized(raws[i]) = c
                 /\ \A j \in (i + 1)..Len(raws) : ~(Usable(raws[j]) /\ Time(raws[j]) = c.open_time)
  <2>1. PICK i \in Accepted(raws) :
           c = Normalized(raws[i]) /\ \A j \in Accepted(raws) : j > i => Time(raws[j]) # c.open_time
    BY <1>9, <1>11
  <2>2. \A j \in (i + 1)..Len(raws) : j \in DOMAIN raws /\ j > i
    BY <1>4
  <2>3. \A j \in (i + 1)..Len(raws) : Usable(raws[j]) => j \in Accepted(raws)
    BY <2>2 DEF Accepted
  <2> QED BY <1>10, <2>1, <2>2, <2>3
<1>15. ASSUME NEW i \in DOMAIN raws, raws[i].parses, WellShaped(Normalized(raws[i])), Time(raws[i]) + delta <= now
       PROVE  Time(raws[i]) \in {c.open_time : c \in ToSet(kept)}
  <2>1. i \in Accepted(raws)
    <3>1. Normalized(raws[i]) \in Candle
      <4>1. raws[i] \in RawCandle
        BY Sequence
      <4> QED BY <4>1 DEF RawCandle, Normalized, Candle
    <3> QED BY <1>15, <3>1, AcceptedShape DEF Accepted, Usable
  <2>2. PICK k \in 1..n : sorted[k].open_time = Time(raws[i])
    BY <1>1, <2>1 DEF n
  <2>3. k \in 1..Len(kept)
    <3>1. SUFFICES ASSUME k = n, partial PROVE FALSE
      BY <1>7
    <3>2. sorted # <<>> /\ Last(sorted) = sorted[n] /\ sorted[n].open_time + delta > now
      BY <1>1, <3>1, FrontOf DEF partial, IsPartial, n
    <3>3. sorted[n].open_time \in Int
      BY <1>8, <3>1 DEF Candle
    <3> QED BY <1>2, <1>15, <2>2, <3>1, <3>2, <3>3
  <2>4. kept[k] \in ToSet(kept) /\ kept[k].open_time = Time(raws[i])
    BY <1>7, <1>8, <2>2, <2>3 DEF ToSet
  <2> QED BY <2>4
<1>16. ASSUME NEW c \in ToSet(kept), ~(c.open_time + delta <= now)
       PROVE  \E i \in DOMAIN raws : Usable(raws[i]) /\ c.open_time < Time(raws[i])
  <2>1. PICK k \in 1..Len(kept) : c = kept[k]
    BY <1>11
  <2>2. c = sorted[k] /\ k \in 1..n /\ c \in Candle
    BY <1>7, <1>8, <2>1
  <2>3. k < n
    <3>1. SUFFICES ASSUME k = n PROVE FALSE
      BY <1>7, <2>2
    <3>2. ~partial
      BY <1>7, <2>1, <3>1
    <3>3. sorted # <<>>
      BY <1>7, <2>2, EmptySeq DEF n
    <3>4. ~(sorted[n].open_time + delta > now)
      BY <1>1, <3>2, <3>3, FrontOf DEF partial, IsPartial, n
    <3>5. c.open_time \in Int
      BY <2>2 DEF Candle
    <3> QED BY <1>2, <1>16, <2>2, <3>1, <3>4, <3>5
  <2>4. n \in 1..n /\ sorted[k].open_time < sorted[n].open_time
    <3>1. n \in 1..n
      BY <1>7, <2>3
    <3> QED BY <1>1, <1>8, <2>2, <2>3, <3>1 DEF Ascends
  <2>5. PICK i \in Accepted(raws) : sorted[n] = Normalized(raws[i])
    BY <1>1, <2>4 DEF n
  <2> QED BY <1>10, <2>2, <2>4, <2>5 DEF Time
<1>17. s.candles_received = s.candles_kept + s.invalid_count + s.duplicate_count + s.partial_excluded_count
  BY <1>3, <1>4, <1>7 DEF n
<1>18. Cardinality(Holes({c.open_time : c \in ToSet(kept)}, delta))
          \in (s.gap_count - s.partial_excluded_count)..s.gap_count
  <2>1. left \in {0, 1} /\ left = IF Whole(sorted, kept) THEN 0 ELSE 1
    BY <1>6
  <2>2. Cardinality(Gaps(kept, delta)) \in (s.gap_count - s.partial_excluded_count)..s.gap_count
    BY <1>1, <1>3, <1>6, <2>1, GapsKept DEF left
  <2> QED BY <1>2, <1>7, <2>2, HolesAreGaps
<1> QED BY <1>5, <1>12, <1>13, <1>14, <1>15, <1>16, <1>17, <1>18

-----------------------------------------------------------------------------
(* Types.                                                                  *)

\* What a process starts with holds known names.
LEMMA StartKnown ==
    ASSUME NEW s \in Configurations
    PROVE  DOMAIN RegistryOf(Registrations(s) \o ExtensionRegistrations) \subseteq KnownNames
<1>1. PICK R : Registrations(s) \in Seq(R) /\ \A r \in R : r.name \in KnownNames
  BY RegistrationsKnown
<1> DEFINE E == {[name |-> Extensions[i].name, caps |-> Extensions[i].caps, client |-> TRUE] :
                    i \in DOMAIN Extensions}
           T == R \cup E
<1>2. \A r \in T : r.name \in KnownNames
  <2>1. \A i \in DOMAIN Extensions : Extensions[i].name \in KnownNames
    BY DEF KnownNames, ToSet
  <2> QED BY <1>1, <2>1
<1>3. ExtensionRegistrations \in Seq(E)
  <2>1. Len(Extensions) \in Nat /\ DOMAIN Extensions = 1..Len(Extensions)
    BY ManagerAssumption, Sequence
  <2>2. ExtensionRegistrations \in [1..Len(Extensions) -> E]
    BY <2>1 DEF ExtensionRegistrations
  <2> HIDE DEF E
  <2> QED BY <2>1, <2>2, SeqOfFunction
<1> HIDE DEF E
<1>4. Registrations(s) \in Seq(T) /\ ExtensionRegistrations \in Seq(T)
  BY <1>1, <1>3
<1> HIDE DEF T
<1>5. Registrations(s) \o ExtensionRegistrations \in Seq(T)
  BY <1>4, ConcatProperties
<1> QED BY <1>2, <1>5, RegistryKnown

RegistryInv ==
    /\ settings \in Configurations /\ rebuilding \in Int
    /\ DOMAIN registry \subseteq KnownNames

\* configure and a restart register known names only.
LEMMA RegistryStep ==
    ASSUME RegistryInv, [CorridorNext]_<<manager, corridor>>
    PROVE  RegistryInv'
<1>1. CASE UNCHANGED manager
  BY <1>1 DEF RegistryInv, manager
<1>2. ASSUME NEW s \in Configurations, Configure(s) PROVE RegistryInv'
  <2>1. PICK R : Registrations(s) \in Seq(R)
    BY RegistrationsKnown
  <2>2. Len(Registrations(s)) \in Nat
    BY <2>1, Sequence
  <2>3. settings' = s /\ rebuilding' = Len(Registrations(s)) + 2 /\ registry' = registry
    BY <1>2 DEF Configure
  <2> QED BY <2>2, <2>3 DEF RegistryInv
<1>3. CASE DropRegistry \/ DropClients
  BY <1>3 DEF DropRegistry, DropClients, RegistryInv, Nothing
<1>4. CASE RegisterNext
  <2>1. PICK R : Registrations(settings) \in Seq(R) /\ \A r \in R : r.name \in KnownNames
    BY RegistrationsKnown DEF RegistryInv
  <2> DEFINE next == Registrations(settings)[Missing + 1]
  <2>2. Len(Registrations(settings)) \in Nat /\ rebuilding \in Int /\ rebuilding > 0 /\ Missing >= 0
    BY <1>4, <2>1, Sequence DEF RegisterNext, RegistryInv
  <2>3. Missing + 1 \in 1..Len(Registrations(settings))
    BY <2>2 DEF Missing
  <2>4. next.name \in KnownNames
    BY <2>1, <2>3, Sequence
  <2>5. /\ registry' = Registered(registry, next.name, next.caps, next.client)
        /\ settings' = settings /\ rebuilding' = rebuilding - 1
    BY <1>4 DEF RegisterNext
  <2> HIDE DEF next
  <2>6. DOMAIN registry' = DOMAIN registry \cup {next.name}
    BY <2>5 DEF Registered
  <2> QED BY <2>2, <2>4, <2>5, <2>6 DEF RegistryInv
<1>5. CASE Restart
  <2>1. settings' = settings /\ rebuilding' = 0
        /\ registry' = RegistryOf(Registrations(settings') \o ExtensionRegistrations)
    BY <1>5 DEF Restart, StartManager
  <2> QED BY <2>1, StartKnown DEF RegistryInv
<1>6. \/ UNCHANGED manager \/ (\E s \in Configurations : Configure(s))
      \/ DropRegistry \/ DropClients \/ RegisterNext \/ Restart
  BY DEF CorridorNext, Configuring, Rebuild, Step, Start, Clear, Prune, Pop, PopEmpty, Admit, Grant,
         Retry, Refuse, LogRefusal, Resolve, NoClient, Explain, Fetch, FetchFails, Note, Replace, Log,
         WriteFails, NoteFails, ReplaceFails, LogFails, Tick
<1> QED BY <1>1, <1>2, <1>3, <1>4, <1>5, <1>6

\* The local variables of a refresh.
RefOK(x) ==
    /\ x.todo \in Seq(Followed) /\ (x.pc = "idle") = (x.todo = <<>>)
    /\ x.kept \in Seq(Candle) /\ Ascends(x.kept)
    /\ \E P : x.chain \in Seq(P)
    /\ x.pc \in {"client", "explain", "note", "replace", "log"} => x.chain # <<>>
Outcomes == {"never", "open", "stored", "reported", "nochain", "race", "lost"}
TablesInv ==
    /\ DOMAIN candles = Series /\ DOMAIN ended = Series
    /\ \A s \in Series : /\ candles[s] \in Seq(Candle) /\ Ascends(candles[s])
                         /\ ended[s] \in Outcomes
ThreadsInv == RefShape /\ \A r \in Refreshers : RefOK(ref[r])

\* No candles ascend.
LEMMA NoCandles == <<>> \in Seq(Candle) /\ Ascends(<<>>)
  BY EmptySeq DEF Ascends

\* A thread at rest, and one that begins with a list of targets.
LEMMA IdleOK ==
    /\ RefOK(Idle)
    /\ \A todo \in Seq(Followed) \ {<<>>} : RefOK([Idle EXCEPT !.pc = "clear", !.todo = todo])
<1>1. <<>> \in Seq(Followed) /\ \E P : <<>> \in Seq(P)
  BY EmptySeq
<1>2. RefOK(Idle)
  BY <1>1, NoCandles DEF RefOK, Idle
<1>3. ASSUME NEW todo \in Seq(Followed) \ {<<>>}
      PROVE  RefOK([Idle EXCEPT !.pc = "clear", !.todo = todo])
  BY <1>1, NoCandles DEF RefOK, Idle
<1> QED BY <1>2, <1>3

\* The first of some candles.
LEMMA SomeCandles ==
    ASSUME NEW q \in Seq(Candle), Ascends(q), NEW k \in 0..(Len(q) - 1)
    PROVE  SubSeq(q, 1, k) \in Seq(Candle) /\ Ascends(SubSeq(q, 1, k))
<1>1. Len(q) \in Nat /\ DOMAIN q = 1..Len(q) /\ \A i \in 1..Len(q) : q[i] \in Candle
  BY Sequence
<1>2. k \in Nat /\ 1..k \subseteq 1..Len(q)
  BY <1>1
<1>3. /\ SubSeq(q, 1, k) \in Seq(Candle)
      /\ Len(SubSeq(q, 1, k)) = IF 1 <= k THEN (k - 1) + 1 ELSE 0
      /\ \A i \in 1..((k - 1) + 1) : SubSeq(q, 1, k)[i] = q[(1 + i) - 1]
  BY <1>1, <1>2, SubSeqProperties
<1>4. Len(SubSeq(q, 1, k)) = k /\ \A i \in 1..k : SubSeq(q, 1, k)[i] = q[i]
  <2>1. (k - 1) + 1 = k /\ \A i \in 1..k : (1 + i) - 1 = i
    BY <1>2
  <2>2. (IF 1 <= k THEN (k - 1) + 1 ELSE 0) = k
    BY <1>2
  <2> QED BY <1>3, <2>1, <2>2
<1>5. DOMAIN SubSeq(q, 1, k) = 1..k
  BY <1>3, <1>4, Sequence
<1> QED BY <1>1, <1>2, <1>3, <1>4, <1>5 DEF Ascends

\* A thread that goes on keeps its lists.
LEMMA GoOK ==
    ASSUME ThreadsInv, NEW r \in Refreshers, ref[r].pc # "idle", NEW pc, pc # "idle", Go(r, pc),
           pc \in {"client", "explain", "note", "replace", "log"} => ref[r].chain # <<>>
    PROVE  ThreadsInv'
<1>1. ref' = [ref EXCEPT ![r].pc = pc]
  BY DEF Go
<1>2. RefShape'
  BY GoStep DEF ThreadsInv
<1>3. /\ ref'[r].pc = pc /\ ref'[r].todo = ref[r].todo /\ ref'[r].kept = ref[r].kept
      /\ ref'[r].chain = ref[r].chain /\ \A q \in Refreshers \ {r} : ref'[q] = ref[q]
  BY <1>1 DEF ThreadsInv, RefShape
<1>4. RefOK(ref'[r])
  BY <1>3 DEF ThreadsInv, RefOK
<1> QED BY <1>2, <1>3, <1>4 DEF ThreadsInv

\* A thread that is done with its target has another or rests.
LEMMA NextTargetOK ==
    ASSUME ThreadsInv, NEW r \in Refreshers, ref[r].pc # "idle", NextTarget(r)
    PROVE  ThreadsInv'
<1> DEFINE next == IF Len(ref[r].todo) = 1 THEN Idle
                   ELSE [Idle EXCEPT !.pc = "clear", !.todo = Tail(ref[r].todo)]
<1>1. ref' = [ref EXCEPT ![r] = next]
  BY DEF NextTarget
<1>2. ref[r].todo \in Seq(Followed) /\ ref[r].todo # <<>>
  BY DEF ThreadsInv, RefOK
<1>3. /\ Len(ref[r].todo) \in Nat \ {0} /\ Tail(ref[r].todo) \in Seq(Followed)
      /\ Len(Tail(ref[r].todo)) = Len(ref[r].todo) - 1
  BY <1>2, Sequence
<1>4. Len(ref[r].todo) # 1 => Tail(ref[r].todo) # <<>>
  <2>1. Tail(ref[r].todo) = <<>> => Len(Tail(ref[r].todo)) = 0
    BY EmptySeq
  <2> QED BY <1>3, <2>1
<1>5. RefOK(next)
  BY <1>3, <1>4, IdleOK
<1>6. RefShape'
  BY NextTargetStep DEF ThreadsInv
<1> HIDE DEF next
<1>7. ref'[r] = next /\ \A q \in Refreshers \ {r} : ref'[q] = ref[q]
  BY <1>1 DEF ThreadsInv, RefShape
<1> QED BY <1>5, <1>6, <1>7 DEF ThreadsInv

\* A thread whose provider is done with has another provider or target or rests.
LEMMA NextProviderOK ==
    ASSUME ThreadsInv, NEW r \in Refreshers, ref[r].pc # "idle", NextProvider(r)
    PROVE  ThreadsInv'
<1>1. CASE Len(ref[r].chain) > 1
  <2> DEFINE next == [Idle EXCEPT !.pc = "client", !.todo = ref[r].todo, !.chain = Tail(ref[r].chain)]
  <2>1. ref' = [ref EXCEPT ![r] = next]
    BY <1>1 DEF NextProvider
  <2>2. PICK P : ref[r].chain \in Seq(P)
    BY DEF ThreadsInv, RefOK
  <2>3. Len(ref[r].chain) \in Nat /\ ref[r].chain # <<>>
    BY <1>1, <2>2, Sequence
  <2>4. Tail(ref[r].chain) \in Seq(P) /\ Len(Tail(ref[r].chain)) = Len(ref[r].chain) - 1
    BY <2>2, <2>3, Sequence
  <2>5. Tail(ref[r].chain) # <<>>
    BY <1>1, <2>3, <2>4, EmptySeq
  <2>6. ref[r].todo \in Seq(Followed) /\ ref[r].todo # <<>>
    BY DEF ThreadsInv, RefOK
  <2>7. /\ next.pc = "client" /\ next.todo = ref[r].todo /\ next.chain = Tail(ref[r].chain)
        /\ next.kept = <<>>
    BY DEF Idle
  <2>8. RefOK(next)
    <3> HIDE DEF next
    <3> QED BY <2>4, <2>5, <2>6, <2>7, NoCandles DEF RefOK
  <2>9. RefShape'
    BY NextProviderStep DEF ThreadsInv
  <2> HIDE DEF next
  <2>10. ref'[r] = next /\ \A q \in Refreshers \ {r} : ref'[q] = ref[q]
    BY <2>1 DEF ThreadsInv, RefShape
  <2> QED BY <2>8, <2>9, <2>10 DEF ThreadsInv
<1>2. CASE ~(Len(ref[r].chain) > 1)
  BY <1>2, NextTargetOK DEF NextProvider
<1> QED BY <1>1, <1>2

\* Every step of a refresh keeps the threads' lists.
LEMMA ThreadStep ==
    ASSUME ThreadsInv, settings \in Configurations, NEW r \in Refreshers, Start(r) \/ Step(r)
    PROVE  ThreadsInv'
<1>1. CASE Start(r)
  <2>1. PICK list \in Watchlists :
           ref' = [ref EXCEPT ![r] = [Idle EXCEPT !.pc = "clear", !.todo = TargetsOf(list)]]
    BY <1>1 DEF Start
  <2> DEFINE next == [Idle EXCEPT !.pc = "clear", !.todo = TargetsOf(list)]
  <2>2. RefOK(next)
    BY TargetsFollowed, IdleOK
  <2>3. RefShape'
    BY <1>1, QuietStep DEF ThreadsInv, Quiet
  <2> HIDE DEF next
  <2>4. ref'[r] = next /\ \A q \in Refreshers \ {r} : ref'[q] = ref[q]
    BY <2>1 DEF ThreadsInv, RefShape, next
  <2> QED BY <2>2, <2>3, <2>4 DEF ThreadsInv
<1>2. CASE Clear(r) \/ Prune(r) \/ Pop(r) \/ Admit(r) \/ Retry(r) \/ Grant(r) \/ Refuse(r)
  <2>1. PICK pc \in {"prune", "limited", "pop", "admit", "retry", "append", "resolve", "refused"} : Go(r, pc)
    BY <1>2 DEF Clear, Prune, Pop, Admit, Retry, Grant, Refuse
  <2>2. ref[r].pc # "idle"
    BY <1>2 DEF Clear, Prune, Pop, Admit, Retry, Grant, Refuse, At
  <2> QED BY <2>1, <2>2, GoOK
<1>3. CASE PopEmpty(r) \/ LogRefusal(r) \/ WriteFails(r) \/ (NoteFails(r) /\ NextTarget(r))
  <2>1. NextTarget(r) /\ ref[r].pc # "idle"
    BY <1>3 DEF PopEmpty, LogRefusal, WriteFails, NoteFails, GivesUp, At
  <2> QED BY <2>1, NextTargetOK
<1>4. CASE NoClient(r)
  <2>1. ref[r].pc = "client" /\ Go(r, "explain")
    BY <1>4 DEF NoClient, At
  <2>2. ref[r].chain # <<>>
    BY <2>1 DEF ThreadsInv, RefOK
  <2> QED BY <2>1, <2>2, GoOK
<1>5. CASE Explain(r)
  BY <1>5, NextProviderOK DEF Explain, At
<1>6. CASE Resolve(r)
  <2>1. CASE NextTarget(r)
    BY <1>6, <2>1, NextTargetOK DEF Resolve, At
  <2>2. CASE ~NextTarget(r)
    <3> DEFINE chain == Chain(Target(r).market_type, "ohlcv")
    <3>1. ref' = [ref EXCEPT ![r].pc = "client", ![r].chain = chain] /\ chain # <<>> /\ ref[r].pc = "resolve"
      BY <1>6, <2>2 DEF Resolve, At
    <3>2. ref[r].todo \in Seq(Followed) /\ ref[r].todo # <<>>
      BY <3>1 DEF ThreadsInv, RefOK
    <3>3. Target(r) \in Followed
      BY <3>2, Sequence DEF Target
    <3>4. Target(r).market_type \in Domains
      BY <3>3 DEF Followed
    <3>5. PICK P : chain \in Seq(P)
      BY <3>4, ChainListed
    <3>6. RefShape'
      BY <1>6, QuietStep DEF ThreadsInv, Quiet
    <3> HIDE DEF chain
    <3>7. /\ ref'[r].pc = "client" /\ ref'[r].todo = ref[r].todo /\ ref'[r].kept = ref[r].kept
          /\ ref'[r].chain = chain /\ \A q \in Refreshers \ {r} : ref'[q] = ref[q]
      BY <3>1 DEF ThreadsInv, RefShape
    <3>8. RefOK(ref'[r])
      BY <3>1, <3>2, <3>5, <3>7 DEF ThreadsInv, RefOK
    <3> QED BY <3>6, <3>7, <3>8 DEF ThreadsInv
  <2> QED BY <2>1, <2>2
<1>7. CASE Fetch(r)
  <2>1. PICK raws \in Offered : Answered(r, raws)
    BY <1>7 DEF Fetch
  <2> DEFINE v == Validated(raws, Target(r), Now)
  <2>2. v.kept \in Seq(Candle) /\ Ascends(v.kept)
    <3>1. raws \in Seq(RawCandle)
      BY CorridorAssumption
    <3> QED BY <3>1, KeptAscends
  <2>3. PICK codes, status :
           ref' = [ref EXCEPT ![r].pc = "note", ![r].codes = codes, ![r].kept = v.kept, ![r].status = status]
    BY <2>1 DEF Answered
  <2> HIDE DEF v
  <2>4. ref[r].pc = "client"
    BY <1>7 DEF Fetch, At
  <2>5. /\ ref'[r].pc = "note" /\ ref'[r].todo = ref[r].todo /\ ref'[r].kept = v.kept
        /\ ref'[r].chain = ref[r].chain /\ \A q \in Refreshers \ {r} : ref'[q] = ref[q]
    BY <2>3 DEF ThreadsInv, RefShape
  <2>6. RefOK(ref'[r])
    BY <2>2, <2>4, <2>5 DEF ThreadsInv, RefOK
  <2>7. RefShape'
    BY <1>7, QuietStep DEF ThreadsInv, Quiet
  <2> QED BY <2>5, <2>6, <2>7 DEF ThreadsInv
<1>8. CASE \/ Note(r) \/ Replace(r)
           \/ Caught(r) /\ (FetchFails(r) \/ NoteFails(r) \/ ReplaceFails(r) \/ LogFails(r))
  <2>1. ref[r].pc \in {"client", "note", "replace", "log"}
    BY <1>8 DEF Note, Replace, FetchFails, NoteFails, ReplaceFails, LogFails, At
  <2>2. /\ ref'[r].pc \in {"note", "replace", "log"} /\ ref'[r].todo = ref[r].todo
        /\ ref'[r].kept \in {ref[r].kept, <<>>} /\ ref'[r].chain = ref[r].chain
        /\ \A q \in Refreshers \ {r} : ref'[q] = ref[q]
    <3>1. CASE Note(r)
      BY <3>1 DEF Note, Go, ThreadsInv, RefShape
    <3>2. CASE Replace(r)
      BY <3>2 DEF Replace, ThreadsInv, RefShape
    <3>3. CASE Caught(r)
      BY <3>3 DEF Caught, ThreadsInv, RefShape
    <3> QED BY <1>8, <3>1, <3>2, <3>3
  <2>3. RefOK(ref'[r])
    BY <2>1, <2>2, NoCandles DEF ThreadsInv, RefOK
  <2>4. RefShape'
    BY <1>8, QuietStep, CaughtStep DEF ThreadsInv, Quiet
  <2> QED BY <2>2, <2>3, <2>4 DEF ThreadsInv
<1>9. CASE Log(r)
  BY <1>9, NextTargetOK, NextProviderOK DEF Log, At
<1>10. NoteFails(r) => NextTarget(r) \/ Caught(r)
  BY DEF NoteFails, GivesUp
<1>11. FetchFails(r) \/ ReplaceFails(r) \/ LogFails(r) => Caught(r)
  BY DEF FetchFails, ReplaceFails, LogFails
<1> QED BY <1>1, <1>2, <1>3, <1>4, <1>5, <1>6, <1>7, <1>8, <1>9, <1>10, <1>11 DEF Step

\* A step that stores nothing and ends at most one attempt.
LEMMA TablesEnd ==
    ASSUME TablesInv, UNCHANGED candles,
           UNCHANGED ended \/ \E r \in Refreshers, how \in Outcomes : Ends(r, how)
    PROVE  TablesInv'
  BY DEF TablesInv, Ends

\* Storing candles that ascend.
LEMMA TablesStored ==
    ASSUME TablesInv, UNCHANGED ended, NEW r, NEW rows \in Seq(Candle), Ascends(rows), Stored(r, rows)
    PROVE  TablesInv'
  BY DEF TablesInv, Stored

\* Every step keeps the tables' types.
LEMMA TablesStep ==
    ASSUME TablesInv, ThreadsInv, [CorridorNext]_<<manager, corridor>>
    PROVE  TablesInv'
<1>1. ASSUME NEW r \in Refreshers, Replace(r) PROVE TablesInv'
  <2>1. ref[r].kept \in Seq(Candle) /\ Ascends(ref[r].kept)
    BY DEF ThreadsInv, RefOK
  <2> QED BY <1>1, <2>1, TablesStored DEF Replace
<1>2. ASSUME NEW r \in Refreshers, NEW k \in 0..(Len(ref[r].kept) - 1), Stored(r, SubSeq(ref[r].kept, 1, k)),
             UNCHANGED ended
      PROVE  TablesInv'
  <2>1. ref[r].kept \in Seq(Candle) /\ Ascends(ref[r].kept)
    BY DEF ThreadsInv, RefOK
  <2> QED BY <1>2, <2>1, SomeCandles, TablesStored
<1>3. ASSUME NEW r \in Refreshers, ReplaceFails(r) PROVE TablesInv'
  BY <1>2, <1>3 DEF ReplaceFails
<1>4. ASSUME Restart PROVE TablesInv'
  <2>1. UNCHANGED ended
    BY <1>4 DEF Restart
  <2>2. CASE UNCHANGED candles
    BY <2>1, <2>2, TablesEnd
  <2>3. CASE ~UNCHANGED candles
    <3>1. PICK r \in Refreshers :
             \E k \in 0..(Len(ref[r].kept) - 1) : Stored(r, SubSeq(ref[r].kept, 1, k))
      BY <1>4, <2>3 DEF Restart
    <3> QED BY <1>2, <2>1, <3>1
  <2> QED BY <2>2, <2>3
<1>5. ASSUME NEW r \in Refreshers,
             \/ Start(r) \/ Clear(r) \/ Prune(r) \/ Pop(r) \/ PopEmpty(r) \/ Admit(r) \/ Retry(r) \/ Grant(r)
             \/ Refuse(r) \/ LogRefusal(r) \/ Resolve(r) \/ NoClient(r) \/ Explain(r) \/ Fetch(r) \/ FetchFails(r)
             \/ Note(r) \/ Log(r) \/ WriteFails(r) \/ NoteFails(r) \/ LogFails(r)
      PROVE  TablesInv'
  <2>1. UNCHANGED candles
    BY <1>5 DEF Start, Clear, Prune, Pop, PopEmpty, Admit, Retry, Grant, Refuse, LogRefusal, Resolve, NoClient,
                Explain, Fetch, FetchFails, Note, Log, WriteFails, NoteFails, LogFails, tables
  <2>2. UNCHANGED ended \/ \E how \in Outcomes : Ends(r, how)
    <3>1. GivesUp(r) => UNCHANGED ended \/ Ends(r, "lost")
      BY DEF GivesUp
    <3> QED BY <1>5, <3>1 DEF Start, Clear, Prune, Pop, PopEmpty, Admit, Retry, Grant, Refuse, LogRefusal,
               Resolve, NoClient, Explain, Fetch, FetchFails, Note, Log, WriteFails, NoteFails, LogFails, Outcomes
  <2> QED BY <2>1, <2>2, TablesEnd
<1>6. ASSUME Tick \/ UNCHANGED corridor PROVE TablesInv'
  BY <1>6, TablesEnd DEF Tick, corridor, tables
<1>7. \/ \E r \in Refreshers :
             \/ Start(r) \/ Clear(r) \/ Prune(r) \/ Pop(r) \/ PopEmpty(r) \/ Admit(r) \/ Retry(r) \/ Grant(r)
             \/ Refuse(r) \/ LogRefusal(r) \/ Resolve(r) \/ NoClient(r) \/ Explain(r) \/ Fetch(r) \/ FetchFails(r)
             \/ Note(r) \/ Log(r) \/ WriteFails(r) \/ NoteFails(r) \/ LogFails(r)
             \/ Replace(r) \/ ReplaceFails(r)
      \/ Tick \/ Restart \/ UNCHANGED corridor
  BY DEF CorridorNext, Step, Configuring, manager
<1> QED BY <1>1, <1>3, <1>4, <1>5, <1>6, <1>7

\* Types, the order of what is stored among them.
CorridorInv == RegistryInv /\ ThreadsInv /\ TablesInv /\ LimiterInv

\* It holds in the beginning.
LEMMA CorridorInitInv == ManagerInit /\ CorridorInit => CorridorInv
<1> SUFFICES ASSUME ManagerInit, CorridorInit PROVE CorridorInv
  OBVIOUS
<1>1. RegistryInv
  BY StartKnown DEF ManagerInit, RegistryInv
<1>2. ThreadsInv
  BY IdleOK, LimiterInit DEF ThreadsInv, LimiterInv, CorridorInit
<1>3. TablesInv
  BY NoCandles DEF TablesInv, CorridorInit, Outcomes
<1> QED BY <1>1, <1>2, <1>3, LimiterInit DEF CorridorInv

\* Every step keeps it.
LEMMA CorridorStep ==
    ASSUME CorridorInv, [CorridorNext]_<<manager, corridor>>
    PROVE  CorridorInv'
<1>1. RegistryInv' /\ TablesInv' /\ LimiterInv'
  BY RegistryStep, TablesStep, LimiterStep DEF CorridorInv
<1>2. ASSUME NEW r \in Refreshers, Start(r) \/ Step(r) PROVE ThreadsInv'
  BY <1>2, ThreadStep DEF CorridorInv, RegistryInv
<1>3. ASSUME Tick \/ UNCHANGED corridor PROVE ThreadsInv'
  <2>1. UNCHANGED ref
    BY <1>3 DEF Tick, corridor
  <2> QED BY <2>1 DEF CorridorInv, ThreadsInv, RefShape
<1>4. ASSUME Restart PROVE ThreadsInv'
  <2>1. ref' = [r \in Refreshers |-> Idle]
    BY <1>4 DEF Restart
  <2>2. RefShape'
    BY <1>1 DEF LimiterInv
  <2> QED BY <2>1, <2>2, IdleOK DEF ThreadsInv
<1>5. \/ \E r \in Refreshers : Start(r) \/ Step(r)
      \/ Tick \/ Restart \/ UNCHANGED corridor
  BY DEF CorridorNext, Configuring, manager
<1> QED BY <1>1, <1>2, <1>3, <1>4, <1>5 DEF CorridorInv

\* Types, for every batch and every order of any number of refreshes, failing
\* writes, a restart and a rebuilding of the registry: what is stored of a series
\* is in ascending order without doubles, also when replacing it is cut; a thread
\* at work has a target
\* and, where it needs one, a provider; and the registry knows only its names.
THEOREM CorridorKeepsTypes == CorridorSpec => []CorridorTypeOK
<1>1. CorridorInv => CorridorTypeOK
  <2> SUFFICES ASSUME CorridorInv PROVE CorridorTypeOK
    OBVIOUS
  <2>1. \A d \in Domains : window[d] \in Seq(0..Window) /\ granted[d] \in Seq(0..(Window - 1))
    BY DEF CorridorInv, LimiterInv, LimiterTypes
  <2>2. ASSUME NEW s \in Series, NEW i \in 2..Len(candles[s])
        PROVE  candles[s][i - 1].open_time < candles[s][i].open_time
    <3>1. DOMAIN candles[s] = 1..Len(candles[s]) /\ Len(candles[s]) \in Nat /\ Ascends(candles[s])
      BY Sequence DEF CorridorInv, TablesInv
    <3>2. i - 1 \in DOMAIN candles[s] /\ i \in DOMAIN candles[s] /\ i - 1 < i
      BY <3>1
    <3> QED BY <3>1, <3>2 DEF Ascends
  <2>3. \A s \in Series : ended[s] \in {"never", "open", "stored", "reported", "nochain", "race", "lost"}
    BY DEF CorridorInv, TablesInv, Outcomes
  <2>4. \A r \in Refreshers : /\ (ref[r].pc = "idle") = (ref[r].todo = <<>>)
                              /\ ref[r].pc \in {"client", "explain", "note", "replace", "log"}
                                    => ref[r].chain # <<>>
    BY DEF CorridorInv, ThreadsInv, RefOK
  <2>5. DOMAIN registry \subseteq KnownNames
    BY DEF CorridorInv, RegistryInv
  <2> QED BY <2>1, <2>2, <2>3, <2>4, <2>5 DEF CorridorTypeOK, KnownNames
<1>2. ManagerInit /\ CorridorInit => CorridorInv
  BY CorridorInitInv
<1>3. CorridorInv /\ [CorridorNext]_<<manager, corridor>> => CorridorInv'
  BY CorridorStep
<1> QED BY <1>1, <1>2, <1>3, PTL DEF CorridorSpec

-----------------------------------------------------------------------------
(* The calendar, and the judgements of MCIngest.                           *)

\* The first of March: 365 days a year, and one more for each leap day before.
March(y) == 365 * y + y \div 4 - y \div 100 + y \div 400 - 719468

\* A quotient by its bounds.
LEMMA ByFour ==
    ASSUME NEW a \in Int, NEW q \in Int, 4 * q <= a, a <= 4 * q + 3
    PROVE  a \div 4 = q
OBVIOUS

\* Likewise by a hundred.
LEMMA ByHundred ==
    ASSUME NEW a \in Int, NEW q \in Int, 100 * q <= a, a <= 100 * q + 99
    PROVE  a \div 100 = q
OBVIOUS

\* Likewise by four hundred.
LEMMA ByEra ==
    ASSUME NEW a \in Int, NEW q \in Int, 400 * q <= a, a <= 400 * q + 399
    PROVE  a \div 400 = q
OBVIOUS

\* Euclid on years.
LEMMA FourHundred ==
    ASSUME NEW y \in Int, NEW era \in Int, NEW w \in Int, era = y \div 400, w = y - era * 400
    PROVE  /\ w \in 0..399 /\ y \div 4 = 100 * era + w \div 4 /\ y \div 100 = 4 * era + w \div 100
<1>1. w \in 0..399
  OBVIOUS
<1>2. y = 400 * era + w
  OBVIOUS
<1>3. y \div 4 = 100 * era + w \div 4
  <2> DEFINE p == w \div 4
             q == 100 * era + p
  <2>1. p \in Int /\ 4 * p <= w /\ w <= 4 * p + 3
    BY <1>1
  <2> HIDE DEF p
  <2>4. q \in Int /\ 4 * q = 400 * era + 4 * p
    BY <2>1
  <2> HIDE DEF q
  <2>2. q \in Int /\ 4 * q <= y /\ y <= 4 * q + 3
    <3>1. era \in Int /\ w \in Int /\ y \in Int
      BY <1>1
    <3> QED BY ONLY <3>1, <1>2, <2>1, <2>4
  <2>3. y \div 4 = q
    BY <2>2, ByFour
  <2> QED BY <2>3 DEF q, p
<1>4. y \div 100 = 4 * era + w \div 100
  <2> DEFINE p == w \div 100
             q == 4 * era + p
  <2>1. p \in Int /\ 100 * p <= w /\ w <= 100 * p + 99
    BY <1>1
  <2> HIDE DEF p
  <2>4. q \in Int /\ 100 * q = 400 * era + 100 * p
    BY <2>1
  <2> HIDE DEF q
  <2>2. q \in Int /\ 100 * q <= y /\ y <= 100 * q + 99
    <3>1. era \in Int /\ w \in Int /\ y \in Int
      BY <1>1
    <3> QED BY ONLY <3>1, <1>2, <2>1, <2>4
  <2>3. y \div 100 = q
    BY <2>2, ByHundred
  <2> QED BY <2>3 DEF q, p
<1> QED BY <1>1, <1>3, <1>4

\* From March on a day is told from the first of March of its year.
LEMMA FromMarch ==
    ASSUME NEW y \in Int, NEW month \in 3..12, NEW day \in Int
    PROVE  Date(y, month, day) = March(y) + (153 * (month - 3) + 2) \div 5 + day - 1
<1> DEFINE era == y \div 400
           w == y - era * 400
<1>1. Date(y, month, day) = era * 146097 + (w * 365 + w \div 4 - w \div 100 + ((153 * (month - 3) + 2) \div 5 + day - 1)) - 719468
  BY DEF Date
<1>2. era \in Int /\ w \in Int
  OBVIOUS
<1>3. w \in 0..399 /\ y \div 4 = 100 * era + w \div 4 /\ y \div 100 = 4 * era + w \div 100
  BY <1>2, FourHundred
<1> DEFINE p == w \div 4
           q == w \div 100
           r == (153 * (month - 3) + 2) \div 5
<1>4. p \in Int /\ q \in Int /\ r \in Int
  BY <1>2
<1>5. y = 400 * era + w
  BY <1>2
<1>6. March(y) = 365 * y + (100 * era + p) - (4 * era + q) + era - 719468
  BY <1>3 DEF March
<1> HIDE DEF era, w, p, q, r
<1>7. Date(y, month, day) = era * 146097 + (w * 365 + p - q + (r + day - 1)) - 719468
  BY <1>1 DEF p, q, r
<1> QED BY <1>2, <1>4, <1>5, <1>6, <1>7 DEF r

\* In January and February it is told from the first of March of the year before.
LEMMA FromWinter ==
    ASSUME NEW y \in Int, NEW month \in 1..2, NEW day \in Int
    PROVE  Date(y, month, day) = March(y - 1) + (153 * (month + 9) + 2) \div 5 + day - 1
<1> DEFINE z == y - 1
           era == z \div 400
           w == z - era * 400
<1>1. Date(y, month, day) = era * 146097 + (w * 365 + w \div 4 - w \div 100 + ((153 * (month + 9) + 2) \div 5 + day - 1)) - 719468
  BY DEF Date
<1>2. z \in Int /\ era \in Int /\ w \in Int
  OBVIOUS
<1> HIDE DEF z
<1>3. w \in 0..399 /\ z \div 4 = 100 * era + w \div 4 /\ z \div 100 = 4 * era + w \div 100
  BY <1>2, FourHundred
<1> DEFINE p == w \div 4
           q == w \div 100
           r == (153 * (month + 9) + 2) \div 5
<1>4. p \in Int /\ q \in Int /\ r \in Int
  BY <1>2
<1>5. z = 400 * era + w
  BY <1>2
<1>6. March(z) = 365 * z + (100 * era + p) - (4 * era + q) + era - 719468
  BY <1>3 DEF March
<1> HIDE DEF era, w, p, q, r
<1>7. Date(y, month, day) = era * 146097 + (w * 365 + p - q + (r + day - 1)) - 719468
  BY <1>1 DEF p, q, r
<1>8. Date(y, month, day) = March(z) + r + day - 1
  BY <1>2, <1>4, <1>5, <1>6, <1>7
<1> QED BY <1>8 DEF r, z

\* A year from March has 365 or 366 days.
LEMMA YearLength ==
    ASSUME NEW y \in Int
    PROVE  March(y) \in Int /\ March(y + 1) - March(y) \in {365, 366}
<1> DEFINE a == y \div 4
           b == y \div 100
           c == y \div 400
           a2 == (y + 1) \div 4
           b2 == (y + 1) \div 100
           c2 == (y + 1) \div 400
<1>1. a \in Int /\ b \in Int /\ c \in Int /\ a2 \in Int /\ b2 \in Int /\ c2 \in Int
  OBVIOUS
<1>2. March(y) = 365 * y + a - b + c - 719468 /\ March(y + 1) = 365 * (y + 1) + a2 - b2 + c2 - 719468
  BY DEF March
<1>3. 4 * a <= y /\ y <= 4 * a + 3 /\ 4 * a2 <= y + 1 /\ y + 1 <= 4 * a2 + 3
  OBVIOUS
<1>4. 100 * b <= y /\ y <= 100 * b + 99 /\ 100 * b2 <= y + 1 /\ y + 1 <= 100 * b2 + 99
  OBVIOUS
<1>5. 400 * c <= y /\ y <= 400 * c + 399 /\ 400 * c2 <= y + 1 /\ y + 1 <= 400 * c2 + 399
  OBVIOUS
<1> HIDE DEF a, b, c, a2, b2, c2
<1>6. (a2 = a \/ a2 = a + 1) /\ (b2 = b \/ b2 = b + 1) /\ (c2 = c \/ c2 = c + 1)
  BY <1>1, <1>3, <1>4, <1>5
<1>7. (b2 = b + 1 => a2 = a + 1) /\ (c2 = c + 1 => b2 = b + 1)
  <2>1. b2 = b + 1 => y + 1 = 100 * b2
    BY <1>1, <1>4
  <2>2. c2 = c + 1 => y + 1 = 400 * c2
    BY <1>1, <1>5
  <2>3. ASSUME b2 = b + 1 PROVE a2 = a + 1
    <3>1. y + 1 = 4 * (25 * b2)
      BY <1>1, <2>1, <2>3
    <3> QED BY <1>1, <1>3, <1>6, <3>1
  <2>4. ASSUME c2 = c + 1 PROVE b2 = b + 1
    <3>1. y + 1 = 100 * (4 * c2)
      BY <1>1, <2>2, <2>4
    <3> QED BY <1>1, <1>4, <1>6, <3>1
  <2> QED BY <2>3, <2>4
<1> QED BY <1>1, <1>2, <1>6, <1>7

\* The days of the year that holidays are reckoned from, counted from the first of
\* January or from the first of March.
FirstDay(y) == Date(y, 1, 1)

\* Where in the year the days fall that the holidays are told by.
LEMMA YearDays ==
    ASSUME NEW y \in Int
    PROVE  /\ FirstDay(y) \in Int /\ March(y) \in Int
           /\ March(y) - FirstDay(y) \in {59, 60} /\ FirstDay(y + 1) = March(y) + 306
           /\ Date(y, 2, 1) = FirstDay(y) + 31 /\ Date(y, 3, 21) = March(y) + 20
           /\ Date(y, 6, 1) = March(y) + 92 /\ Date(y, 6, 19) = March(y) + 110
           /\ Date(y, 7, 4) = March(y) + 125 /\ Date(y, 9, 1) = March(y) + 184
           /\ Date(y, 11, 1) = March(y) + 245 /\ Date(y, 12, 25) = March(y) + 299
<1>1. March(y - 1) \in Int /\ March((y - 1) + 1) - March(y - 1) \in {365, 366} /\ March(y) \in Int
  BY YearLength
<1>2. (y - 1) + 1 = y /\ (y + 1) - 1 = y /\ y + 1 \in Int
  OBVIOUS
<1>3. ASSUME NEW z \in Int
      PROVE  Date(z, 1, 1) = March(z - 1) + 306 /\ Date(z, 2, 1) = March(z - 1) + 337
  <2>1. PICK one \in 1..2, two \in 1..2, d \in Int : one = 1 /\ two = 2 /\ d = 1
    OBVIOUS
  <2>2. Date(z, one, d) = March(z - 1) + (153 * (one + 9) + 2) \div 5 + d - 1
    BY FromWinter
  <2>3. Date(z, two, d) = March(z - 1) + (153 * (two + 9) + 2) \div 5 + d - 1
    BY FromWinter
  <2>4. z - 1 \in Int /\ March(z - 1) \in Int
    BY YearLength
  <2> QED BY <2>1, <2>2, <2>3, <2>4
<1>4. FirstDay(y) = March(y - 1) + 306 /\ FirstDay(y + 1) = March(y) + 306
  BY <1>2, <1>3 DEF FirstDay
<1>5. Date(y, 2, 1) = March(y - 1) + 337
  BY <1>3
<1> DEFINE Off(m) == (153 * (m - 3) + 2) \div 5
<1>6. \A m \in 3..12 : \A d \in Int : Date(y, m, d) = March(y) + Off(m) + d - 1
  BY FromMarch
<1>7. Off(3) = 0 /\ Off(6) = 92 /\ Off(7) = 122 /\ Off(9) = 184 /\ Off(11) = 245 /\ Off(12) = 275
  OBVIOUS
<1>8. /\ Date(y, 3, 21) = March(y) + 20 /\ Date(y, 6, 1) = March(y) + 92 /\ Date(y, 6, 19) = March(y) + 110
      /\ Date(y, 7, 4) = March(y) + 125 /\ Date(y, 9, 1) = March(y) + 184
      /\ Date(y, 11, 1) = March(y) + 245 /\ Date(y, 12, 25) = March(y) + 299
  <2> HIDE DEF Off
  <2>1. /\ Date(y, 3, 21) = March(y) + Off(3) + 21 - 1 /\ Date(y, 6, 1) = March(y) + Off(6) + 1 - 1
        /\ Date(y, 6, 19) = March(y) + Off(6) + 19 - 1 /\ Date(y, 7, 4) = March(y) + Off(7) + 4 - 1
        /\ Date(y, 9, 1) = March(y) + Off(9) + 1 - 1 /\ Date(y, 11, 1) = March(y) + Off(11) + 1 - 1
        /\ Date(y, 12, 25) = March(y) + Off(12) + 25 - 1
    BY <1>6
  <2> QED BY <1>1, <1>7, <2>1
<1>9. March(y) - March(y - 1) \in {365, 366}
  BY <1>1, <1>2
<1> QED BY <1>1, <1>4, <1>5, <1>8, <1>9

\* A day has one of seven weekdays.
LEMMA SevenDays ==
    ASSUME NEW d \in Int
    PROVE  Weekday(d) \in 0..6 /\ \E k \in Int : d + 3 = 7 * k + Weekday(d)
<1> DEFINE k == (d + 3) \div 7
<1>1. Weekday(d) \in 0..6 /\ k \in Int /\ d + 3 = 7 * k + Weekday(d)
  BY DEF Weekday
<1> QED BY <1>1

\* The weekday is the remainder by weeks.
LEMMA WeekdayIs ==
    ASSUME NEW d \in Int, NEW w \in 0..6, \E k \in Int : d + 3 = 7 * k + w
    PROVE  Weekday(d) = w
BY DEF Weekday

\* A holiday is observed on a weekday, a day away at most.
LEMMA Observed ==
    ASSUME NEW d \in Int
    PROVE  /\ ObservedDate(d) \in {d - 1, d, d + 1} /\ Weekday(ObservedDate(d)) < 5
           /\ ObservedDate(d) < d <=> Weekday(d) = 5
<1>1. PICK k \in Int : d + 3 = 7 * k + Weekday(d) /\ Weekday(d) \in 0..6
  BY SevenDays
<1>2. CASE Weekday(d) = 5
  <2>1. ObservedDate(d) = d - 1 /\ (d - 1) + 3 = 7 * k + 4
    BY <1>1, <1>2 DEF ObservedDate
  <2>2. Weekday(d - 1) = 4
    <3>1. PICK w \in 0..6 : w = 4
      OBVIOUS
    <3>2. (d - 1) + 3 = 7 * k + w
      BY <2>1, <3>1
    <3> QED BY <3>1, <3>2, WeekdayIs
  <2> QED BY <1>2, <2>1, <2>2
<1>3. CASE Weekday(d) = 6
  <2>1. ObservedDate(d) = d + 1 /\ (d + 1) + 3 = 7 * (k + 1) + 0
    BY <1>1, <1>3 DEF ObservedDate
  <2>2. Weekday(d + 1) = 0
    <3>1. PICK w \in 0..6 : w = 0
      OBVIOUS
    <3> DEFINE e == d + 1
               j == k + 1
    <3>2. e + 3 = 7 * j + w /\ j \in Int /\ e \in Int
      BY <2>1, <3>1
    <3> HIDE DEF e, j
    <3>3. Weekday(e) = w
      BY <3>2, WeekdayIs
    <3> QED BY <3>1, <3>3 DEF e
  <2> QED BY <1>3, <2>1, <2>2
<1>4. CASE Weekday(d) # 5 /\ Weekday(d) # 6
  <2>1. ObservedDate(d) = d
    BY <1>4 DEF ObservedDate
  <2> QED BY <1>1, <1>4, <2>1
<1> QED BY <1>2, <1>3, <1>4

\* The n-th weekday of a month is in its n-th week.
LEMMA NthIsOf ==
    ASSUME NEW y \in Int, NEW month, NEW first \in Int, first = Date(y, month, 1), NEW w \in 0..4, NEW n \in Nat
    PROVE  /\ NthWeekday(y, month, w, n) \in Int
           /\ NthWeekday(y, month, w, n) - (first + 7 * (n - 1)) \in 0..6
           /\ Weekday(NthWeekday(y, month, w, n)) < 5
<1>1. PICK k \in Int : first + 3 = 7 * k + Weekday(first) /\ Weekday(first) \in 0..6
  BY SevenDays
<1> DEFINE gap == (w - Weekday(first)) % 7
           day == first + gap + 7 * (n - 1)
           v == Weekday(first)
<1>2. NthWeekday(y, month, w, n) = day
  BY DEF NthWeekday
<1>3. gap \in 0..6 /\ gap = (IF v <= w THEN w - v ELSE w - v + 7)
  <2>1. v \in 0..6
    BY <1>1
  <2> HIDE DEF v
  <2>2. (w - v) % 7 \in 0..6 /\ (w - v) % 7 = (IF v <= w THEN w - v ELSE w - v + 7)
    BY <2>1
  <2> QED BY <2>2 DEF v
<1> HIDE DEF gap
<1>4. day \in Int /\ day - (first + 7 * (n - 1)) \in 0..6
  BY <1>3
<1>5. \E j \in Int : day + 3 = 7 * j + w
  <2>1. CASE v <= w
    <3>1. day + 3 = 7 * (k + (n - 1)) + w /\ k + (n - 1) \in Int
      BY <1>1, <1>3, <2>1
    <3> HIDE DEF day
    <3> QED BY <3>1
  <2>2. CASE ~(v <= w)
    <3>1. day + 3 = 7 * (k + n) + w /\ k + n \in Int
      BY <1>1, <1>3, <2>2
    <3> HIDE DEF day
    <3> QED BY <3>1
  <2> QED BY <2>1, <2>2
<1>6. Weekday(day) = w
  BY <1>4, <1>5, WeekdayIs
<1> QED BY <1>2, <1>4, <1>6

\* The last weekday of a month is in its last week.
LEMMA LastIsOf ==
    ASSUME NEW y \in Int, NEW month, NEW last \in Int, last = LastOfMonth(y, month), NEW w \in 0..4
    PROVE  /\ LastWeekday(y, month, w) \in Int /\ last - LastWeekday(y, month, w) \in 0..6
           /\ Weekday(LastWeekday(y, month, w)) < 5
<1>1. PICK k \in Int : last + 3 = 7 * k + Weekday(last) /\ Weekday(last) \in 0..6
  BY SevenDays
<1> DEFINE v == Weekday(last)
           gap == (v - w) % 7
           day == last - gap
<1>2. LastWeekday(y, month, w) = day
  BY DEF LastWeekday
<1>3. gap \in 0..6 /\ gap = (IF w <= v THEN v - w ELSE v - w + 7)
  <2>1. v \in 0..6
    BY <1>1
  <2> HIDE DEF v
  <2>2. (v - w) % 7 \in 0..6 /\ (v - w) % 7 = (IF w <= v THEN v - w ELSE v - w + 7)
    BY <2>1
  <2> QED BY <2>2
<1> HIDE DEF gap
<1>4. day \in Int /\ last - day \in 0..6
  BY <1>3
<1>5. \E j \in Int : day + 3 = 7 * j + w
  <2>1. CASE w <= v
    <3>1. day + 3 = 7 * k + w
      BY <1>1, <1>3, <2>1
    <3> QED BY <3>1
  <2>2. CASE ~(w <= v)
    <3>1. day + 3 = 7 * (k - 1) + w /\ k - 1 \in Int
      BY <1>1, <1>3, <2>2
    <3> HIDE DEF day
    <3> QED BY <3>1
  <2> QED BY <2>1, <2>2
<1>6. Weekday(day) = w
  BY <1>4, <1>5, WeekdayIs
<1> QED BY <1>2, <1>4, <1>6

\* The years for which the table of full moons is made.
TableYears == 1900..2199

\* In these three centuries the correction of the moon is the same.
LEMMA CenturyMoon ==
    ASSUME NEW y \in TableYears, NEW b \in Int, NEW d \in Int, NEW f \in Int, NEW g \in Int,
           b = y \div 100, d = b \div 4, f = (b + 8) \div 25, g = (b - f + 1) \div 3
    PROVE  b - d - g + 15 = 24
<1>1. b \in {19, 20, 21}
  BY DEF TableYears
<1>2. f = 1
  BY <1>1
<1>3. g = b \div 3 /\ b - f + 1 = b
  BY <1>2
<1>4. CASE b = 19
  BY <1>3, <1>4
<1>5. CASE b = 20
  BY <1>3, <1>5
<1>6. CASE b = 21
  BY <1>3, <1>6
<1> QED BY <1>1, <1>4, <1>5, <1>6

\* The table of full moons is the epact of the computus, but for its two exceptions.
LEMMA Moons ==
    ASSUME NEW a \in 0..18, NEW h, h = (19 * a + 24) % 30
    PROVE  /\ h \in 0..29 /\ (h = 28 => a > 10) /\ (h = 29 => a <= 10)
           /\ PaschalMoon[a + 1] = IF h >= 28 THEN h - 1 ELSE h
<1> DEFINE Fits(x) == LET e == (19 * x + 24) % 30 IN
               /\ e \in 0..29 /\ (e = 28 => x > 10) /\ (e = 29 => x <= 10)
               /\ PaschalMoon[x + 1] = IF e >= 28 THEN e - 1 ELSE e
<1>1. Fits(0) /\ Fits(1) /\ Fits(2) /\ Fits(3) /\ Fits(4) /\ Fits(5) /\ Fits(6)
  BY DEF PaschalMoon
<1>2. Fits(7) /\ Fits(8) /\ Fits(9) /\ Fits(10) /\ Fits(11) /\ Fits(12)
  BY DEF PaschalMoon
<1>3. Fits(13) /\ Fits(14) /\ Fits(15) /\ Fits(16) /\ Fits(17) /\ Fits(18)
  BY DEF PaschalMoon
<1>4. Fits(a)
  <2> HIDE DEF Fits
  <2> QED BY <1>1, <1>2, <1>3
<1> QED BY <1>4

\* The parts of a year by which the computus goes.
Parted(y, b, c, d, e, i, k) ==
    /\ b \in Int /\ c \in Int /\ d \in Int /\ e \in Int /\ i \in Int /\ k \in Int /\ y \in Int
    /\ b = y \div 100 /\ c = y % 100 /\ d = b \div 4 /\ e = b % 4 /\ i = c \div 4 /\ k = c % 4

\* The first of March by century and year of the century, up to whole weeks.
LEMMA MarchWeek ==
    ASSUME NEW y, NEW b, NEW c, NEW d, NEW e, NEW i, NEW k, Parted(y, b, c, d, e, i, k)
    PROVE  /\ e \in 0..3 /\ k \in 0..3
           /\ March(y) = 146097 * d + 36524 * e + 1461 * i + 365 * k - 719468
<1>0. /\ b \in Int /\ c \in Int /\ d \in Int /\ e \in Int /\ i \in Int /\ k \in Int /\ y \in Int
      /\ b = y \div 100 /\ c = y % 100 /\ d = b \div 4 /\ e = b % 4 /\ i = c \div 4 /\ k = c % 4
  BY DEF Parted
<1>1. c \in 0..99 /\ e \in 0..3 /\ k \in 0..3 /\ y = 100 * b + c /\ b = 4 * d + e /\ c = 4 * i + k
  BY <1>0
<1>2. i \in 0..24
  BY <1>0, <1>1
<1>3. y \div 4 = 25 * b + i
  <2> DEFINE q == 25 * b + i
  <2>1. q \in Int /\ 4 * q <= y /\ y <= 4 * q + 3
    BY <1>0, <1>1
  <2> HIDE DEF q
  <2>2. y \div 4 = q
    BY <1>0, <2>1, ByFour
  <2> QED BY <2>2 DEF q
<1>4. y \div 400 = d
  <2>1. 400 * d <= y /\ y <= 400 * d + 399
    BY <1>0, <1>1
  <2> QED BY <1>0, <2>1, ByEra
<1>5. y \div 100 = b
  BY <1>0
<1> QED BY <1>0, <1>1, <1>3, <1>4, <1>5 DEF March

\* What the last steps of the computus come to.
Computed(a, h, ell) == h + ell - 7 * ((a + 11 * h + 22 * ell) \div 451)
Lands(a, h, ell) ==
    /\ Computed(a, h, ell) \in 0..34
    /\ Computed(a, h, ell) = IF h >= 28 /\ ell = 6 THEN h + ell - 7 ELSE h + ell
Epact(a, h) == a \in 0..18 /\ h \in 0..29 /\ (h = 28 => a > 10)

\* The last division of the computus is the exception of the two epacts.
LEMMA Computus ==
    ASSUME NEW a, NEW h, Epact(a, h), NEW ell \in 0..6
    PROVE  Lands(a, h, ell)
<1> DEFINE m == (a + 11 * h + 22 * ell) \div 451
<1>0. a \in 0..18 /\ h \in 0..29 /\ (h = 28 => a > 10)
  BY DEF Epact
<1>1. CASE h >= 28 /\ ell = 6
  <2>1. a + 11 * h + 22 * ell \in 451..901
    BY <1>0, <1>1
  <2>2. m = 1
    BY <2>1
  <2> QED BY <1>0, <1>1, <2>2 DEF Computed, Lands
<1>2. CASE ~(h >= 28 /\ ell = 6)
  <2>1. a + 11 * h + 22 * ell \in 0..450
    BY <1>0, <1>2
  <2>2. m = 0
    BY <2>1
  <2> QED BY <1>0, <1>2, <2>2 DEF Computed, Lands
<1> QED BY <1>1, <1>2

\* Days of spring, from the first of March on.
LEMMA Spring ==
    ASSUME NEW y \in Int, NEW x \in 0..34
    PROVE  Date(y, (x + 114) \div 31, ((x + 114) % 31) + 1) = March(y) + 21 + x
<1>6. \A m \in 3..12 : \A d \in Int : Date(y, m, d) = March(y) + (153 * (m - 3) + 2) \div 5 + d - 1
  BY FromMarch
<1> DEFINE n == x + 114
           month == n \div 31
           day == (n % 31) + 1
<1>1. n \in 114..148 /\ March(y) \in Int
  BY YearLength
<1>2. month \in 3..4 /\ day \in 1..31 /\ n = 31 * month + (day - 1)
  BY <1>1
<1>4. (153 * (month - 3) + 2) \div 5 = 31 * (month - 3)
  BY <1>2
<1> HIDE DEF month, day, n
<1>0. month \in 3..12 /\ day \in Int
  BY <1>2
<1>3. Date(y, month, day) = March(y) + (153 * (month - 3) + 2) \div 5 + day - 1
  BY <1>0, <1>6
<1>5. Date(y, month, day) = March(y) + 21 + x
  BY <1>1, <1>2, <1>3, <1>4 DEF n
<1> QED BY <1>5 DEF month, day, n

\* What Easter comes to: a, the epact h, ell days to the Sunday, K weeks.
EasterBy(y, a, h, ell, K) ==
    /\ a \in 0..18 /\ h \in 0..29 /\ ell \in 0..6 /\ K \in Int
    /\ EasterSunday(y) = March(y) + 21 + Computed(a, h, ell)
    /\ a = y % 19 /\ h = (19 * a + 24) % 30
    /\ March(y) + 24 + h + ell = 7 * K + 6

\* Easter is a Sunday between the twenty-second of March and the twenty-fifth of
\* April: that on which the weeks from the first of March end.
LEMMA Easter ==
    ASSUME NEW y \in TableYears
    PROVE  \E a, h, ell, K : EasterBy(y, a, h, ell, K)
<1> DEFINE a == y % 19
           b == y \div 100
           c == y % 100
           d == b \div 4
           e == b % 4
           f == (b + 8) \div 25
           g == (b - f + 1) \div 3
           h == (19 * a + b - d - g + 15) % 30
           i == c \div 4
           k == c % 4
           ell == (32 + 2 * e + 2 * i - h - k) % 7
           m == (a + 11 * h + 22 * ell) \div 451
           n == h + ell - 7 * m + 114
<1>1. EasterSunday(y) = Date(y, n \div 31, (n % 31) + 1)
  BY DEF EasterSunday
<1>2. /\ a \in 0..18 /\ b \in Int /\ c \in Int /\ d \in Int /\ e \in Int /\ f \in Int /\ g \in Int
      /\ i \in Int /\ k \in Int /\ y \in Int
      /\ b = y \div 100 /\ c = y % 100 /\ d = b \div 4 /\ e = b % 4 /\ i = c \div 4 /\ k = c % 4
      /\ f = (b + 8) \div 25 /\ g = (b - f + 1) \div 3
  BY DEF TableYears
<1> HIDE DEF a, b, c, d, e, f, g, i, k
<1>3. b - d - g + 15 = 24
  <2>1. /\ b \in Int /\ d \in Int /\ f \in Int /\ g \in Int
        /\ b = y \div 100 /\ d = b \div 4 /\ f = (b + 8) \div 25 /\ g = (b - f + 1) \div 3
    BY <1>2
  <2> QED BY ONLY <2>1, CenturyMoon
<1>4. March(y) = 146097 * d + 36524 * e + 1461 * i + 365 * k - 719468
  <2>1. Parted(y, b, c, d, e, i, k)
    BY <1>2 DEF Parted
  <2> QED BY <2>1, MarchWeek
<1>5. 19 * a + b - d - g + 15 = 19 * a + 24
  BY <1>2, <1>3
<1>6. h = (19 * a + 24) % 30 /\ h \in 0..29
  BY <1>2, <1>5
<1> HIDE DEF h
<1> DEFINE t == (32 + 2 * e + 2 * i - h - k) \div 7
<1>7. t \in Int /\ ell \in 0..6 /\ 32 + 2 * e + 2 * i - h - k = 7 * t + ell
  BY <1>2, <1>6
<1> HIDE DEF t, ell
<1> DEFINE K == 20871 * d + 5218 * e + 209 * i + 52 * k - 102774 - t
<1>8. K \in Int /\ March(y) + 24 + h + ell = 7 * K + 6
  BY <1>2, <1>4, <1>6, <1>7
<1>9. n = Computed(a, h, ell) + 114 /\ Computed(a, h, ell) \in 0..34
  <2>1. h = 28 => a > 10
    BY <1>2, <1>6, Moons
  <2>2. Epact(a, h)
    BY <1>2, <1>6, <2>1 DEF Epact
  <2>3. Lands(a, h, ell)
    BY <1>7, <2>2, Computus
  <2> QED BY <2>3 DEF Lands, Computed
<1>10. EasterSunday(y) = March(y) + 21 + Computed(a, h, ell)
  <2> DEFINE x == Computed(a, h, ell)
  <2>1. n = x + 114 /\ x \in 0..34 /\ y \in Int
    BY <1>2, <1>9
  <2> HIDE DEF n, x
  <2>2. EasterSunday(y) = Date(y, (x + 114) \div 31, ((x + 114) % 31) + 1)
    BY <1>1, <2>1
  <2>3. EasterSunday(y) = March(y) + 21 + x
    BY <2>1, <2>2, Spring
  <2> QED BY <2>3 DEF x
<1> HIDE DEF K
<1>11. a = y % 19
  BY DEF a
<1>12. EasterBy(y, a, h, ell, K)
  BY <1>2, <1>6, <1>7, <1>8, <1>10, <1>11 DEF EasterBy
<1> QED BY <1>12

\* Easter by the program is Easter by the table.
LEMMA EasterAgrees ==
    ASSUME NEW y \in TableYears
    PROVE  /\ EasterSunday(y) = EasterByTable(y)
           /\ EasterSunday(y) - March(y) \in 21..55 /\ Weekday(GoodFriday(y)) = 4
<1>0. PICK a, h, ell, K : EasterBy(y, a, h, ell, K)
  BY Easter
<1>1. /\ a \in 0..18 /\ h \in 0..29 /\ ell \in 0..6 /\ K \in Int
      /\ EasterSunday(y) = March(y) + 21 + Computed(a, h, ell)
      /\ a = y % 19 /\ h = (19 * a + 24) % 30
      /\ March(y) + 24 + h + ell = 7 * K + 6
  BY <1>0 DEF EasterBy
<1>2. /\ (h = 28 => a > 10) /\ PaschalMoon[a + 1] = IF h >= 28 THEN h - 1 ELSE h
  BY <1>1, Moons
<1>3. Computed(a, h, ell) \in 0..34 /\ Computed(a, h, ell) = IF h >= 28 /\ ell = 6 THEN h + ell - 7 ELSE h + ell
  <2>1. Epact(a, h) /\ ell \in 0..6
    BY <1>1, <1>2 DEF Epact
  <2>2. Lands(a, h, ell)
    BY <2>1, Computus
  <2> QED BY <2>2 DEF Lands
<1> DEFINE moon == March(y) + 20 + PaschalMoon[a + 1]
           w == Weekday(moon)
<1>4. March(y) \in Int /\ Date(y, 3, 21) = March(y) + 20
  BY YearDays DEF TableYears
<1>5. moon \in Int /\ EasterByTable(y) = moon + 7 - ((w - 6) % 7)
  BY <1>1, <1>2, <1>4 DEF EasterByTable
<1>6. PICK j \in Int : moon + 3 = 7 * j + w /\ w \in 0..6
  BY <1>5, SevenDays
<1>7. moon + 3 = 7 * K + 5 - ell - (IF h >= 28 THEN 1 ELSE 0)
  BY <1>1, <1>2, <1>4
<1> HIDE DEF moon, w
<1>8. (w - 6) % 7 = IF w = 6 THEN 0 ELSE w + 1
  BY <1>6
<1>9. EasterByTable(y) = moon + 7 - (IF w = 6 THEN 0 ELSE w + 1)
  BY <1>5, <1>8
<1>10. EasterSunday(y) = EasterByTable(y)
  <2>1. CASE h >= 28
    <3>1. moon = March(y) + 19 + h /\ 7 * j + w = 7 * K + 4 - ell
      BY <1>1, <1>2, <1>4, <1>6, <1>7, <2>1 DEF moon
    <3>2. w = IF ell <= 4 THEN 4 - ell ELSE 11 - ell
      <4>0. j \in Int /\ K \in Int /\ ell \in 0..6 /\ w \in 0..6 /\ 7 * (j - K) = 4 - ell - w
        BY <1>1, <1>6, <3>1
      <4>1. CASE ell <= 4
        <5>1. j = K
          BY <4>0, <4>1
        <5> QED BY <4>0, <4>1, <5>1
      <4>2. CASE ell > 4
        <5>1. j = K - 1
          BY <4>0, <4>2
        <5> QED BY <4>0, <4>2, <5>1
      <4> QED BY <4>0, <4>1, <4>2
    <3>3. EasterSunday(y) = March(y) + 21 + (IF ell = 6 THEN h - 1 ELSE h + ell)
      BY <1>1, <1>3, <1>4, <2>1
    <3>4. EasterByTable(y) = March(y) + 21 + (IF ell = 6 THEN h - 1 ELSE h + ell)
      BY <1>1, <1>4, <1>9, <3>1, <3>2
    <3> QED BY <3>3, <3>4
  <2>2. CASE ~(h >= 28)
    <3>1. moon = March(y) + 20 + h /\ 7 * j + w = 7 * K + 5 - ell
      BY <1>1, <1>2, <1>4, <1>6, <1>7, <2>2 DEF moon
    <3>2. w = IF ell <= 5 THEN 5 - ell ELSE 6
      <4>0. j \in Int /\ K \in Int /\ ell \in 0..6 /\ w \in 0..6 /\ 7 * (j - K) = 5 - ell - w
        BY <1>1, <1>6, <3>1
      <4>1. CASE ell <= 5
        <5>1. j = K
          BY <4>0, <4>1
        <5> QED BY <4>0, <4>1, <5>1
      <4>2. CASE ell > 5
        <5>1. j = K - 1
          BY <4>0, <4>2
        <5> QED BY <4>0, <4>2, <5>1
      <4> QED BY <4>0, <4>1, <4>2
    <3>3. EasterSunday(y) = March(y) + 21 + h + ell
      BY <1>1, <1>3, <1>4, <2>2
    <3>4. EasterByTable(y) = March(y) + 21 + h + ell
      BY <1>1, <1>4, <1>9, <3>1, <3>2
    <3> QED BY <3>3, <3>4
  <2> QED BY <2>1, <2>2
<1>11. EasterSunday(y) - March(y) \in 21..55
  <2> DEFINE x == Computed(a, h, ell)
  <2>1. x \in 0..34 /\ March(y) \in Int /\ EasterSunday(y) = March(y) + 21 + x
    BY <1>1, <1>3, <1>4
  <2> HIDE DEF x
  <2> QED BY <2>1
<1>12. Weekday(GoodFriday(y)) = 4
  <2> DEFINE q == EasterSunday(y) - 2
  <2>1. \E z \in Int : q + 3 = 7 * z + 4
    <3>1. CASE h >= 28 /\ ell = 6
      <4> DEFINE z == K - 1
      <4>1. q + 3 = 7 * z + 4 /\ z \in Int
        BY <1>1, <1>3, <1>4, <3>1
      <4> HIDE DEF q, z
      <4> QED BY <4>1
    <3>2. CASE ~(h >= 28 /\ ell = 6)
      <4>1. q + 3 = 7 * K + 4 /\ K \in Int
        BY <1>1, <1>3, <1>4, <3>2
      <4> HIDE DEF q
      <4> QED BY <4>1
    <3> QED BY <3>1, <3>2
  <2>2. q \in Int /\ GoodFriday(y) = q
    <3>1. EasterSunday(y) \in Int
      BY <1>1, <1>3, <1>4
    <3> QED BY <3>1 DEF GoodFriday
  <2> HIDE DEF q
  <2> QED BY <2>1, <2>2 DEF Weekday
<1> QED BY <1>10, <1>11, <1>12

\* The years of the epoch for which the table of full moons holds.
Civil == 1970..2199
\* Those of them that have a following one.
EpochYears == 1970..2198

\* The ten holidays of a year, in their order, each within its week or month.
HolidayList(y) ==
    <<ObservedDate(Date(y, 1, 1)), NthWeekday(y, 1, 0, 3), NthWeekday(y, 2, 0, 3), GoodFriday(y),
      LastWeekday(y, 5, 0), ObservedDate(Date(y, 6, 19)), ObservedDate(Date(y, 7, 4)),
      NthWeekday(y, 9, 0, 1), NthWeekday(y, 11, 3, 4), ObservedDate(Date(y, 12, 25))>>
Placed(h, first, march) ==
    /\ h[1] - first \in -1..1 /\ h[2] - first \in 14..20 /\ h[3] - first \in 45..51
    /\ h[4] - march \in 19..53 /\ h[5] - march \in 85..91 /\ h[6] - march \in 109..111
    /\ h[7] - march \in 124..126 /\ h[8] - march \in 184..190 /\ h[9] - march \in 266..272
    /\ h[10] - march \in 298..300

\* The holidays of a year are in their places, and no two of them within a week.
LEMMA HolidaysPlaced ==
    ASSUME NEW y \in Civil
    PROVE  /\ Holidays(y) = {HolidayList(y)[i] : i \in 1..10}
           /\ \A i \in 1..10 : HolidayList(y)[i] \in Int /\ Weekday(HolidayList(y)[i]) < 5
           /\ Placed(HolidayList(y), FirstDay(y), March(y))
           /\ HolidayList(y)[1] < FirstDay(y) <=> Weekday(FirstDay(y)) = 5
<1>1. y \in Int /\ y \in TableYears
  BY DEF Civil, TableYears
<1>2. /\ FirstDay(y) \in Int /\ March(y) \in Int
      /\ March(y) - FirstDay(y) \in {59, 60}
      /\ Date(y, 2, 1) = FirstDay(y) + 31
      /\ Date(y, 6, 1) = March(y) + 92 /\ Date(y, 6, 19) = March(y) + 110
      /\ Date(y, 7, 4) = March(y) + 125 /\ Date(y, 9, 1) = March(y) + 184
      /\ Date(y, 11, 1) = March(y) + 245 /\ Date(y, 12, 25) = March(y) + 299
  BY <1>1, YearDays
<1> DEFINE h == HolidayList(y)
           Fixed(x, d) == x \in {d - 1, d, d + 1} /\ Weekday(x) < 5
           Falls(x, d) == x \in Int /\ x - d \in 0..6 /\ Weekday(x) < 5
<1>3. /\ h[1] = ObservedDate(FirstDay(y)) /\ h[2] = NthWeekday(y, 1, 0, 3) /\ h[3] = NthWeekday(y, 2, 0, 3)
      /\ h[4] = GoodFriday(y) /\ h[5] = LastWeekday(y, 5, 0) /\ h[6] = ObservedDate(Date(y, 6, 19))
      /\ h[7] = ObservedDate(Date(y, 7, 4)) /\ h[8] = NthWeekday(y, 9, 0, 1) /\ h[9] = NthWeekday(y, 11, 3, 4)
      /\ h[10] = ObservedDate(Date(y, 12, 25))
  BY DEF HolidayList, FirstDay
<1>4. Holidays(y) = {h[i] : i \in 1..10}
  <2>1. Holidays(y) = {h[1], h[2], h[3], h[4], h[5], h[6], h[7], h[8], h[9], h[10]}
    BY <1>3 DEF Holidays, FirstDay
  <2> HIDE DEF h
  <2> QED BY <2>1
<1> HIDE DEF h
<1>5. Fixed(h[1], FirstDay(y)) /\ (h[1] < FirstDay(y) <=> Weekday(FirstDay(y)) = 5)
  BY <1>2, <1>3, Observed
<1>6. Fixed(h[6], March(y) + 110) /\ Fixed(h[7], March(y) + 125) /\ Fixed(h[10], March(y) + 299)
  <2>1. March(y) + 110 \in Int /\ March(y) + 125 \in Int /\ March(y) + 299 \in Int
    BY <1>2
  <2> QED BY <1>2, <1>3, <2>1, Observed
<1>7. /\ Falls(h[2], FirstDay(y) + 14) /\ Falls(h[3], FirstDay(y) + 45)
      /\ Falls(h[8], March(y) + 184) /\ Falls(h[9], March(y) + 266)
  <2>0. PICK zero \in 0..4, third \in 0..4, one \in Nat, three \in Nat, four \in Nat :
          zero = 0 /\ third = 3 /\ one = 1 /\ three = 3 /\ four = 4
    OBVIOUS
  <2>1. \A month : \A w \in 0..4 : \A n \in Nat :
          Date(y, month, 1) \in Int => Falls(NthWeekday(y, month, w, n), Date(y, month, 1) + 7 * (n - 1))
    <3>1. SUFFICES ASSUME NEW month, NEW w \in 0..4, NEW n \in Nat, Date(y, month, 1) \in Int
                   PROVE  Falls(NthWeekday(y, month, w, n), Date(y, month, 1) + 7 * (n - 1))
      OBVIOUS
    <3> DEFINE first == Date(y, month, 1)
    <3>2. first \in Int /\ first = Date(y, month, 1)
      BY <3>1
    <3> HIDE DEF first
    <3>3. Falls(NthWeekday(y, month, w, n), first + 7 * (n - 1))
      BY <1>1, <3>2, NthIsOf
    <3> QED BY <3>3 DEF first
  <2> HIDE DEF Falls
  <2>2. FirstDay(y) = Date(y, 1, 1) /\ FirstDay(y) + 31 \in Int /\ March(y) + 184 \in Int /\ March(y) + 245 \in Int
    BY <1>2 DEF FirstDay
  <2>3. Falls(NthWeekday(y, 1, zero, three), FirstDay(y) + 7 * (three - 1))
    BY <1>2, <2>1, <2>2
  <2>4. Falls(NthWeekday(y, 2, zero, three), (FirstDay(y) + 31) + 7 * (three - 1))
    BY <1>2, <2>1, <2>2
  <2>5. Falls(NthWeekday(y, 9, zero, one), (March(y) + 184) + 7 * (one - 1))
    BY <1>2, <2>1, <2>2
  <2>6. Falls(NthWeekday(y, 11, third, four), (March(y) + 245) + 7 * (four - 1))
    BY <1>2, <2>1, <2>2
  <2>7. /\ FirstDay(y) + 7 * (three - 1) = FirstDay(y) + 14
        /\ (FirstDay(y) + 31) + 7 * (three - 1) = FirstDay(y) + 45
        /\ (March(y) + 184) + 7 * (one - 1) = March(y) + 184
        /\ (March(y) + 245) + 7 * (four - 1) = March(y) + 266
    BY <1>2, <2>0
  <2> QED BY <1>3, <2>0, <2>3, <2>4, <2>5, <2>6, <2>7
<1>8. h[5] \in Int /\ March(y) + 91 - h[5] \in 0..6 /\ Weekday(h[5]) < 5
  <2>0. PICK zero \in 0..4, five \in Int : zero = 0 /\ five = 5
    OBVIOUS
  <2>1. LastOfMonth(y, five) = March(y) + 91
    BY <1>2, <2>0 DEF LastOfMonth
  <2>2. March(y) + 91 \in Int
    BY <1>2
  <2> DEFINE last == March(y) + 91
  <2> HIDE DEF last
  <2>3. /\ LastWeekday(y, five, zero) \in Int /\ last - LastWeekday(y, five, zero) \in 0..6
        /\ Weekday(LastWeekday(y, five, zero)) < 5
    <3>1. y \in Int /\ last \in Int /\ last = LastOfMonth(y, five) /\ zero \in 0..4
      BY <1>1, <2>1, <2>2 DEF last
    <3> QED BY ONLY <3>1, LastIsOf
  <2>4. h[5] = LastWeekday(y, five, zero)
    BY <1>3, <2>0
  <2> QED BY <1>2, <2>3, <2>4 DEF last
<1>9. h[4] \in Int /\ h[4] - March(y) \in 19..53 /\ Weekday(h[4]) < 5
  <2>1. EasterSunday(y) - March(y) \in 21..55 /\ Weekday(GoodFriday(y)) = 4
    BY <1>1, EasterAgrees
  <2>2. PICK a, g, ell, K : EasterBy(y, a, g, ell, K)
    BY <1>1, Easter
  <2>3. EasterSunday(y) \in Int
    BY <1>2, <2>2 DEF EasterBy, Computed
  <2> QED BY <1>2, <1>3, <2>1, <2>3 DEF GoodFriday
<1>10. Placed(h, FirstDay(y), March(y))
  BY <1>2, <1>5, <1>6, <1>7, <1>8, <1>9 DEF Placed
<1>11. \A i \in 1..10 : h[i] \in Int /\ Weekday(h[i]) < 5
  <2>1. \A i \in 1..10 : i = 1 \/ i = 2 \/ i = 3 \/ i = 4 \/ i = 5 \/ i = 6 \/ i = 7 \/ i = 8 \/ i = 9 \/ i = 10
    OBVIOUS
  <2>2. /\ h[1] \in Int /\ Weekday(h[1]) < 5 /\ h[6] \in Int /\ Weekday(h[6]) < 5
        /\ h[7] \in Int /\ Weekday(h[7]) < 5 /\ h[10] \in Int /\ Weekday(h[10]) < 5
    BY <1>2, <1>5, <1>6
  <2>3. /\ h[2] \in Int /\ Weekday(h[2]) < 5 /\ h[3] \in Int /\ Weekday(h[3]) < 5
        /\ h[8] \in Int /\ Weekday(h[8]) < 5 /\ h[9] \in Int /\ Weekday(h[9]) < 5
    BY <1>7
  <2> QED BY <1>8, <1>9, <2>1, <2>2, <2>3
<1> QED BY <1>4, <1>5, <1>10, <1>11 DEF h

\* No two of the ten are within twelve days.
LEMMA HolidaysApart ==
    ASSUME NEW h, NEW first \in Int, NEW march \in Int, march - first \in {59, 60}, Placed(h, first, march),
           \A i \in 1..10 : h[i] \in Int, NEW i \in 1..10, NEW j \in 1..10, i < j
    PROVE  h[j] - h[i] >= 13
<1>1. \A k \in 1..9 : h[k + 1] - h[k] >= 13
  <2>1. /\ h[2] - h[1] >= 13 /\ h[3] - h[2] >= 13 /\ h[4] - h[3] >= 13 /\ h[5] - h[4] >= 13
    BY DEF Placed
  <2>2. /\ h[6] - h[5] >= 13 /\ h[7] - h[6] >= 13 /\ h[8] - h[7] >= 13 /\ h[9] - h[8] >= 13 /\ h[10] - h[9] >= 13
    BY DEF Placed
  <2>3. \A k \in 1..9 : k = 1 \/ k = 2 \/ k = 3 \/ k = 4 \/ k = 5 \/ k = 6 \/ k = 7 \/ k = 8 \/ k = 9
    OBVIOUS
  <2> QED BY <2>1, <2>2, <2>3
<1> QED BY <1>1

\* Years ascend, and the search of YearOf covers the year of a day.
LEMMA YearsAscend ==
    ASSUME NEW y \in Int, NEW z \in Int, z <= y
    PROVE  FirstDay(z) \in Int /\ FirstDay(y) \in Int /\ FirstDay(z) <= FirstDay(y)
<1> DEFINE u == y - 1
           v == z - 1
<1>1. u \in Int /\ v \in Int /\ v <= u /\ u + 1 = y /\ v + 1 = z
  OBVIOUS
<1> HIDE DEF u, v
<1>2. FirstDay(u + 1) = March(u) + 306 /\ FirstDay(v + 1) = March(v) + 306 /\ March(u) \in Int /\ March(v) \in Int
  BY <1>1, YearDays
<1> DEFINE a == u \div 4
           b == u \div 100
           c == u \div 400
           a2 == v \div 4
           b2 == v \div 100
           c2 == v \div 400
<1>3. a \in Int /\ b \in Int /\ c \in Int /\ a2 \in Int /\ b2 \in Int /\ c2 \in Int
  BY <1>1
<1>4. March(u) = 365 * u + a - b + c - 719468 /\ March(v) = 365 * v + a2 - b2 + c2 - 719468
  BY DEF March
<1>5. 4 * a <= u /\ u <= 4 * a + 3 /\ 4 * a2 <= v /\ v <= 4 * a2 + 3
  BY <1>1
<1>6. 100 * b <= u /\ u <= 100 * b + 99 /\ 100 * b2 <= v /\ v <= 100 * b2 + 99
  BY <1>1
<1>7. 400 * c <= u /\ u <= 400 * c + 399 /\ 400 * c2 <= v /\ v <= 400 * c2 + 399
  BY <1>1
<1> HIDE DEF a, b, c, a2, b2, c2
<1>8. a2 <= a /\ c2 <= c /\ b - b2 <= u - v
  BY <1>1, <1>3, <1>5, <1>6, <1>7
<1> QED BY <1>1, <1>2, <1>3, <1>4, <1>8

\* The first day of a year from the first of March before.
LEMMA NewYears == \A z \in Int : FirstDay(z + 1) = March(z) + 306 /\ March(z) \in Int
BY YearDays

\* The year of a day is the one whose days it is among.
LEMMA YearOfDay ==
    ASSUME NEW y \in Civil, NEW day \in FirstDay(y)..(FirstDay(y + 1) - 1)
    PROVE  YearOf(day) = y
<1>0. y \in Int /\ y >= 1970 /\ y <= 2199
  BY DEF Civil
<1>1. y - 1 \in Int /\ y + 1 \in Int /\ FirstDay(y) \in Int /\ FirstDay(y + 1) \in Int /\ (y - 1) + 1 = y
  <2>1. \A z \in Int : FirstDay(z) \in Int
    BY YearDays
  <2> QED BY <1>0, <2>1
<1>2. /\ FirstDay(y) = March(y - 1) + 306 /\ FirstDay(y + 1) = March(y) + 306
      /\ March(y - 1) \in Int /\ March(y) \in Int
  <2> DEFINE x == y - 1
  <2>1. x \in Int /\ x + 1 = y
    BY <1>0
  <2> HIDE DEF x
  <2>2. FirstDay(x + 1) = March(x) + 306 /\ March(x) \in Int
    BY <2>1, NewYears
  <2>3. FirstDay(y + 1) = March(y) + 306 /\ March(y) \in Int
    BY <1>0, NewYears
  <2> QED BY <2>1, <2>2, <2>3 DEF x
<1>3. day \in Int /\ FirstDay(y) <= day /\ day < FirstDay(y + 1)
  BY <1>1
<1>4. 365 * (y - 1971) <= day
  <2> DEFINE u == y - 1
             a == u \div 4
             b == u \div 100
             c == u \div 400
  <2>1. u \in 1969..2198
    BY <1>0
  <2>2. a \in Int /\ b \in Int /\ c \in Int /\ a >= 492 /\ b <= 21 /\ c >= 4
    BY <2>1
  <2>3. March(u) = 365 * u + a - b + c - 719468
    BY DEF March
  <2> HIDE DEF a, b, c
  <2>4. March(u) >= 365 * u + 475 - 719468
    BY <2>1, <2>2, <2>3
  <2> QED BY <1>0, <1>1, <1>2, <1>3, <2>4
<1>5. day < 366 * (y - 1969)
  <2> DEFINE a == y \div 4
             b == y \div 100
             c == y \div 400
  <2>1. a \in Int /\ b \in Int /\ c \in Int /\ 4 * a <= y /\ b >= 19 /\ c <= 5 /\ (c = 5 => y >= 2000) /\ (y >= 2000 => b >= 20)
    BY <1>0
  <2>2. March(y) = 365 * y + a - b + c - 719468
    BY DEF March
  <2> HIDE DEF a, b, c
  <2>3. a - b + c <= y - 1492
    BY <1>0, <2>1
  <2> QED BY <1>0, <1>1, <1>2, <1>3, <2>1, <2>2, <2>3
<1>6. y \in (day \div 366 + 1970)..(day \div 365 + 1971)
  <2> DEFINE p == day \div 366
             q == day \div 365
  <2>1. p \in Int /\ q \in Int /\ 366 * p <= day /\ day < 365 * (q + 1)
    BY <1>3
  <2> HIDE DEF p, q
  <2>2. p + 1970 <= y /\ y <= q + 1971
    BY <1>0, <1>3, <1>4, <1>5, <2>1
  <2>3. p + 1970 \in Int /\ q + 1971 \in Int
    BY <2>1
  <2>4. y \in (p + 1970)..(q + 1971)
    BY <1>0, <2>2, <2>3
  <2> QED BY <2>4 DEF p, q
<1>7. \A z \in Int : Date(z, 1, 1) <= day /\ day < Date(z + 1, 1, 1) => z = y
  <2>1. SUFFICES ASSUME NEW z \in Int, FirstDay(z) <= day, day < FirstDay(z + 1), z # y
                 PROVE  FALSE
    BY DEF FirstDay
  <2>2. CASE z < y
    <3> DEFINE z1 == z + 1
    <3>1. z1 \in Int /\ z1 <= y
      BY <1>0, <2>2
    <3> HIDE DEF z1
    <3>2. FirstDay(z1) <= FirstDay(y) /\ FirstDay(z1) \in Int
      BY <1>0, <3>1, YearsAscend
    <3> QED BY <1>1, <1>3, <2>1, <3>2 DEF z1
  <2>3. CASE y < z
    <3> DEFINE y1 == y + 1
    <3>1. y1 \in Int /\ y1 <= z
      BY <1>0, <2>3
    <3> HIDE DEF y1
    <3>2. FirstDay(y1) <= FirstDay(z) /\ FirstDay(z) \in Int
      BY <1>0, <3>1, YearsAscend
    <3> QED BY <1>1, <1>3, <2>1, <3>2 DEF y1
  <2> QED BY <1>0, <2>1, <2>2, <2>3
<1>8. \A z \in (day \div 366 + 1970)..(day \div 365 + 1971) : z \in Int
  BY <1>3
<1>9. Date(y, 1, 1) <= day /\ day < Date(y + 1, 1, 1)
  BY <1>3 DEF FirstDay
<1> QED BY <1>6, <1>7, <1>8, <1>9 DEF YearOf

\* A weekday without trading is one of the ten holidays of its own year.
LEMMA ShutDays ==
    ASSUME NEW y \in Civil, NEW day \in FirstDay(y)..(FirstDay(y + 1) - 1)
    PROVE  Weekday(day) < 5 /\ ~IsTradingDay(day) <=> \E i \in 1..10 : day = HolidayList(y)[i]
<1>1. YearOf(day) = y
  BY YearOfDay
<1>2. Holidays(y) = {HolidayList(y)[i] : i \in 1..10} /\ \A i \in 1..10 : Weekday(HolidayList(y)[i]) < 5
  BY HolidaysPlaced
<1> QED BY <1>1, <1>2 DEF IsTradingDay

\* Of four days in a row two are weekdays.
LEMMA TwoWeekdays ==
    ASSUME NEW d \in Int
    PROVE  \E p \in d..(d + 3), q \in d..(d + 3) : p < q /\ Weekday(p) < 5 /\ Weekday(q) < 5
<1>1. PICK k \in Int : d + 3 = 7 * k + Weekday(d) /\ Weekday(d) \in 0..6
  BY SevenDays
<1> DEFINE w == Weekday(d)
<1>2. \A x \in 0..3 : Weekday(d + x) = IF w + x < 7 THEN w + x ELSE w + x - 7
  <2>1. SUFFICES ASSUME NEW x \in 0..3
                 PROVE  Weekday(d + x) = IF w + x < 7 THEN w + x ELSE w + x - 7
    OBVIOUS
  <2> HIDE DEF w
  <2>2. d + x + 3 = 7 * k + (w + x) /\ w \in 0..6
    BY <1>1 DEF w
  <2>3. Weekday(d + x) = (d + x + 3) % 7
    BY DEF Weekday
  <2> QED BY <2>2, <2>3
<1>3. w \in 0..6
  BY <1>1
<1> HIDE DEF w
<1>4. CASE w <= 3
  <2>1. Weekday(d + 0) < 5 /\ Weekday(d + 1) < 5 /\ d + 0 < d + 1
    BY <1>2, <1>3, <1>4
  <2> QED BY <2>1
<1>5. CASE w = 4
  <2>1. Weekday(d + 0) < 5 /\ Weekday(d + 3) < 5 /\ d + 0 < d + 3
    BY <1>2, <1>5
  <2> QED BY <2>1
<1>6. CASE w = 5
  <2>1. Weekday(d + 2) < 5 /\ Weekday(d + 3) < 5 /\ d + 2 < d + 3
    BY <1>2, <1>6
  <2> QED BY <2>1
<1>7. CASE w = 6
  <2>1. Weekday(d + 1) < 5 /\ Weekday(d + 2) < 5 /\ d + 1 < d + 2
    BY <1>2, <1>7
  <2> QED BY <2>1
<1> QED BY <1>3, <1>4, <1>5, <1>6, <1>7

\* As many as are numbered one by one.
LEMMA NumberedOnce ==
    ASSUME NEW m \in Int, NEW n \in Nat, NEW h, NEW S, S = {h[i] : i \in (m + 1)..(m + n)},
           \A i, j \in (m + 1)..(m + n) : h[i] = h[j] => i = j
    PROVE  Cardinality(S) = n
<1> DEFINE f == [x \in 1..n |-> h[m + x]]
<1>1. f \in [1..n -> S]
  OBVIOUS
<1>2. \A x, z \in 1..n : f[x] = f[z] => x = z
  <2>1. SUFFICES ASSUME NEW x \in 1..n, NEW z \in 1..n, h[m + x] = h[m + z] PROVE x = z
    OBVIOUS
  <2>2. m + x \in (m + 1)..(m + n) /\ m + z \in (m + 1)..(m + n)
    OBVIOUS
  <2>3. m + x = m + z
    BY <2>1, <2>2
  <2> QED BY <2>3
<1>3. \A s \in S : \E x \in 1..n : f[x] = s
  <2>1. SUFFICES ASSUME NEW i \in (m + 1)..(m + n) PROVE \E x \in 1..n : f[x] = h[i]
    OBVIOUS
  <2>2. i - m \in 1..n /\ m + (i - m) = i
    OBVIOUS
  <2> QED BY <2>2
<1>4. f \in Bijection(1..n, S)
  <2> HIDE DEF f
  <2> QED BY <1>1, <1>2, <1>3 DEF Bijection, Injection, Surjection, IsInjective
<1>5. ExistsBijection(1..n, S)
  BY <1>4 DEF ExistsBijection
<1> QED BY <1>5, FS_CountingElements

\* Two weekdays without trading that follow one another are at least six days apart.
LEMMA ShutApart ==
    ASSUME NEW y \in Civil, y + 1 \in Civil, NEW p \in Int, NEW q \in Int, p < q,
           FirstDay(y) <= p, q < FirstDay(y + 1) + 4,
           Weekday(p) < 5, ~IsTradingDay(p), Weekday(q) < 5, ~IsTradingDay(q)
    PROVE  q - p >= 6
<1> DEFINE z == y + 1
           g == HolidayList(y)
           h == HolidayList(z)
<1>1. y \in Int /\ z \in Int /\ z \in Civil
  BY DEF Civil
<1>2. /\ FirstDay(y) \in Int /\ March(y) \in Int /\ March(y) - FirstDay(y) \in {59, 60}
      /\ FirstDay(y + 1) = March(y) + 306
  BY <1>1, YearDays
<1> HIDE DEF z
<1>3. /\ FirstDay(z) \in Int /\ March(z) \in Int /\ March(z) - FirstDay(z) \in {59, 60}
      /\ FirstDay(z + 1) = March(z) + 306
  BY <1>1, YearDays
<1>4. FirstDay(z) = March(y) + 306
  BY <1>2 DEF z
<1>5. (\A i \in 1..10 : g[i] \in Int) /\ Placed(g, FirstDay(y), March(y))
  BY HolidaysPlaced
<1>6. (\A i \in 1..10 : h[i] \in Int) /\ Placed(h, FirstDay(z), March(z))
  BY <1>1, HolidaysPlaced
<1>7. \A x \in Int : (FirstDay(y) <= x /\ x < FirstDay(z) /\ Weekday(x) < 5 /\ ~IsTradingDay(x))
                     => \E i \in 1..10 : x = g[i]
  BY <1>2, <1>3, ShutDays DEF z
<1>8. \A x \in Int : (FirstDay(z) <= x /\ x < FirstDay(z) + 4 /\ Weekday(x) < 5 /\ ~IsTradingDay(x))
                     => \E i \in 1..10 : x = h[i]
  <2>1. SUFFICES ASSUME NEW x \in Int, FirstDay(z) <= x, x < FirstDay(z) + 4, Weekday(x) < 5, ~IsTradingDay(x)
                 PROVE  \E i \in 1..10 : x = h[i]
    OBVIOUS
  <2>2. x \in FirstDay(z)..(FirstDay(z + 1) - 1)
    BY <1>3, <2>1
  <2> QED BY <1>1, <2>1, <2>2, ShutDays
<1> HIDE DEF g, h
<1>9. CASE q < FirstDay(z)
  <2>1. PICK i \in 1..10, j \in 1..10 : p = g[i] /\ q = g[j]
    BY <1>2, <1>3, <1>7, <1>9
  <2>2. CASE i < j
    <3>1. g[j] - g[i] >= 13
      BY <1>2, <1>5, <2>2, HolidaysApart
    <3> QED BY <2>1, <3>1
  <2>3. CASE i = j
    BY <2>1, <2>3
  <2>4. CASE j < i
    <3>1. g[i] - g[j] >= 13
      BY <1>2, <1>5, <2>4, HolidaysApart
    <3> QED BY <2>1, <3>1
  <2> QED BY <2>2, <2>3, <2>4
<1>10. CASE FirstDay(z) <= p
  <2>1. PICK i \in 1..10, j \in 1..10 : p = h[i] /\ q = h[j]
    <3>1. FirstDay(z) <= q /\ p < FirstDay(z) + 4 /\ q < FirstDay(z) + 4
      BY <1>3, <1>10 DEF z
    <3> QED BY <1>8, <1>10, <3>1
  <2>2. CASE i < j
    <3>1. h[j] - h[i] >= 13
      BY <1>3, <1>6, <2>2, HolidaysApart
    <3> QED BY <2>1, <3>1
  <2>3. CASE i = j
    BY <2>1, <2>3
  <2>4. CASE j < i
    <3>1. h[i] - h[j] >= 13
      BY <1>3, <1>6, <2>4, HolidaysApart
    <3> QED BY <2>1, <3>1
  <2> QED BY <2>2, <2>3, <2>4
<1>11. CASE p < FirstDay(z) /\ FirstDay(z) <= q
  <2>1. PICK i \in 1..10 : p = g[i]
    BY <1>2, <1>7, <1>11
  <2>2. p <= g[10]
    <3>1. i = 10 \/ i < 10
      OBVIOUS
    <3>2. CASE i < 10
      <4>1. PICK ten \in 1..10 : ten = 10
        OBVIOUS
      <4>2. i < ten
        BY <3>2, <4>1
      <4>3. g[ten] - g[i] >= 13
        BY <1>2, <1>5, <4>2, HolidaysApart
      <4> QED BY <1>5, <2>1, <4>1, <4>3
    <3> QED BY <2>1, <3>1, <3>2
  <2>3. g[10] <= March(y) + 300 /\ g[10] \in Int
    BY <1>2, <1>5 DEF Placed
  <2> QED BY <1>2, <1>4, <1>11, <2>2, <2>3
<1> QED BY <1>3, <1>9, <1>10, <1>11

\* The holidays of every year (_us_equity_holidays and what classifies a gap by
\* them): Easter is the Sunday after the Paschal full moon, no holiday falls on a
\* weekend, ten weekdays of a year are shut, nine when New Year's Day is a Saturday,
\* and of four days in a row one is a trading day, also over the turn of the year.
THEOREM CalendarIsSound ==
    ASSUME NEW y \in EpochYears
    PROVE  CalendarSound(y)
<1> DEFINE next == y + 1
           days == Date(y, 1, 1)..(Date(y + 1, 1, 1) - 1)
           shut == {day \in days : Weekday(day) < 5 /\ ~IsTradingDay(day)}
           h == HolidayList(y)
<1>1. y \in Int /\ y \in Civil /\ y + 1 \in Civil /\ y \in TableYears
  BY DEF Civil, EpochYears, TableYears
<1>2. EasterSunday(y) = EasterByTable(y)
  BY <1>1, EasterAgrees
<1>3. /\ FirstDay(y) \in Int /\ March(y) \in Int /\ March(y) - FirstDay(y) \in {59, 60}
      /\ FirstDay(y + 1) = March(y) + 306
  BY <1>1, YearDays
<1>4. /\ Holidays(y) = {h[i] : i \in 1..10}
      /\ \A i \in 1..10 : h[i] \in Int /\ Weekday(h[i]) < 5
      /\ Placed(h, FirstDay(y), March(y))
      /\ h[1] < FirstDay(y) <=> Weekday(FirstDay(y)) = 5
  BY <1>1, HolidaysPlaced
<1>5. days = FirstDay(y)..(FirstDay(y + 1) - 1)
  BY DEF FirstDay
<1> HIDE DEF days, h
<1>6. \A day \in Holidays(y) : Weekday(day) < 5
  BY <1>4
<1>7. \A i, j \in 1..10 : i < j => h[j] - h[i] >= 13
  BY <1>3, <1>4, HolidaysApart
<1>8. \A i, j \in 1..10 : h[i] = h[j] => i = j
  <2>1. SUFFICES ASSUME NEW i \in 1..10, NEW j \in 1..10, h[i] = h[j], i # j PROVE FALSE
    OBVIOUS
  <2>2. CASE i < j
    BY <1>4, <1>7, <2>1, <2>2
  <2>3. CASE j < i
    BY <1>4, <1>7, <2>1, <2>3
  <2> QED BY <2>1, <2>2, <2>3
<1>9. \A i \in 2..10 : h[i] \in days
  <2>1. h[1] >= FirstDay(y) - 1 /\ h[10] <= March(y) + 300 /\ h[1] \in Int /\ h[10] \in Int
    BY <1>3, <1>4 DEF Placed
  <2>2. SUFFICES ASSUME NEW i \in 2..10 PROVE h[i] \in days
    OBVIOUS
  <2>3. h[i] - h[1] >= 13 /\ h[i] \in Int
    BY <1>4, <1>7
  <2>4. h[i] <= h[10]
    <3>1. CASE i = 10
      BY <2>1, <3>1
    <3>2. CASE i # 10
      <4>1. h[10] - h[i] >= 13
        BY <1>7, <3>2
      <4> QED BY <2>1, <2>3, <4>1
    <3> QED BY <3>1, <3>2
  <2> QED BY <1>3, <1>5, <2>1, <2>3, <2>4
<1>10. \A day \in days : day \in shut <=> \E i \in 1..10 : day = h[i]
  <2>1. \A day \in days : Weekday(day) < 5 /\ ~IsTradingDay(day) <=> \E i \in 1..10 : day = h[i]
    BY <1>1, <1>5, ShutDays DEF h
  <2> QED BY <2>1
<1>11. h[1] \in days <=> Weekday(FirstDay(y)) # 5
  <2>1. h[1] \in Int /\ h[1] <= FirstDay(y) + 1
    BY <1>3, <1>4 DEF Placed
  <2>2. h[1] \in days <=> ~(h[1] < FirstDay(y))
    BY <1>3, <1>5, <2>1
  <2> QED BY <1>4, <2>2
<1>12. shut \subseteq days
  OBVIOUS
<1> HIDE DEF shut
<1>13. Cardinality(shut) = IF Weekday(FirstDay(y)) = 5 THEN 9 ELSE 10
  <2>1. CASE Weekday(FirstDay(y)) = 5
    <3>1. PICK m \in Int, n \in Nat : m = 1 /\ n = 9
      OBVIOUS
    <3>2. (m + 1)..(m + n) = 2..10
      BY <3>1
    <3>3. shut = {h[i] : i \in (m + 1)..(m + n)}
      <4>1. \A i \in 1..10 : i = 1 \/ i \in 2..10
        OBVIOUS
      <4>2. shut = {h[i] : i \in 2..10}
        BY <1>9, <1>10, <1>11, <1>12, <2>1, <4>1
      <4> QED BY <3>2, <4>2
    <3>4. \A i, j \in (m + 1)..(m + n) : h[i] = h[j] => i = j
      BY <1>8, <3>2
    <3>5. Cardinality(shut) = n
      BY <3>3, <3>4, NumberedOnce
    <3> QED BY <2>1, <3>1, <3>5
  <2>2. CASE Weekday(FirstDay(y)) # 5
    <3>1. PICK m \in Int, n \in Nat : m = 0 /\ n = 10
      OBVIOUS
    <3>2. (m + 1)..(m + n) = 1..10
      BY <3>1
    <3>3. shut = {h[i] : i \in (m + 1)..(m + n)}
      <4>1. \A i \in 1..10 : i = 1 \/ i \in 2..10
        OBVIOUS
      <4>2. shut = {h[i] : i \in 1..10}
        BY <1>9, <1>10, <1>11, <1>12, <2>2, <4>1
      <4> QED BY <3>2, <4>2
    <3>4. \A i, j \in (m + 1)..(m + n) : h[i] = h[j] => i = j
      BY <1>8, <3>2
    <3>5. Cardinality(shut) = n
      BY <3>3, <3>4, NumberedOnce
    <3> QED BY <2>2, <3>1, <3>5
  <2> QED BY <2>1, <2>2
<1>14. \A day \in days : ~IsSessionGap(day, day + 5)
  <2>1. SUFFICES ASSUME NEW day \in days, \A x \in (day + 1)..(day + 4) : ~IsTradingDay(x) PROVE FALSE
    <3>1. \A day \in days : day \in Int
      BY <1>3, <1>5
    <3>2. \A day \in Int : IsSessionGap(day, day + 5) => \A x \in (day + 1)..(day + 4) : ~IsTradingDay(x)
      BY DEF IsSessionGap
    <3> QED BY <3>1, <3>2
  <2>2. day \in Int /\ FirstDay(y) <= day /\ day < FirstDay(y + 1) /\ FirstDay(y + 1) \in Int
    BY <1>3, <1>5
  <2> DEFINE d == day + 1
  <2>3. d \in Int /\ d + 3 = day + 4
    BY <2>2
  <2> HIDE DEF d
  <2>4. PICK p \in d..(d + 3), q \in d..(d + 3) : p < q /\ Weekday(p) < 5 /\ Weekday(q) < 5
    BY <2>3, TwoWeekdays
  <2>5. p \in (day + 1)..(day + 4) /\ q \in (day + 1)..(day + 4)
    BY <2>2, <2>3, <2>4 DEF d
  <2>6. /\ p \in Int /\ q \in Int /\ p < q /\ FirstDay(y) <= p /\ q < FirstDay(y + 1) + 4 /\ q - p < 6
        /\ Weekday(p) < 5 /\ ~IsTradingDay(p) /\ Weekday(q) < 5 /\ ~IsTradingDay(q)
    BY <1>3, <2>1, <2>2, <2>4, <2>5
  <2>7. q - p >= 6
    BY <1>1, <2>6, ShutApart
  <2> QED BY <2>6, <2>7
<1>15. Cardinality(shut) = IF Weekday(Date(y, 1, 1)) = 5 THEN 9 ELSE 10
  BY <1>13 DEF FirstDay
<1> QED BY <1>2, <1>6, <1>14, <1>15 DEF CalendarSound, days, shut

\* MCIngest's judgements, for all batches of raw candles and all those years.
THEOREM CandlesAreJudged ==
    ASSUME Samples \subseteq Seq(RawCandle), Years \subseteq EpochYears
    PROVE  MCSpec => []CandlesJudged
<1> DEFINE Inv == (scene = "quality" => sample \in Samples) /\ (scene = "calendar" => year \in Years)
<1>1. MCInit => Inv
  BY DEF MCInit
<1>2. Inv /\ [MCNext]_mcvars => Inv'
  BY DEF MCNext, mcvars
<1>3. Inv => CandlesJudged
  <2>1. ASSUME sample \in Samples PROVE QualitySound(sample, MCStock, 96 * (Day0 + 2) + 48)
    <3> DEFINE now == 96 * (Day0 + 2) + 48
    <3>1. now \in Int
      BY DEF Day0
    <3>2. MCStock.timeframe \in Timeframes
      BY DEF MCStock, Timeframes
    <3> HIDE DEF now
    <3>3. QualitySound(sample, MCStock, now)
      BY <2>1, <3>1, <3>2, BatchesAreSound
    <3> QED BY <3>3 DEF now
  <2>2. ASSUME year \in Years PROVE CalendarSound(year)
    <3>1. year \in EpochYears
      BY <2>2
    <3> QED BY <3>1, CalendarIsSound
  <2>3. CASE scene = "quality"
    BY <2>1, <2>3 DEF CandlesJudged
  <2>4. CASE scene = "calendar"
    BY <2>2, <2>4 DEF CandlesJudged
  <2>5. CASE scene # "quality" /\ scene # "calendar"
    BY <2>5 DEF CandlesJudged
  <2> QED BY <2>3, <2>4, <2>5
<1> QED BY <1>1, <1>2, <1>3, PTL DEF MCSpec
=============================================================================
