---------------------------- MODULE PaperStoreProofs ----------------------------
(***************************************************************************)
(* Facts about the operators of PaperStore, for every ticket, position and *)
(* price: what they return, and what they can and cannot do to a position, *)
(* an account or a stop.  Then facts about the sums over tables that the   *)
(* properties of PaperVenue and PaperRaces are stated with.                *)
(***************************************************************************)
EXTENDS PaperStore, SequenceFacts

-----------------------------------------------------------------------------
\* A nonempty set of sequence indices has a greatest element: ORDER BY
\* executed_at DESC, id DESC LIMIT 1 finds a row when there is one.
LEMMA GreatestIndex ==
    ASSUME NEW n \in Nat, NEW S, S \subseteq 1..n, S # {}
    PROVE  Max(S) \in S /\ \A k \in S : Max(S) >= k
<1> DEFINE T == {n - k : k \in S}
           Less == OpToRel(<, Nat)
<1>1. T \subseteq Nat /\ T # {}
  <2>1. \A k \in S : n - k \in Nat
    <3> SUFFICES ASSUME NEW k \in S PROVE n - k \in Nat
      OBVIOUS
    <3>1. k \in 1..n
      OBVIOUS
    <3> QED
      BY <3>1
  <2> QED
    BY <2>1
<1>2. PICK x \in T : \A y \in T : ~(<<y, x>> \in Less)
  <2> HIDE DEF T, Less
  <2>1. IsWellFoundedOn(Less, Nat)
    BY NatLessThanWellFounded DEF Less
  <2> QED
    BY <1>1, <2>1, WFMin
<1>3. ASSUME NEW y \in T PROVE x <= y
  <2>1. x \in Nat /\ y \in Nat
    BY <1>1
  <2>2. ~(<<y, x>> \in Less)
    BY <1>2
  <2>3. ~(y < x)
    BY <2>1, <2>2 DEF OpToRel
  <2> QED
    BY <2>1, <2>3
<1>4. PICK m \in S : x = n - m
  OBVIOUS
<1>5. ASSUME NEW k \in S PROVE m >= k
  <2>1. n - m <= n - k
    BY <1>3, <1>4
  <2>2. m \in 1..n /\ k \in 1..n
    OBVIOUS
  <2> HIDE DEF T, Less
  <2> QED
    BY <2>1, <2>2
<1> QED
  BY <1>5 DEF Max

\* And it has a least one: the row of a work list that is visited next.
LEMMA LeastIndex ==
    ASSUME NEW S, S \subseteq Nat, S # {}
    PROVE  Min(S) \in S /\ \A k \in S : Min(S) <= k
<1> DEFINE Less == OpToRel(<, Nat)
<1>1. PICK x \in S : \A y \in S : ~(<<y, x>> \in Less)
  <2> HIDE DEF Less
  <2>1. IsWellFoundedOn(Less, Nat)
    BY NatLessThanWellFounded DEF Less
  <2> QED
    BY <2>1, WFMin
<1>2. ASSUME NEW y \in S PROVE x <= y
  <2>1. x \in Nat /\ y \in Nat
    OBVIOUS
  <2>2. ~(y < x)
    BY <1>1, <2>1 DEF OpToRel
  <2> QED
    BY <2>1, <2>2
<1> QED
  BY <1>2 DEF Min

-----------------------------------------------------------------------------
\* The sign and the opposite of a side.
LEMMA SideFacts ==
    ASSUME NEW side \in Sides
    PROVE  /\ SideSign(side) \in {1, -1} /\ Opposite(side) \in Sides
           /\ SideSign(Opposite(side)) = -SideSign(side) /\ Opposite(side) # side
BY DEF Sides, SideSign, Opposite

\* A fill closes no more than it sells and no more than is held, and opens the
\* rest.
LEMMA ClosingOpening ==
    ASSUME NEW pos \in PositionRow, NEW side \in Sides, NEW qty \in Nat \ {0}
    PROVE  /\ Closing(pos, side, qty) \in Nat /\ Closing(pos, side, qty) <= pos.qty
           /\ Opening(pos, side, qty) \in Nat
           /\ Closing(pos, side, qty) + Opening(pos, side, qty) = qty
BY DEF Closing, Opening, PositionRow

\* A fill leaves a well-formed row, and an open row has a side.
LEMMA FilledPositionType ==
    ASSUME NEW pos \in PositionRow, NEW side \in Sides, NEW qty \in Nat \ {0}, NEW price \in Int,
           pos.qty > 0 => pos.side \in Sides
    PROVE  /\ FilledPosition(pos, side, qty, price) \in PositionRow
           /\ FilledPosition(pos, side, qty, price).qty > 0 =>
                 FilledPosition(pos, side, qty, price).side \in Sides
<1>1. CASE pos.qty = 0
  BY <1>1 DEF FilledPosition, Holding, Opened, PositionRow, NoPrice
<1>2. CASE pos.qty > 0 /\ pos.side = side
  <2> DEFINE avg == (pos.qty * pos.avg + qty * price) \div (pos.qty + qty)
  <2>1. pos.qty * pos.avg \in Int /\ qty * price \in Int /\ pos.qty + qty \in Nat \ {0}
    BY <1>2 DEF PositionRow
  <2>2. avg \in Int
    BY <2>1
  <2>3. FilledPosition(pos, side, qty, price)
          = Holding(side, pos.qty + qty, avg, pos.best)
    BY <1>2 DEF FilledPosition, PositionRow
  <2> HIDE DEF avg
  <2>4. pos.qty + qty \in Nat
    BY DEF PositionRow
  <2>5. Holding(side, pos.qty + qty, avg, pos.best) \in PositionRow
    BY <2>2, <2>4 DEF PositionRow, Holding
  <2> QED
    BY <1>2, <2>3, <2>5 DEF Holding
<1>3. CASE pos.qty > 0 /\ pos.side # side
  BY <1>3 DEF FilledPosition, Holding, Opened, Flat, PositionRow, NoPrice, Sides
<1> QED
  BY <1>1, <1>2, <1>3 DEF PositionRow

\* However a fill splits into a closing and an opening part, it moves the
\* signed quantity by exactly its own signed quantity.
LEMMA FillMovesExposure ==
    ASSUME NEW pos \in PositionRow, NEW side \in Sides, NEW qty \in Nat \ {0}, NEW price \in Int,
           pos.qty > 0 => pos.side \in Sides
    PROVE  SignedQty(FilledPosition(pos, side, qty, price)) = SignedQty(pos) + SideSign(side) * qty
<1>1. CASE pos.qty = 0
  BY <1>1 DEF FilledPosition, Holding, Opened, PositionRow, SignedQty, SideSign
<1>2. CASE pos.qty > 0 /\ pos.side = side
  BY <1>2 DEF FilledPosition, Holding, PositionRow, SignedQty, SideSign
<1>3. CASE pos.qty > 0 /\ pos.side # side
  BY <1>3 DEF FilledPosition, Holding, Opened, Flat, PositionRow, SignedQty, SideSign, Sides
<1> QED
  BY <1>1, <1>2, <1>3 DEF PositionRow

\* Buying power is never negative, realized PnL is a number.
LEMMA FilledAccountType ==
    ASSUME NEW pos \in PositionRow, NEW side \in Sides, NEW qty \in Nat \ {0}, NEW price \in Int,
           NEW bp \in Nat, NEW realized \in Int
    PROVE  /\ FilledBuyingPower(bp, pos, side, qty, price) \in Nat
           /\ FilledRealized(realized, pos, side, qty, price) \in Int
<1> DEFINE closed == Closing(pos, side, qty)
           opened == Opening(pos, side, qty)
<1>1. closed \in Nat /\ opened \in Nat
  BY ClosingOpening
<1> HIDE DEF closed, opened
<1>2. (closed - opened) * price \in Int
  BY <1>1
<1>3. FilledBuyingPower(bp, pos, side, qty, price) \in Nat
  BY <1>2 DEF FilledBuyingPower, AtLeastZero, closed, opened
<1>4. Pnl(pos.side, closed, pos.avg, price) \in Int
  BY <1>1 DEF Pnl, SideSign, PositionRow
<1> QED
  BY <1>3, <1>4 DEF FilledRealized, closed

-----------------------------------------------------------------------------
\* The stop in force is a number, trailed or not.
LEMMA StopTypes ==
    ASSUME NEW ticket \in Ticket, NEW side \in Sides, NEW best \in Int
    PROVE  EffectiveStop(ticket, side, best) \in Int
<1>1. ticket.trail \in Nat /\ ticket.stop \in Nat
  BY DEF Ticket
<1>2. (best * ticket.trail) \div 100 \in Int
  <2>1. best * ticket.trail \in Int
    BY <1>1
  <2> QED
    BY <2>1
<1>3. best - SideSign(side) * ((best * ticket.trail) \div 100) \in Int
  BY <1>2 DEF SideSign
<1> QED
  BY <1>1, <1>3 DEF EffectiveStop, Better, NoPrice

\* The best close is a number once it is ratcheted.
LEMMA RatchetType ==
    ASSUME NEW pos \in PositionRow, NEW price \in Int
    PROVE  Ratchet(pos, price) \in Int
BY DEF Ratchet, Better, PositionRow

\* A bracket that acts books a stop or a target, at a level that is a number.
LEMMA BracketExitType ==
    ASSUME NEW ticket \in Ticket, NEW side \in Sides, NEW best \in Int, NEW price \in Int,
           BracketExit(ticket, side, best, price) # NoExit
    PROVE  /\ BracketExit(ticket, side, best, price).kind \in {"stop", "target"}
           /\ BracketExit(ticket, side, best, price).price \in Int
<1>1. EffectiveStop(ticket, side, best) \in Int
  BY StopTypes
<1>2. ticket.target \in Int
  BY DEF Ticket
<1> QED
  BY <1>1, <1>2 DEF BracketExit

\* The price an order executes at is a legal price.
LEMMA ExecutedPriceType ==
    ASSUME NEW ticket \in Ticket, NEW price \in Nat
    PROVE  ExecutedPrice(ticket, Latest(ticket, price)) \in Nat \ {0}
BY DEF ExecutedPrice, Latest, Better, Ticket, NoPrice

\* A triggered limit or stop order executes at a price its level allows,
\* however far the market has gone through the level.
LEMMA TriggeredPrice ==
    ASSUME NEW ticket \in Ticket, NEW latest \in Nat, Triggered(ticket, latest),
           ticket.limit # NoPrice
    PROVE  LET over == SideSign(ticket.side) * (ExecutedPrice(ticket, latest) - ticket.limit)
           IN  /\ ticket.type = "limit" => over <= 0
               /\ ticket.type = "stop" => over >= 0
<1>1. ticket.limit \in Nat /\ ticket.side \in Sides
  BY DEF Ticket
<1>2. CASE ticket.type = "limit"
  BY <1>1, <1>2 DEF Triggered, ExecutedPrice, Better, NoWorse, SideSign, Sides
<1>3. CASE ticket.type = "stop"
  BY <1>1, <1>3 DEF Triggered, ExecutedPrice, NoWorse, Opposite, SideSign, Sides
<1> QED
  BY <1>2, <1>3

\* A bracket that does nothing leaves the price strictly inside it: beyond the
\* stop and the trail, short of the target.
LEMMA NoExitInside ==
    ASSUME NEW ticket \in Ticket, NEW side \in Sides, NEW best \in Int, NEW price \in Int,
           BracketExit(ticket, side, best, price) = NoExit
    PROVE  LET sign == SideSign(side)
           IN  /\ ticket.stop # NoPrice => sign * (price - ticket.stop) > 0
               /\ ticket.target # NoPrice => sign * (ticket.target - price) > 0
               /\ ticket.trail # 0 =>
                     sign * (best - price) < (best * ticket.trail) \div 100
<1> DEFINE trail == (best * ticket.trail) \div 100
           stop == EffectiveStop(ticket, side, best)
<1>1. /\ ticket.stop \in Nat /\ ticket.target \in Nat
      /\ ticket.trail \in Nat /\ best * ticket.trail \in Int
  BY DEF Ticket
<1>2. trail \in Int
  BY <1>1
<1>3. /\ ~StopTouched(ticket, side, best, price)
      /\ ~TargetTouched(ticket, side, price)
  BY DEF BracketExit, NoExit
<1>4. stop = IF ticket.trail = 0 THEN ticket.stop
             ELSE IF ticket.stop = NoPrice THEN best - SideSign(side) * trail
             ELSE Better(Opposite(side), ticket.stop, best - SideSign(side) * trail)
  BY DEF EffectiveStop
<1>5. HasStop(ticket) => ~NoWorse(side, price, stop)
  BY <1>3 DEF StopTouched
<1> HIDE DEF trail, stop
<1>6. ticket.stop # NoPrice => SideSign(side) * (price - ticket.stop) > 0
  BY <1>1, <1>2, <1>4, <1>5 DEF HasStop, NoWorse, Better, Opposite, SideSign, Sides
<1>7. ticket.trail # 0 => SideSign(side) * (best - price) < trail
  BY <1>1, <1>2, <1>4, <1>5 DEF HasStop, NoWorse, Better, Opposite, SideSign, Sides
<1>8. ticket.target # NoPrice => SideSign(side) * (ticket.target - price) > 0
  BY <1>1, <1>3 DEF TargetTouched, NoWorse, Opposite, SideSign, Sides
<1> QED
  BY <1>6, <1>7, <1>8 DEF trail
-----------------------------------------------------------------------------
(* Cash.                                                                   *)

\* Whole-number division that leaves no rest is exact, and an average of prices of at least
\* one is at least one.
LEMMA DivisionFacts ==
    ASSUME NEW x \in Int, NEW b \in Nat \ {0}
    PROVE  /\ x \div b \in Int
           /\ x % b = 0 => b * (x \div b) = x
           /\ x >= b => x \div b >= 1
<1>1. x \div b \in Int /\ x % b \in 0..(b - 1)
  OBVIOUS
<1>2. x = b * (x \div b) + (x % b)
  OBVIOUS
<1>3. ASSUME x >= b PROVE x \div b >= 1
  <2>1. SUFFICES ASSUME x \div b <= 0 PROVE FALSE
    BY <1>1
  <2>2. b * (x \div b) <= 0
    BY <1>1, <2>1
  <2> QED
    BY <1>1, <1>2, <1>3, <2>2
<1> QED
  BY <1>1, <1>2, <1>3

\* The average of a position that is added to comes out whole.
AverageExact(pos, side, qty, price) ==
    pos.qty > 0 /\ pos.side = side => (pos.qty * pos.avg + qty * price) % (pos.qty + qty) = 0

\* A fill at an exact average ties up what it opens at its price, and frees what
\* it closes at the price the position was opened at.
LEMMA FillMovesTiedUp ==
    ASSUME NEW pos \in PositionRow, NEW side \in Sides, NEW qty \in Nat \ {0}, NEW price \in Int,
           pos.qty > 0 => pos.side \in Sides, AverageExact(pos, side, qty, price)
    PROVE  LET filled == FilledPosition(pos, side, qty, price)
           IN  filled.qty * filled.avg = pos.qty * pos.avg
                 + Opening(pos, side, qty) * price - Closing(pos, side, qty) * pos.avg
<1>0. pos.qty \in Nat /\ pos.avg \in Int
  BY DEF PositionRow
<1>1. CASE pos.qty = 0
  BY <1>0, <1>1 DEF FilledPosition, Holding, Opened, Opening, Closing
<1>2. CASE pos.qty > 0 /\ pos.side = side
  <2> DEFINE x == pos.qty * pos.avg + qty * price
             b == pos.qty + qty
  <2>1. x \in Int /\ b \in Nat \ {0} /\ x % b = 0
    BY <1>0, <1>2 DEF AverageExact
  <2>2. FilledPosition(pos, side, qty, price) = Holding(side, b, x \div b, pos.best)
    BY <1>0, <1>2 DEF FilledPosition
  <2>3. Closing(pos, side, qty) = 0 /\ Opening(pos, side, qty) = qty
    BY <1>2 DEF Closing, Opening
  <2>4. b * (x \div b) = x
    <3> HIDE DEF x, b
    <3> QED
      BY <2>1, DivisionFacts
  <2>5. x = pos.qty * pos.avg + Opening(pos, side, qty) * price - Closing(pos, side, qty) * pos.avg
    BY <1>0, <2>3
  <2> HIDE DEF x, b
  <2> QED
    BY <2>2, <2>4, <2>5 DEF Holding
<1>3. CASE pos.qty > 0 /\ pos.side # side
  <2>1. CASE qty < pos.qty
    BY <1>0, <1>3, <2>1 DEF FilledPosition, Holding, Opening, Closing
  <2>2. CASE qty = pos.qty
    BY <1>0, <1>3, <2>2 DEF FilledPosition, Flat, Opening, Closing
  <2>3. CASE qty > pos.qty
    BY <1>0, <1>3, <2>3 DEF FilledPosition, Holding, Opened, Opening, Closing
  <2> QED
    BY <1>0, <2>1, <2>2, <2>3
<1> QED
  BY <1>0, <1>1, <1>2, <1>3

\* A position filled at positive prices has a positive average.
LEMMA FilledAverage ==
    ASSUME NEW pos \in PositionRow, NEW side \in Sides, NEW qty \in Nat \ {0},
           NEW price \in Nat \ {0}, pos.qty > 0 => pos.avg > 0 /\ pos.best >= 0
    PROVE  LET filled == FilledPosition(pos, side, qty, price)
           IN  filled.qty > 0 => filled.avg > 0 /\ filled.best >= 0
<1>0. pos.qty \in Nat /\ pos.avg \in Int /\ pos.best \in Int
  BY DEF PositionRow
<1>1. CASE pos.qty = 0
  BY <1>0, <1>1 DEF FilledPosition, Holding, Opened, NoPrice
<1>2. CASE pos.qty > 0 /\ pos.side = side
  <2> DEFINE x == pos.qty * pos.avg + qty * price
             b == pos.qty + qty
  <2>1. x \in Int /\ b \in Nat \ {0} /\ x >= b
    <3>1. pos.qty * pos.avg >= pos.qty /\ pos.qty * pos.avg \in Int
      BY <1>0, <1>2
    <3>2. qty * price >= qty /\ qty * price \in Int
      OBVIOUS
    <3> QED
      BY <1>0, <3>1, <3>2
  <2>2. FilledPosition(pos, side, qty, price) = Holding(side, b, x \div b, pos.best)
    BY <1>0, <1>2 DEF FilledPosition
  <2> HIDE DEF x, b
  <2>3. x \div b \in Int /\ x \div b >= 1
    BY <2>1, DivisionFacts
  <2> QED
    BY <1>2, <2>2, <2>3 DEF Holding
<1>3. CASE pos.qty > 0 /\ pos.side # side
  BY <1>0, <1>3 DEF FilledPosition, Holding, Opened, Flat, NoPrice
<1> QED
  BY <1>0, <1>1, <1>2, <1>3

\* The exit of a bracket is booked at a positive price: a trail gives back at most
\* half of the best close.
LEMMA ExitAboveZero ==
    ASSUME NEW ticket \in Ticket, NEW side \in Sides, NEW best \in Nat, NEW price \in Int,
           ticket.trail # 0 => best > 0,
           BracketExit(ticket, side, best, price) # NoExit
    PROVE  BracketExit(ticket, side, best, price).price > 0
<1> DEFINE trail == (best * ticket.trail) \div 100
           stop == EffectiveStop(ticket, side, best)
<1>1. ticket.stop \in Nat /\ ticket.target \in Nat /\ ticket.trail \in 0..50
  BY DEF Ticket
<1>2. best * ticket.trail \in Nat /\ best * ticket.trail <= 50 * best
  BY <1>1
<1>3. trail \in Int /\ trail >= 0 /\ 2 * trail <= best
  <2> DEFINE x == best * ticket.trail
  <2>1. x \in Nat /\ x <= 50 * best
    BY <1>2
  <2> HIDE DEF x
  <2>2. x \div 100 \in Int /\ x \div 100 >= 0 /\ 100 * (x \div 100) <= x
    BY <2>1
  <2> QED
    BY <2>1, <2>2 DEF x
<1>4. stop = IF ticket.trail = 0 THEN ticket.stop
             ELSE IF ticket.stop = NoPrice THEN best - SideSign(side) * trail
             ELSE Better(Opposite(side), ticket.stop, best - SideSign(side) * trail)
  BY DEF EffectiveStop
<1> HIDE DEF trail, stop
<1>5. ticket.trail # 0 => best - SideSign(side) * trail > 0
  BY <1>3 DEF SideSign
<1>6. HasStop(ticket) => stop > 0
  BY <1>1, <1>3, <1>4, <1>5 DEF HasStop, NoPrice, Better
<1>7. CASE StopTouched(ticket, side, best, price)
  BY <1>6, <1>7 DEF BracketExit, StopTouched, stop
<1>8. CASE ~StopTouched(ticket, side, best, price)
  BY <1>1, <1>8 DEF BracketExit, TargetTouched, NoPrice
<1> QED
  BY <1>7, <1>8

\* The best close so far is positive.
LEMMA RatchetPositive ==
    ASSUME NEW pos \in PositionRow, NEW price \in Nat \ {0}, pos.avg > 0, pos.best >= 0
    PROVE  Ratchet(pos, price) \in Nat \ {0}
BY DEF Ratchet, Better, PositionRow, NoPrice

\* A clamp at zero adds what is missing to zero.
LEMMA ClampAdds ==
    ASSUME NEW x \in Int
    PROVE  AtLeastZero(x) = x + AtLeastZero(-x)
BY DEF AtLeastZero

-----------------------------------------------------------------------------
(* Sums.                                                                   *)

\* SumFunction is the total over the whole domain.
LEMMA SumIsTotal ==
    ASSUME NEW F
    PROVE  SumFunction(F) = (CHOOSE total : Totals(F, DOMAIN F, total))[DOMAIN F]
BY DEF SumFunction, SumFunctionOnSet, FoldFunctionOnSet, MapThenFoldSet, Totals

\* What SumFunction returns: the total of one and the same function over every
\* subset of the domain.
LEMMA SumTotals ==
    ASSUME NEW F, IsFiniteSet(DOMAIN F)
    PROVE  \E total : Totals(F, DOMAIN F, total) /\ SumFunction(F) = total[DOMAIN F]
BY TotalsExist, SumIsTotal

\* The sum of finitely many integers is an integer, zero when there are none.
LEMMA SumType ==
    ASSUME NEW S, IsFiniteSet(S), NEW F \in [S -> Int]
    PROVE  SumFunction(F) \in Int /\ (S = {} => SumFunction(F) = 0)
<1>1. PICK f : Totals(F, S, f) /\ SumFunction(F) = f[S]
  BY SumTotals
<1>2. f[{}] = 0 /\ \A s \in SUBSET S : f[s] \in Int
  BY <1>1, TotalsSplit
<1> QED
  BY <1>1, <1>2

\* Nothing adds up to nothing.
LEMMA SumZero ==
    ASSUME NEW S, IsFiniteSet(S), NEW F \in [S -> Int], \A x \in S : F[x] = 0
    PROVE  SumFunction(F) = 0
<1>1. PICK f : Totals(F, S, f) /\ SumFunction(F) = f[S]
  BY SumTotals
<1>2. f[{}] = 0 /\ \A s \in SUBSET S : \A y \in s : f[s] = F[y] + f[s \ {y}]
  BY <1>1, TotalsSplit
<1> DEFINE bad == {s \in SUBSET S : f[s] # 0}
<1>3. SUFFICES ASSUME bad # {} PROVE FALSE
  BY <1>1
<1>4. PICK s \in bad : \A x \in s : s \ {x} \notin bad
  <2> HIDE DEF bad
  <2>1. bad \subseteq SUBSET S
    BY DEF bad
  <2> QED
    BY <1>3, <2>1, LeastSubset
<1>5. PICK y \in s : f[s] = F[y] + f[s \ {y}]
  BY <1>2
<1>6. f[s \ {y}] = 0 /\ F[y] = 0
  BY <1>4
<1> QED
  BY <1>4, <1>5, <1>6

\* Functions that agree where both are defined have sums that differ by the one
\* element only G has.
LEMMA SumAdd ==
    ASSUME NEW S, IsFiniteSet(S), NEW y, y \notin S,
           NEW F \in [S -> Int], NEW G \in [S \cup {y} -> Int],
           \A x \in S : G[x] = F[x]
    PROVE  SumFunction(G) = SumFunction(F) + G[y]
<1> DEFINE T == S \cup {y}
<1>1. IsFiniteSet(T)
  BY FS_AddElement
<1>2. PICK f : Totals(F, S, f) /\ SumFunction(F) = f[S]
  BY SumTotals
<1>3. PICK g : Totals(G, T, g) /\ SumFunction(G) = g[T]
  BY <1>1, SumTotals
<1>4. f[S] = g[S]
  BY <1>2, <1>3, TotalsAgree
<1>5. g[T] = G[y] + g[T \ {y}] /\ T \ {y} = S
  BY <1>1, <1>3, TotalsSplit
<1>6. SumFunction(F) \in Int /\ G[y] \in Int
  BY SumType
<1>7. SumFunction(G) = G[y] + SumFunction(F)
  BY <1>2, <1>3, <1>4, <1>5
<1> QED
  BY <1>6, <1>7

\* Changing one summand changes the sum by the difference.
LEMMA SumChange ==
    ASSUME NEW S, IsFiniteSet(S), NEW y \in S,
           NEW F \in [S -> Int], NEW G \in [S -> Int],
           \A x \in S \ {y} : G[x] = F[x]
    PROVE  SumFunction(G) = SumFunction(F) - F[y] + G[y]
<1> DEFINE rest == [x \in S \ {y} |-> F[x]]
<1>1. rest \in [S \ {y} -> Int] /\ IsFiniteSet(S \ {y}) /\ (S \ {y}) \cup {y} = S
  BY FS_RemoveElement
<1>2. \A x \in S \ {y} : G[x] = rest[x] /\ F[x] = rest[x]
  OBVIOUS
<1> HIDE DEF rest
<1>3. SumFunction(F) = SumFunction(rest) + F[y]
  BY <1>1, <1>2, SumAdd
<1>4. SumFunction(G) = SumFunction(rest) + G[y]
  BY <1>1, <1>2, SumAdd
<1>5. SumFunction(rest) \in Int /\ F[y] \in Int /\ G[y] \in Int
  BY <1>1, SumType
<1> QED
  BY <1>3, <1>4, <1>5

\* Appending to a table adds one summand.
LEMMA SumAppend ==
    ASSUME NEW n \in Nat, NEW F \in [1..n -> Int], NEW G \in [1..(n + 1) -> Int],
           \A k \in 1..n : G[k] = F[k]
    PROVE  SumFunction(G) = SumFunction(F) + G[n + 1]
<1>1. 1..(n + 1) = (1..n) \cup {n + 1} /\ n + 1 \notin 1..n
  OBVIOUS
<1>2. IsFiniteSet(1..n)
  BY FS_Interval
<1>3. G \in [(1..n) \cup {n + 1} -> Int]
  BY <1>1
<1> QED
  BY <1>1, <1>2, <1>3, SumAdd
=============================================================================
