---------------------------- MODULE PaperRacesProofs ----------------------------
(***************************************************************************)
(* Theorems about the paper store at the grain of single statements, for   *)
(* every set of tickets and prices: both threads keep their types, no      *)
(* order is filled twice, no stale read holds more than was ordered, and   *)
(* the books balance as long as nothing was overwritten.                   *)
(***************************************************************************)
EXTENDS PaperRaces, PaperStoreProofs, SequenceTheorems

-----------------------------------------------------------------------------
(* The invariants.                                                         *)

Sided(pos) == pos.qty > 0 => pos.side \in Sides
Closes == {"account", "position", "write"}                     \* hpc of a close
Exits == {"exitAccount", "exitPosition", "exitWrite"}          \* jpc of an exit

\* What the control of a thread says of its local variables: the job in a row has
\* rows left, an exit decided on is still the exit that will be written, and a
\* call that closes holds a position, a quantity and a price to close it at.
JobControl ==
    /\ Sided(jread.decided) /\ Sided(jread.position)
    /\ jpc \in {"position", "write"} => jrows # {}
    /\ jpc \in Exits \cup {"governing"} => jread.decided.qty > 0 /\ jseen # NoPrice
    /\ jpc \in Exits => Governing(Held.side) # 0 /\ Exit # NoExit
HandlerControl ==
    /\ Sided(hread.decided) /\ Sided(hread.position)
    /\ hpc \in Closes =>
          /\ hread.decided.qty > 0 /\ hread.price # NoPrice
          /\ hread.qty \in 1..hread.decided.qty
RacesInv == TypeOK /\ Sided(position) /\ JobControl /\ HandlerControl

\* An order in fills is executed, and so is not among the rows the job selected,
\* which were pending.
FillsInv ==
    /\ FilledOnce
    /\ \A k \in DOMAIN fills : intents[fills[k]].status = "executed"
    /\ jrows \cap Range(fills) = {}

\* Two rows hold the same quantity on the same side.
Same(pos, row) == pos.qty = row.qty /\ pos.side = row.side

\* Quantities read are bounded like the one held.
ReadsBounded ==
    /\ position.qty <= Bought
    /\ jread.decided.qty <= Bought /\ jread.position.qty <= Bought
    /\ hread.decided.qty <= Bought /\ hread.position.qty <= Bought

\* While a handler closes a position only the job writes: what it decided on (and
\* read) is still there, or the job has written since and its own read is fresh.
HandlerFresh ==
    hpc \in Closes => Same(position, hread.decided)
                      /\ (hpc = "write" => Same(position, hread.position))
JobReadsLast == hpc \in Closes /\ ~HandlerFresh /\ jpc = "write" => Same(position, jread.position)

\* While the job exits a position only handlers write: what it decided on is
\* still there, or a handler has written since, and the handlers after that one
\* work from fresh rows and can only reduce.
ExitReads ==
    /\ jpc \in Exits \cup {"governing"} => Same(position, jread.decided) \/ HandlerFresh
    /\ jpc = "exitWrite" =>
          \/ Same(jread.position, jread.decided)
          \/ /\ HandlerFresh
             /\ position.qty > 0 => /\ position.side = jread.position.side
                                    /\ position.qty <= jread.position.qty

\* A position that turned around under a call that is to close it leaves room for
\* what that call will add to it instead.
Room(pos, decided, qty) ==
    pos.qty > 0 /\ pos.side = Opposite(decided.side) => pos.qty + qty <= Bought
RoomLeft ==
    /\ hpc \in {"account", "position"} => Room(position, hread.decided, hread.qty)
    /\ hpc = "write" =>
          /\ Room(hread.position, hread.decided, hread.qty)
          \* what overshoots a quantity read too low
          /\ (/\ position.qty > 0 /\ position.side = hread.decided.side
              /\ hread.position.side = hread.decided.side /\ hread.position.qty < hread.qty)
             => position.qty + (hread.qty - hread.position.qty) <= Bought
    /\ jpc \in {"governing", "exitAccount", "exitPosition"} =>
          Room(position, jread.decided, jread.decided.qty)
    /\ jpc = "exitWrite" => Room(jread.position, jread.decided, jread.decided.qty)
BoundInv == ReadsBounded /\ JobReadsLast /\ ExitReads /\ RoomLeft

-----------------------------------------------------------------------------
(* What the actions are built from.                                        *)

\* Latest closes and the missing one are numbers.
LEMMA PricesAreNumbers == Prices \cup {NoPrice} \subseteq Nat
BY RacesAssumption DEF NoPrice

\* The rows of paper_trade_intents are well typed.
LEMMA IntentFacts ==
    ASSUME TypeOK, NEW i \in Intents
    PROVE  /\ intents[i].ticket \in Ticket /\ intents[i].ticket.side \in Sides
           /\ intents[i].ticket.qty \in Nat \ {0} /\ i \in Nat \ {0}
           /\ i \in 1..Len(intents) /\ Len(intents) \in Nat
<1>1. intents \in Seq(Order) /\ i \in DOMAIN intents
  BY DEF TypeOK, Intents
<1>2. intents[i] \in Order /\ i \in 1..Len(intents) /\ Len(intents) \in Nat
  BY <1>1
<1>3. intents[i].ticket \in Ticket
  BY <1>2 DEF Order
<1> QED
  BY <1>2, <1>3 DEF Ticket

\* The row the job is at is one of those it has left, and executes at a price.
LEMMA RowFacts ==
    ASSUME TypeOK, jrows # {}
    PROVE  /\ Row \in jrows /\ Row \in Intents
           /\ ExecutedPrice(intents[Row].ticket, RowPrice) \in Nat \ {0}
<1>1. jrows \subseteq Intents /\ Intents \subseteq Nat
  BY DEF TypeOK, Intents
<1>2. Row \in jrows
  BY <1>1, LeastIndex DEF Row
<1>3. intents[Row].ticket \in Ticket /\ jseen \in Nat
  BY <1>1, <1>2, IntentFacts, PricesAreNumbers DEF TypeOK
<1> HIDE DEF Row
<1> QED
  BY <1>1, <1>2, <1>3, ExecutedPriceType DEF RowPrice

\* The governing ticket is the ticket of a row.
LEMMA GoverningFacts ==
    ASSUME TypeOK, NEW side, Governing(side) # 0
    PROVE  Governing(side) \in Intents /\ \E k \in DOMAIN fills : fills[k] = Governing(side)
<1> DEFINE found == {k \in DOMAIN fills : intents[fills[k]].ticket.side = side}
<1>1. found # {} /\ Governing(side) = fills[Max(found)]
  BY DEF Governing
<1>2. DOMAIN fills = 1..Len(fills) /\ Len(fills) \in Nat /\ found \subseteq DOMAIN fills
  BY DEF TypeOK
<1> HIDE DEF found
<1>3. Max(found) \in DOMAIN fills
  BY <1>1, <1>2, GreatestIndex
<1> QED
  BY <1>1, <1>3 DEF TypeOK, Range

\* The exit of a job that is to exit is a stop or a target, at a number.
LEMMA ExitFacts ==
    ASSUME RacesInv, jpc \in Exits
    PROVE  Exit.kind \in {"stop", "target"} /\ Exit.price \in Int
<1>1. Governing(Held.side) # 0 /\ Exit # NoExit /\ Held.qty > 0 /\ Held.side \in Sides
  BY DEF RacesInv, JobControl, Exits, Sided, Held
<1>2. Ticketed \in Ticket
  BY <1>1, GoverningFacts, IntentFacts DEF Ticketed, RacesInv
<1>3. jseen \in Int /\ Held \in PositionRow
  BY PricesAreNumbers DEF RacesInv, TypeOK, Read, Held
<1>4. Best \in Int
  BY <1>3, RatchetType DEF Best
<1> QED
  BY <1>1, <1>2, <1>3, <1>4, BracketExitType DEF Exit

\* A write leaves well-formed rows, however stale what it goes by.
LEMMA ApplyFillType ==
    ASSUME TypeOK, Sided(position), NEW decided, NEW read \in Read, Sided(read.position),
           NEW side \in Sides, NEW qty \in Nat \ {0}, NEW at \in Int,
           ApplyFill(decided, read, side, qty, at)
    PROVE  /\ account' \in Accounts /\ position' \in PositionRow /\ Sided(position')
           /\ torn' \in BOOLEAN
<1> DEFINE filled == FilledPosition(read.position, side, qty, at)
<1>1. read.position \in PositionRow /\ read.account \in Accounts
  BY DEF Read
<1>2. filled \in PositionRow /\ (filled.qty > 0 => filled.side \in Sides)
  BY <1>1, FilledPositionType DEF Sided
<1>3. account' \in Accounts
  BY <1>1, FilledAccountType DEF ApplyFill, Accounts
<1>4. \/ position' = filled \/ position' = Flat
      \/ /\ position.qty # 0
         /\ \E avg \in {filled.avg, position.avg} :
               position' = [position EXCEPT !.qty = filled.qty, !.avg = avg]
  BY DEF ApplyFill, Overwritten
<1> HIDE DEF filled
<1>5. position' \in PositionRow /\ Sided(position')
  <2>1. CASE position' = filled
    BY <1>2, <2>1 DEF Sided
  <2>2. CASE position' = Flat
    BY <2>2 DEF Flat, PositionRow, Sided, NoPrice
  <2>3. ASSUME position.qty # 0, NEW avg \in {filled.avg, position.avg},
               position' = [position EXCEPT !.qty = filled.qty, !.avg = avg]
        PROVE  position' \in PositionRow /\ Sided(position')
    <3>1. position \in PositionRow /\ position.side \in Sides
      BY <2>3 DEF TypeOK, Sided, PositionRow
    <3>2. filled.qty \in Nat /\ avg \in Int
      BY <1>2, <3>1 DEF PositionRow
    <3> QED
      BY <2>3, <3>1, <3>2 DEF PositionRow, Sided
  <2> QED
    BY <1>4, <2>1, <2>2, <2>3
<1>6. torn' \in BOOLEAN
  BY DEF ApplyFill, Stale, TypeOK
<1> QED
  BY <1>3, <1>5, <1>6

\* What a fill notes off the books is a number.
LEMMA NotedType ==
    ASSUME TypeOK, NEW read \in Read, NEW side \in Sides, NEW qty \in Nat \ {0}, NEW at \in Int,
           NotedOffBook(read, side, qty, at)
    PROVE  offbook' \in [cash: Int, pnl: Int]
<1> DEFINE pos == read.position
           closed == Closing(pos, side, qty)
           opened == Opening(pos, side, qty)
           netted == Pnl(pos.side, closed, pos.avg, at)
           forgiven == AtLeastZero((opened - closed) * at - read.account.buyingPower)
<1>1. pos \in PositionRow /\ pos.avg \in Int /\ read.account.buyingPower \in Int
  BY DEF Read, PositionRow, Accounts
<1>2. closed \in Nat /\ opened \in Nat
  BY <1>1, ClosingOpening
<1>3. offbook.cash \in Int /\ offbook.pnl \in Int
  BY DEF TypeOK
<1>4. offbook' = [cash |-> offbook.cash + SideSign(pos.side) * netted + forgiven,
                  pnl |-> offbook.pnl + netted]
  BY DEF NotedOffBook
<1> HIDE DEF closed, opened, pos
<1>5. netted \in Int /\ SideSign(pos.side) * netted \in Int
  BY <1>1, <1>2 DEF Pnl, SideSign
<1>6. forgiven \in Int
  <2>1. (opened - closed) * at \in Int
    BY <1>2
  <2> QED
    BY <1>1, <2>1 DEF AtLeastZero
<1> HIDE DEF netted, forgiven
<1> QED
  BY <1>3, <1>4, <1>5, <1>6

-----------------------------------------------------------------------------
(* Types and control.                                                      *)

\* What each thread owns, and what they share.
StorePart ==
    /\ account \in Accounts /\ position \in PositionRow /\ Sided(position)
    /\ intents \in Seq(Order) /\ fills \in Seq(Nat \ {0}) /\ Range(fills) \subseteq Intents
    /\ ledger \in Seq(Closure) /\ torn \in BOOLEAN /\ offbook \in [cash: Int, pnl: Int]
JobPart ==
    /\ jseen \in Prices \cup {NoPrice} /\ jrows \subseteq Intents /\ jread \in Read
    /\ jpc \in {"idle", "select", "rows", "position", "write", "brackets", "governing",
                "exitAccount", "exitPosition", "exitWrite"}
    /\ lock \in BOOLEAN /\ JobControl
HandlerPart ==
    /\ hread \in Read /\ HandlerControl
    /\ hpc \in {"idle", "guard", "insert", "account", "position", "write"}
PricePart == price \in Prices \cup {NoPrice}

\* The parts, and the same of the next state.
LEMMA Parts == RacesInv <=> StorePart /\ JobPart /\ HandlerPart /\ PricePart
BY DEF RacesInv, TypeOK, StorePart, JobPart, HandlerPart, PricePart

\* The four parts of the invariant make it up again after a step.
LEMMA PartsNext == StorePart' /\ JobPart' /\ HandlerPart' /\ PricePart' => RacesInv'
BY DEF RacesInv, TypeOK, StorePart, JobPart, HandlerPart, PricePart

\* Only six actions write to the tables.
LEMMA Writers ==
    ASSUME [Next]_vars
    PROVE  \/ UNCHANGED store \/ RowWrite \/ BracketDecide \/ ExitWrite \/ CloseWrite
           \/ \E t \in Tickets : SubmitInsert(t)
           \/ \E i \in Intents : Cancel(i)
<1>1. CASE UNCHANGED vars
  BY <1>1 DEF vars
<1>2. CASE JobPrices \/ JobSelect \/ RowSkip \/ RowReadAccount \/ RowReadPosition
           \/ RowConflict \/ RowsCommit \/ BracketSelect \/ ExitReadAccount \/ ExitReadPosition
  BY <1>2 DEF JobPrices, JobSelect, RowSkip, RowReadAccount, RowReadPosition, RowConflict,
              RowsCommit, BracketSelect, ExitReadAccount, ExitReadPosition
<1>3. CASE CloseReadAccount \/ CloseReadPosition \/ CloseConflict \/ HandlerTimeout
  BY <1>3 DEF CloseReadAccount, CloseReadPosition, CloseConflict, HandlerTimeout
<1>4. ASSUME NEW t \in Tickets, SubmitReadAccount(t) \/ SubmitReadPosition(t)
      PROVE  UNCHANGED store
  BY <1>4 DEF SubmitReadAccount, SubmitReadPosition
<1>5. ASSUME NEW asked \in 1..position.qty, CloseSelect(asked) PROVE UNCHANGED store
  BY <1>5 DEF CloseSelect
<1>6. ASSUME NEW p \in Prices, NewCandle(p) PROVE UNCHANGED store
  BY <1>6 DEF NewCandle
<1> QED
  BY <1>1, <1>2, <1>3, <1>4, <1>5, <1>6 DEF Next

\* Rows are never taken from paper_trade_intents, and their tickets never change.
TicketsKept == /\ Intents \subseteq Intents'
               /\ \A i \in Intents : intents'[i].ticket = intents[i].ticket

\* Every step keeps the rows and their tickets.
LEMMA TicketsStay == ASSUME RacesInv, [Next]_vars PROVE TicketsKept
<1>1. intents \in Seq(Order) /\ Intents = 1..Len(intents) /\ Len(intents) \in Nat
      /\ \A i \in Intents : intents[i] \in Order
  BY DEF RacesInv, TypeOK, Intents
<1>2. CASE UNCHANGED intents
  BY <1>2 DEF TicketsKept, Intents
<1>3. ASSUME NEW t \in Tickets, SubmitInsert(t) PROVE TicketsKept
  BY <1>1, <1>3 DEF TicketsKept, Intents, SubmitInsert
<1>4. ASSUME NEW i \in Intents, Cancel(i) PROVE TicketsKept
  BY <1>1, <1>4 DEF TicketsKept, Intents, Cancel, Order
<1>5. CASE RowWrite
  BY <1>1, <1>5 DEF TicketsKept, Intents, RowWrite, Order
<1> QED
  BY Writers, <1>2, <1>3, <1>4, <1>5 DEF store, BracketDecide, ExitWrite, CloseWrite

\* The job works from what was ordered, so nobody changes its mind for it: with
\* the fills and its own reads unchanged, its ticket and its exit are unchanged.
LEMMA ExitFrame ==
    ASSUME RacesInv, TicketsKept, UNCHANGED <<fills, jseen>>, jread'.decided = jread.decided
    PROVE  /\ Governing(Held.side)' = Governing(Held.side)
           /\ Governing(Held.side) # 0 => Exit' = Exit
<1>1. \A k \in DOMAIN fills : intents'[fills[k]].ticket = intents[fills[k]].ticket
  BY DEF RacesInv, TypeOK, TicketsKept, Range
<1>2. Governing(Held.side)' = Governing(Held.side)
  BY <1>1 DEF Governing, Held
<1>3. ASSUME Governing(Held.side) # 0 PROVE Exit' = Exit
  <2>1. Governing(Held.side) \in Intents
    BY <1>3, GoverningFacts DEF RacesInv
  <2>2. intents'[Governing(Held.side)].ticket = intents[Governing(Held.side)].ticket
    BY <2>1 DEF TicketsKept
  <2>3. Ticketed' = Ticketed
    BY <1>2, <2>2 DEF Ticketed
  <2> QED
    BY <2>3 DEF Exit, Best, Held
<1> QED
  BY <1>2, <1>3

\* Both threads close what they decided on: they hold it, and a price for it.
LEMMA ClosingFacts ==
    ASSUME RacesInv
    PROVE  /\ jpc \in Exits => /\ Held \in PositionRow /\ Held.side \in Sides
                               /\ Held.qty \in Nat \ {0} /\ Exit.price \in Int
                               /\ Exit.kind \in {"stop", "target"}
           /\ hpc \in Closes => /\ hread.decided \in PositionRow /\ hread.decided.side \in Sides
                                /\ hread.qty \in Nat \ {0} /\ hread.price \in Nat \ {0}
                                /\ hread.qty <= hread.decided.qty
<1>1. ASSUME jpc \in Exits
      PROVE  Held \in PositionRow /\ Held.side \in Sides /\ Held.qty \in Nat \ {0}
  <2>1. jread.decided \in PositionRow /\ jread.decided.qty > 0 /\ Sided(jread.decided)
    BY <1>1 DEF RacesInv, TypeOK, JobControl, Read
  <2> QED
    BY <2>1 DEF Held, Sided, PositionRow
<1>2. ASSUME hpc \in Closes
      PROVE  /\ hread.decided \in PositionRow /\ hread.decided.side \in Sides
             /\ hread.qty \in Nat \ {0} /\ hread.qty <= hread.decided.qty
  BY <1>2 DEF RacesInv, TypeOK, HandlerControl, Read, Sided, PositionRow
<1>3. ASSUME hpc \in Closes PROVE hread.price \in Nat \ {0}
  BY <1>3 DEF RacesInv, TypeOK, HandlerControl, Read, NoPrice
<1> QED
  BY <1>1, <1>2, <1>3, ExitFacts

\* A row of the closure ledger is well typed.
LEMMA ClosedType ==
    ASSUME NEW pos \in PositionRow, pos.side \in Sides, NEW qty \in Nat \ {0}, NEW exit \in Int,
           NEW kind \in {"stop", "target", "manual"}
    PROVE  Closed(pos, qty, exit, kind) \in Closure
BY DEF Closed, Closure, PositionRow

\* The tables stay well typed.
LEMMA StoreStep == ASSUME RacesInv, [Next]_vars PROVE StorePart'
<1>0. /\ StorePart /\ JobPart /\ HandlerPart /\ PricePart /\ TypeOK
      /\ jread \in Read /\ Sided(jread.position) /\ hread \in Read /\ Sided(hread.position)
      /\ Sided(position)
  BY Parts DEF RacesInv, JobPart, HandlerPart, JobControl, HandlerControl
<1>1. CASE UNCHANGED store
  BY <1>0, <1>1 DEF StorePart, store, Sided, Intents
<1>2. CASE RowWrite
  <2> DEFINE t == intents[Row].ticket
             at == ExecutedPrice(t, RowPrice)
  <2>1. Row \in Intents /\ at \in Nat \ {0} /\ t.side \in Sides /\ t.qty \in Nat \ {0}
    BY <1>0, <1>2, RowFacts, IntentFacts DEF RowWrite, JobPart, JobControl
  <2>2. ApplyFill(jread.position, jread, t.side, t.qty, at) /\ NotedOffBook(jread, t.side, t.qty, at)
        /\ intents' = [intents EXCEPT ![Row].status = "executed", ![Row].price = at]
        /\ fills' = Append(fills, Row) /\ ledger' = ledger
    BY <1>2 DEF RowWrite
  <2> HIDE DEF t, at
  <2>3. /\ account' \in Accounts /\ position' \in PositionRow /\ Sided(position')
        /\ torn' \in BOOLEAN /\ offbook' \in [cash: Int, pnl: Int]
    BY <1>0, <2>1, <2>2, ApplyFillType, NotedType
  <2>4. intents' \in Seq(Order) /\ Intents' = Intents
    <3> DEFINE row == [intents[Row] EXCEPT !.status = "executed", !.price = at]
    <3>1. intents \in Seq(Order) /\ Row \in DOMAIN intents
      BY <1>0, <2>1 DEF StorePart, Intents
    <3>2. intents[Row] \in Order
      BY <3>1
    <3>3. row \in Order
      BY <2>1, <3>2 DEF Order
    <3>4. intents' = [intents EXCEPT ![Row] = row]
      BY <2>2, <3>1
    <3> HIDE DEF row
    <3> QED
      BY <3>1, <3>3, <3>4, ExceptSeq DEF Intents
  <2>5. fills' \in Seq(Nat \ {0}) /\ Range(fills') \subseteq Intents
    <3>1. fills' \in Seq(Nat \ {0})
      BY <1>0, <2>1, <2>2, IntentFacts DEF StorePart
    <3>2. \A k \in DOMAIN fills' : fills'[k] \in Intents
      BY <1>0, <2>1, <2>2 DEF StorePart, Range
    <3> QED
      BY <3>1, <3>2 DEF Range
  <2> QED
    BY <1>0, <2>2, <2>3, <2>4, <2>5 DEF StorePart
<1>3. CASE BracketDecide
  <2>1. jread.decided \in PositionRow /\ jseen \in Int
    BY <1>0, PricesAreNumbers DEF JobPart, Read
  <2>2. Best \in Int
    BY <2>1, RatchetType DEF Best, Held
  <2>3. position' = position \/ position' = [position EXCEPT !.best = Best]
    BY <1>3 DEF BracketDecide
  <2>4. position' \in PositionRow /\ Sided(position')
    BY <1>0, <2>2, <2>3 DEF StorePart, PositionRow, Sided
  <2> QED
    BY <1>0, <1>3, <2>4 DEF StorePart, BracketDecide, Intents
<1>4. CASE ExitWrite
  <2>1. /\ Held \in PositionRow /\ Held.side \in Sides /\ Held.qty \in Nat \ {0}
        /\ Exit.price \in Int /\ Exit.kind \in {"stop", "target"}
    BY <1>4, ClosingFacts DEF ExitWrite, Exits
  <2>2. ApplyFill(Held, jread, Opposite(Held.side), Held.qty, Exit.price)
        /\ ledger' = Append(ledger, Closed(Held, Held.qty, Exit.price, Exit.kind))
        /\ UNCHANGED <<intents, fills, offbook>>
    BY <1>4 DEF ExitWrite
  <2>3. Opposite(Held.side) \in Sides
    BY <2>1, SideFacts
  <2>4. Closed(Held, Held.qty, Exit.price, Exit.kind) \in Closure
    BY <2>1, ClosedType
  <2> HIDE DEF Held, Exit
  <2>5. /\ account' \in Accounts /\ position' \in PositionRow /\ Sided(position')
        /\ torn' \in BOOLEAN
    BY <1>0, <2>1, <2>2, <2>3, ApplyFillType
  <2> QED
    BY <1>0, <2>2, <2>4, <2>5 DEF StorePart, Intents
<1>5. CASE CloseWrite
  <2> DEFINE decided == hread.decided
             row == Closed(decided, hread.qty, hread.price, "manual")
  <2>1. /\ decided \in PositionRow /\ decided.side \in Sides /\ hread.qty \in Nat \ {0}
        /\ hread.price \in Int
    BY <1>5, ClosingFacts DEF CloseWrite, Closes
  <2>2. ApplyFill(decided, hread, Opposite(decided.side), hread.qty, hread.price)
        /\ ledger' = Append(ledger, row) /\ UNCHANGED <<intents, fills, offbook>>
    BY <1>5 DEF CloseWrite
  <2>3. Opposite(decided.side) \in Sides
    BY <2>1, SideFacts
  <2>4. row \in Closure
    BY <2>1, ClosedType
  <2> HIDE DEF decided, row
  <2>5. /\ account' \in Accounts /\ position' \in PositionRow /\ Sided(position')
        /\ torn' \in BOOLEAN
    BY <1>0, <2>1, <2>2, <2>3, ApplyFillType
  <2> QED
    BY <1>0, <2>2, <2>4, <2>5 DEF StorePart, Intents
<1>6. ASSUME NEW t \in Tickets, SubmitInsert(t) PROVE StorePart'
  <2>1. [ticket |-> t, status |-> "pending", price |-> NoPrice] \in Order
    BY TicketsAssumption DEF Order, NoPrice
  <2>2. intents' \in Seq(Order) /\ Intents \subseteq Intents'
    BY <1>0, <1>6, <2>1 DEF StorePart, Intents, SubmitInsert
  <2> QED
    BY <1>0, <1>6, <2>2 DEF StorePart, SubmitInsert, Sided
<1>7. ASSUME NEW i \in Intents, Cancel(i) PROVE StorePart'
  <2>1. intents' \in Seq(Order) /\ Intents' = Intents
    <3> DEFINE row == [intents[i] EXCEPT !.status = "cancelled"]
    <3>1. intents \in Seq(Order) /\ i \in DOMAIN intents
      BY <1>0 DEF StorePart, Intents
    <3>2. row \in Order
      <4>1. intents[i] \in Order
        BY <3>1
      <4> QED
        BY <4>1 DEF Order
    <3>3. intents' = [intents EXCEPT ![i] = row]
      BY <1>7, <3>1 DEF Cancel
    <3> HIDE DEF row
    <3> QED
      BY <3>1, <3>2, <3>3, ExceptSeq DEF Intents
  <2> QED
    BY <1>0, <1>7, <2>1 DEF StorePart, Cancel, Sided
<1> QED
  BY Writers, <1>1, <1>2, <1>3, <1>4, <1>5, <1>6, <1>7

\* So do the job's variables, and its control says what it holds.
LEMMA JobStep == ASSUME RacesInv, [Next]_vars PROVE JobPart'
<1>0. StorePart /\ JobPart /\ PricePart /\ Sided(position) /\ TicketsKept
  BY Parts, TicketsStay DEF RacesInv
<1> DEFINE Frame == UNCHANGED <<fills, jseen>> /\ jread'.decided = jread.decided
<1>1. Frame => /\ Governing(Held.side)' = Governing(Held.side)
               /\ Governing(Held.side) # 0 => Exit' = Exit
  BY <1>0, ExitFrame
<1>2. NothingRead \in Read /\ Sided(Flat)
      /\ NothingRead.decided = Flat /\ NothingRead.position = Flat
  BY DEF NothingRead, Read, Flat, PositionRow, Accounts, Sided, NoPrice
<1>3. CASE UNCHANGED <<job, fills>>
  BY <1>0, <1>1, <1>3 DEF job, JobPart, JobControl, TicketsKept, Exits
<1>4. CASE JobPrices \/ JobSelect
  BY <1>0, <1>4 DEF JobPrices, JobSelect, store, JobPart, JobControl, PricePart, Exits, Intents
<1>5. CASE RowSkip \/ RowReadAccount \/ RowReadPosition
  BY <1>0, <1>2, <1>5 DEF RowSkip, RowReadAccount, RowReadPosition, store, JobPart, JobControl,
                          StorePart, Exits, Intents, Read, Sided
<1>6. CASE RowWrite \/ RowConflict \/ RowsCommit
  BY <1>0, <1>2, <1>6 DEF RowWrite, RowConflict, RowsCommit, store, JobPart, JobControl,
                          TicketsKept, Exits, Intents, NoPrice
<1>7. CASE BracketSelect
  <2>1. jrows' = jrows /\ UNCHANGED store
    BY <1>7 DEF BracketSelect
  <2>2. CASE position.qty = 0 \/ jseen = NoPrice
    BY <1>0, <1>2, <1>7, <2>1, <2>2 DEF BracketSelect, store, JobPart, JobControl, JobEnds,
                                        Exits, Intents, NoPrice
  <2>3. CASE ~(position.qty = 0 \/ jseen = NoPrice)
    <3>1. /\ jpc' = "governing" /\ jread' = [NothingRead EXCEPT !.decided = position]
          /\ UNCHANGED <<jseen, lock>>
      BY <1>7, <2>3 DEF BracketSelect
    <3>2. jread'.decided = position /\ jread'.position = Flat /\ jread' \in Read
      BY <1>0, <1>2, <3>1 DEF NothingRead, Read, StorePart
    <3>3. position.qty > 0
      BY <1>0, <2>3 DEF StorePart, PositionRow
    <3> QED
      BY <1>0, <1>2, <2>1, <2>3, <3>1, <3>2, <3>3 DEF store, JobPart, JobControl, Exits, Intents
  <2> QED
    BY <2>2, <2>3
<1>8. CASE BracketDecide
  BY <1>0, <1>1, <1>2, <1>8 DEF BracketDecide, JobPart, JobControl, JobEnds, Exits, Intents,
                                NoPrice
<1>9. CASE ExitReadAccount \/ ExitReadPosition
  <2>1. Frame /\ jread' \in Read /\ Sided(jread'.position) /\ Sided(jread'.decided)
    BY <1>0, <1>9 DEF ExitReadAccount, ExitReadPosition, store, JobPart, JobControl,
                      StorePart, Read
  <2> QED
    BY <1>0, <1>1, <1>9, <2>1 DEF ExitReadAccount, ExitReadPosition, store, JobPart, JobControl,
                                  Exits, Intents
<1>10. CASE ExitWrite
  BY <1>0, <1>2, <1>10 DEF ExitWrite, JobPart, JobControl, JobEnds, Exits, Intents, NoPrice
<1>11. ASSUME NEW t \in Tickets,
              SubmitReadAccount(t) \/ SubmitReadPosition(t) \/ SubmitInsert(t)
       PROVE  UNCHANGED <<job, fills>>
  BY <1>11 DEF SubmitReadAccount, SubmitReadPosition, SubmitInsert, store
<1>12. ASSUME NEW i \in Intents, Cancel(i) PROVE UNCHANGED <<job, fills>>
  BY <1>12 DEF Cancel
<1>13. ASSUME NEW asked \in 1..position.qty, CloseSelect(asked) PROVE UNCHANGED <<job, fills>>
  BY <1>13 DEF CloseSelect, store
<1>14. CASE CloseReadAccount \/ CloseReadPosition \/ CloseWrite \/ CloseConflict \/ HandlerTimeout
  <2>1. UNCHANGED <<job, fills>>
    BY <1>14 DEF CloseReadAccount, CloseReadPosition, CloseWrite, CloseConflict,
                 HandlerTimeout, store
  <2> QED
    BY <1>3, <2>1
<1>15. ASSUME NEW p \in Prices, NewCandle(p) PROVE UNCHANGED <<job, fills>>
  BY <1>15 DEF NewCandle, store
<1>16. CASE UNCHANGED vars
  BY <1>3, <1>16 DEF vars, store
<1> QED
  BY <1>3, <1>4, <1>5, <1>6, <1>7, <1>8, <1>9, <1>10, <1>11, <1>12, <1>13, <1>14, <1>15, <1>16
     DEF Next

\* So does the handler.
LEMMA HandlerStep == ASSUME RacesInv, [Next]_vars PROVE HandlerPart'
<1>0. StorePart /\ HandlerPart /\ PricePart /\ Sided(position) /\ position.qty \in Nat
  BY Parts DEF RacesInv, StorePart, PositionRow
<1>1. NothingRead \in Read /\ NothingRead.decided = Flat /\ NothingRead.position = Flat
      /\ Sided(Flat)
  BY DEF NothingRead, Read, Flat, PositionRow, Accounts, Sided, NoPrice
<1>2. CASE UNCHANGED handler
  BY <1>0, <1>2 DEF handler, HandlerPart, HandlerControl
<1>3. CASE HandlerEnds
  BY <1>0, <1>1, <1>3 DEF HandlerEnds, HandlerPart, HandlerControl, Closes
<1>4. ASSUME NEW t \in Tickets,
             SubmitReadAccount(t) \/ SubmitReadPosition(t) \/ SubmitInsert(t)
      PROVE  HandlerPart'
  <2>1. CASE SubmitReadAccount(t)
    <3>1. hpc' = "guard" /\ hread' = [NothingRead EXCEPT !.ticket = {t}]
      BY <2>1 DEF SubmitReadAccount
    <3>2. hread' \in Read /\ hread'.decided = Flat /\ hread'.position = Flat
      BY <1>1, <3>1 DEF Read, NothingRead
    <3> QED
      BY <1>1, <3>1, <3>2 DEF HandlerPart, HandlerControl, Closes
  <2>2. CASE SubmitReadPosition(t)
    BY <1>0, <1>3, <2>2 DEF SubmitReadPosition, HandlerPart, HandlerControl, Closes
  <2>3. CASE SubmitInsert(t)
    BY <1>3, <2>3 DEF SubmitInsert
  <2> QED
    BY <1>4, <2>1, <2>2, <2>3
<1>5. ASSUME NEW asked \in 1..position.qty, CloseSelect(asked) PROVE HandlerPart'
  <2>1. /\ hpc' = "account" /\ position.qty > 0 /\ price # NoPrice
        /\ hread' = [NothingRead EXCEPT !.decided = position, !.price = price, !.qty = asked]
    BY <1>5 DEF CloseSelect
  <2>2. price \in Nat /\ asked \in Nat /\ position \in PositionRow
    BY <1>0, PricesAreNumbers DEF PricePart, StorePart
  <2>3. /\ hread' \in Read /\ hread'.decided = position /\ hread'.position = Flat
        /\ hread'.qty = asked /\ hread'.price = price
    BY <1>1, <2>1, <2>2 DEF Read, NothingRead
  <2> QED
    BY <1>0, <1>1, <2>1, <2>3 DEF HandlerPart, HandlerControl, Closes
<1>6. CASE CloseReadAccount \/ CloseReadPosition
  <2>1. /\ \/ hread' = [hread EXCEPT !.account = account]
           \/ hread' = [hread EXCEPT !.position = position]
        /\ hpc \in Closes /\ hpc' \in {"position", "write"}
    BY <1>6 DEF CloseReadAccount, CloseReadPosition, Closes
  <2>2. /\ hread' \in Read /\ hread'.decided = hread.decided /\ hread'.qty = hread.qty
        /\ hread'.price = hread.price /\ hread'.position \in {hread.position, position}
    BY <1>0, <2>1 DEF HandlerPart, StorePart, Read
  <2> QED
    BY <1>0, <2>1, <2>2 DEF HandlerPart, HandlerControl
<1>7. CASE CloseWrite \/ CloseConflict \/ HandlerTimeout
  BY <1>3, <1>7 DEF CloseWrite, CloseConflict, HandlerTimeout
<1>8. ASSUME NEW i \in Intents, Cancel(i) PROVE UNCHANGED handler
  BY <1>8 DEF Cancel
<1>9. ASSUME NEW p \in Prices, NewCandle(p) PROVE UNCHANGED handler
  BY <1>9 DEF NewCandle
<1>10. CASE JobPrices \/ JobSelect \/ RowSkip \/ RowReadAccount \/ RowReadPosition \/ RowWrite
            \/ RowConflict \/ RowsCommit \/ BracketSelect \/ BracketDecide
            \/ ExitReadAccount \/ ExitReadPosition \/ ExitWrite
  <2>1. UNCHANGED handler
    BY <1>10 DEF JobPrices, JobSelect, RowSkip, RowReadAccount, RowReadPosition, RowWrite,
                 RowConflict, RowsCommit, BracketSelect, BracketDecide, ExitReadAccount,
                 ExitReadPosition, ExitWrite
  <2> QED
    BY <1>2, <2>1
<1>11. CASE UNCHANGED vars
  BY <1>2, <1>11 DEF vars
<1> QED
  BY <1>2, <1>4, <1>5, <1>6, <1>7, <1>8, <1>9, <1>10, <1>11 DEF Next

\* The market prints what it may.
LEMMA PriceStep == ASSUME RacesInv, [Next]_vars PROVE PricePart'
<1>0. PricePart
  BY Parts
<1>1. CASE UNCHANGED price
  BY <1>0, <1>1 DEF PricePart
<1>2. ASSUME NEW p \in Prices, NewCandle(p) PROVE PricePart'
  BY <1>2 DEF NewCandle, PricePart
<1>3. CASE \/ JobPrices \/ JobSelect \/ RowSkip \/ RowReadAccount \/ RowReadPosition \/ RowWrite
           \/ RowConflict \/ RowsCommit \/ BracketSelect \/ BracketDecide
           \/ ExitReadAccount \/ ExitReadPosition \/ ExitWrite
           \/ CloseReadAccount \/ CloseReadPosition \/ CloseWrite \/ CloseConflict
           \/ HandlerTimeout
  <2>1. UNCHANGED price
    BY <1>3 DEF JobPrices, JobSelect, RowSkip, RowReadAccount, RowReadPosition, RowWrite,
                RowConflict, RowsCommit, BracketSelect, BracketDecide, ExitReadAccount,
                ExitReadPosition, ExitWrite, CloseReadAccount, CloseReadPosition, CloseWrite,
                CloseConflict, HandlerTimeout
  <2> QED
    BY <1>1, <2>1
<1>4. ASSUME NEW t \in Tickets,
             SubmitReadAccount(t) \/ SubmitReadPosition(t) \/ SubmitInsert(t)
      PROVE  UNCHANGED price
  BY <1>4 DEF SubmitReadAccount, SubmitReadPosition, SubmitInsert
<1>5. ASSUME NEW i \in Intents, Cancel(i) PROVE UNCHANGED price
  BY <1>5 DEF Cancel
<1>6. ASSUME NEW asked \in 1..position.qty, CloseSelect(asked) PROVE UNCHANGED price
  BY <1>6 DEF CloseSelect
<1>7. CASE UNCHANGED vars
  BY <1>1, <1>7 DEF vars
<1> QED
  BY <1>1, <1>2, <1>3, <1>4, <1>5, <1>6, <1>7 DEF Next

\* Types and control hold at the start and are kept by every step.
LEMMA RacesInit == Init => RacesInv
<1> SUFFICES ASSUME Init PROVE RacesInv
  OBVIOUS
<1>1. StorePart
  <2>1. account \in Accounts
    BY RacesAssumption DEF Init, Accounts
  <2>2. position \in PositionRow /\ Sided(position)
    BY DEF Init, Flat, PositionRow, Sided, NoPrice
  <2>3. intents \in Seq(Order) /\ fills \in Seq(Nat \ {0}) /\ Range(fills) \subseteq Intents
    BY DEF Init, Range
  <2>4. ledger \in Seq(Closure) /\ offbook \in [cash: Int, pnl: Int]
    BY DEF Init
  <2>5. torn \in BOOLEAN
    BY DEF Init
  <2> QED
    BY <2>1, <2>2, <2>3, <2>4, <2>5 DEF StorePart
<1>2. NothingRead \in Read /\ Sided(Flat) /\ NothingRead.decided = Flat
      /\ NothingRead.position = Flat
  BY DEF NothingRead, Read, Flat, PositionRow, Accounts, Sided, NoPrice
<1>3. JobPart /\ HandlerPart /\ PricePart
  BY <1>2 DEF Init, JobPart, HandlerPart, PricePart, JobControl, HandlerControl, Exits, Closes
<1> QED
  BY <1>1, <1>3, Parts

\* A step of the store, the job, a handler or the price keeps the invariant.
LEMMA RacesStep == RacesInv /\ [Next]_vars => RacesInv'
BY StoreStep, JobStep, HandlerStep, PriceStep, PartsNext

\* The invariant holds in every reachable state.
LEMMA RacesInvariant == Spec => []RacesInv
BY RacesInit, RacesStep, PTL DEF Spec

\* Tables, control and everything a thread has read keep their types, whatever
\* the interleaving of statements.
THEOREM StatementsKeepTypes == Spec => []TypeOK
<1>1. RacesInv => TypeOK
  BY DEF RacesInv
<1> QED
  BY <1>1, RacesInvariant, PTL

-----------------------------------------------------------------------------
(* No order is filled twice.                                               *)

\* The rows the job has selected are still unfilled when it comes to them: only
\* the job fills, and a rolled back run gives its rows up.
LEMMA FillsStep == RacesInv /\ FillsInv /\ [Next]_vars => FillsInv'
<1> SUFFICES ASSUME RacesInv, FillsInv, [Next]_vars PROVE FillsInv'
  OBVIOUS
<1>0. /\ TypeOK /\ intents \in Seq(Order) /\ fills \in Seq(Nat \ {0}) /\ jrows \subseteq Intents
      /\ \A k \in DOMAIN fills : fills[k] \in Intents /\ fills[k] \notin jrows
  BY DEF RacesInv, TypeOK, FillsInv, Range
<1>1. ASSUME UNCHANGED fills, jrows' \subseteq jrows,
             \A i \in Intents : intents[i].status = "executed" => intents'[i].status = "executed"
      PROVE  FillsInv'
  BY <1>0, <1>1 DEF FillsInv, FilledOnce
<1>2. CASE JobSelect
  <2>1. \A i \in jrows' : intents[i].status = "pending"
    BY <1>2 DEF JobSelect
  <2>2. UNCHANGED <<fills, intents>>
    BY <1>2 DEF JobSelect, store
  <2>3. jrows' \cap Range(fills) = {}
    BY <2>1 DEF FillsInv, Range
  <2> QED
    BY <2>2, <2>3 DEF FillsInv, FilledOnce
<1>3. CASE RowWrite
  <2>1. Row \in jrows /\ Row \in Intents
    BY <1>0, <1>3, RowFacts DEF RowWrite, RacesInv, JobControl
  <2>2. fills' = Append(fills, Row) /\ jrows' = jrows \ {Row}
    BY <1>3 DEF RowWrite
  <2>3. intents'[Row].status = "executed"
        /\ \A i \in Intents : intents[i].status = "executed" => intents'[i].status = "executed"
    <3>1. intents' = [intents EXCEPT ![Row].status = "executed",
                                     ![Row].price = ExecutedPrice(intents[Row].ticket, RowPrice)]
      BY <1>3 DEF RowWrite
    <3>2. \A i \in Intents : intents[i] \in Order
      BY <1>0 DEF Intents
    <3> HIDE DEF Row
    <3> QED
      BY <2>1, <3>1, <3>2 DEF Intents, Order
  <2>4. /\ DOMAIN fills = 1..Len(fills) /\ Len(fills) \in Nat
        /\ DOMAIN fills' = 1..(Len(fills) + 1) /\ fills'[Len(fills) + 1] = Row
        /\ \A k \in DOMAIN fills : fills'[k] = fills[k]
    BY <1>0, <2>1, <2>2, IntentFacts
  <2> HIDE DEF Row
  <2>5. FilledOnce'
    BY <1>0, <2>1, <2>4 DEF FilledOnce, FillsInv
  <2>6. \A k \in DOMAIN fills' : intents'[fills'[k]].status = "executed" /\ fills'[k] \notin jrows'
    BY <1>0, <2>1, <2>2, <2>3, <2>4 DEF FillsInv
  <2> QED
    BY <2>5, <2>6 DEF FillsInv, Range
<1>4. ASSUME NEW i \in Intents, Cancel(i) PROVE FillsInv'
  <2>1. \A j \in Intents : intents[j].status = "executed" => intents'[j].status = "executed"
    BY <1>0, <1>4 DEF Cancel, Intents
  <2> QED
    BY <1>1, <1>4, <2>1 DEF Cancel, job
<1>5. ASSUME NEW t \in Tickets, SubmitInsert(t) PROVE FillsInv'
  <2>1. \A j \in Intents : intents'[j] = intents[j]
    BY <1>0, <1>5 DEF SubmitInsert, Intents
  <2> QED
    BY <1>1, <1>5, <2>1 DEF SubmitInsert, job
<1>6. CASE UNCHANGED store /\ jrows' \subseteq jrows
  BY <1>1, <1>6 DEF store
<1>7. CASE RowSkip \/ RowConflict
  BY <1>6, <1>7 DEF RowSkip, RowConflict
<1>8. CASE \/ JobPrices \/ RowReadAccount \/ RowReadPosition \/ RowsCommit \/ BracketSelect
           \/ BracketDecide \/ ExitReadAccount \/ ExitReadPosition \/ ExitWrite
           \/ CloseReadAccount \/ CloseReadPosition \/ CloseWrite \/ CloseConflict
           \/ HandlerTimeout
  <2>1. UNCHANGED <<fills, intents, jrows>>
    BY <1>8 DEF JobPrices, RowReadAccount, RowReadPosition, RowsCommit, BracketSelect,
                BracketDecide, ExitReadAccount, ExitReadPosition, ExitWrite, CloseReadAccount,
                CloseReadPosition, CloseWrite, CloseConflict, HandlerTimeout, store, job
  <2> QED
    BY <1>1, <2>1
<1>9. ASSUME NEW t \in Tickets, SubmitReadAccount(t) \/ SubmitReadPosition(t) PROVE FillsInv'
  BY <1>6, <1>9 DEF SubmitReadAccount, SubmitReadPosition, job
<1>10. ASSUME NEW asked \in 1..position.qty, CloseSelect(asked) PROVE FillsInv'
  BY <1>6, <1>10 DEF CloseSelect, job
<1>11. ASSUME NEW p \in Prices, NewCandle(p) PROVE FillsInv'
  BY <1>6, <1>11 DEF NewCandle, job
<1>12. CASE UNCHANGED vars
  BY <1>6, <1>12 DEF vars, job
<1> QED
  BY <1>2, <1>3, <1>4, <1>5, <1>7, <1>8, <1>9, <1>10, <1>11, <1>12 DEF Next

\* However submissions, cancels and closes fall between the statements of the
\* job, and however often a run is rolled back, no order is filled twice.
THEOREM NoOrderFilledTwice == Spec => []FilledOnce
<1>1. Init => FillsInv
  BY DEF Init, FillsInv, FilledOnce, Range
<1>2. FillsInv => FilledOnce
  BY DEF FillsInv
<1> QED
  BY <1>1, <1>2, FillsStep, RacesInvariant, PTL DEF Spec

-----------------------------------------------------------------------------
(* No stale read holds more than was ordered.                              *)

\* What was bought is a number, changed by fills only.
LEMMA BoughtType == ASSUME TypeOK PROVE Bought \in Int
<1> DEFINE f == [k \in DOMAIN fills |-> intents[fills[k]].ticket.qty]
<1>1. /\ DOMAIN fills = 1..Len(fills) /\ Len(fills) \in Nat
      /\ \A k \in DOMAIN fills : fills[k] \in Intents
  BY DEF TypeOK, Range
<1>2. \A k \in DOMAIN fills : intents[fills[k]].ticket.qty \in Int
  BY <1>1, IntentFacts
<1>3. f \in [1..Len(fills) -> Int] /\ IsFiniteSet(1..Len(fills)) /\ Bought = SumFunction(f)
  BY <1>1, <1>2, FS_Interval DEF Bought
<1> HIDE DEF f
<1> QED
  BY <1>3, SumType

\* What was bought is a sum over the fills: no new fill, no change.
LEMMA BoughtStays == ASSUME TypeOK, TicketsKept, UNCHANGED fills PROVE Bought' = Bought
<1>1. \A k \in DOMAIN fills : intents'[fills[k]].ticket = intents[fills[k]].ticket
  BY DEF TypeOK, Range, TicketsKept
<1> QED
  BY <1>1 DEF Bought

\* A fill adds its ticket's quantity to what was bought.
LEMMA BoughtGrows ==
    ASSUME TypeOK, TypeOK', TicketsKept, NEW i \in Intents, fills' = Append(fills, i)
    PROVE  Bought' = Bought + intents[i].ticket.qty
<1> DEFINE n == Len(fills)
           f == [k \in DOMAIN fills |-> intents[fills[k]].ticket.qty]
           g == [k \in DOMAIN fills' |-> intents'[fills'[k]].ticket.qty]
<1>1. /\ n \in Nat /\ DOMAIN fills = 1..n /\ DOMAIN fills' = 1..(n + 1)
      /\ fills'[n + 1] = i /\ \A k \in 1..n : fills'[k] = fills[k]
      /\ \A k \in 1..n : fills[k] \in Intents
  BY IntentFacts DEF TypeOK, Range
<1>2. \A j \in Intents : intents'[j].ticket = intents[j].ticket /\ intents[j].ticket.qty \in Int
  BY IntentFacts DEF TicketsKept
<1> HIDE DEF n
<1>3. f \in [1..n -> Int] /\ g \in [1..(n + 1) -> Int] /\ (\A k \in 1..n : g[k] = f[k])
      /\ g[n + 1] = intents[i].ticket.qty
  <2>1. \A k \in 1..n : f[k] \in Int /\ g[k] = f[k]
    BY <1>1, <1>2
  <2>2. g[n + 1] = intents[i].ticket.qty /\ intents[i].ticket.qty \in Int
    BY <1>1, <1>2
  <2>3. f \in [1..n -> Int]
    BY <1>1, <2>1
  <2>4. \A k \in 1..(n + 1) : k \in 1..n \/ k = n + 1
    BY <1>1
  <2>5. \A k \in 1..(n + 1) : g[k] \in Int
    BY <2>1, <2>2, <2>4
  <2>6. g \in [1..(n + 1) -> Int]
    BY <1>1, <2>5
  <2> QED
    BY <2>1, <2>2, <2>3, <2>6
<1>4. Bought = SumFunction(f) /\ Bought' = SumFunction(g)
  BY DEF Bought
<1> HIDE DEF f, g
<1> QED
  BY <1>1, <1>3, <1>4, SumAppend

\* The quantities and sides that a write leaves behind.  An UPDATE keeps the side
\* of the row that is there, whatever side the quantity was computed for.
LEMMA WrittenPosition ==
    ASSUME TypeOK, NEW decided, NEW read \in Read, NEW side \in Sides, NEW qty \in Nat \ {0},
           NEW at \in Int, ApplyFill(decided, read, side, qty, at)
    PROVE  LET was == read.position
           IN  \/ position'.qty = 0
               \/ was.qty = 0 /\ position.qty = 0 /\ position'.side = side /\ position'.qty = qty
               \/ /\ was.qty > 0 /\ was.side # side /\ was.qty < qty
                  /\ position'.side = side /\ position'.qty = qty - was.qty
               \/ /\ was.qty > 0 /\ position.qty > 0 /\ was.side = side
                  /\ position'.side = position.side /\ position'.qty = was.qty + qty
               \/ /\ was.qty > 0 /\ position.qty > 0 /\ was.side # side /\ qty < was.qty
                  /\ position'.side = position.side /\ position'.qty = was.qty - qty
<1> DEFINE was == read.position
           filled == FilledPosition(was, side, qty, at)
<1>1. was \in PositionRow /\ was.qty \in Nat /\ position \in PositionRow /\ position.qty \in Nat
  BY DEF Read, PositionRow, TypeOK
<1>2. position' = Overwritten(read, side, qty, at) /\ ~(was.qty = 0 /\ position.qty > 0)
  BY DEF ApplyFill, Conflicts
<1> HIDE DEF was
<1>3. CASE was.qty = 0
  <2>1. filled.qty = qty /\ filled.side = side
    BY <1>3 DEF FilledPosition, Opened, Holding
  <2>2. position' = filled
    BY <1>2, <1>3 DEF Overwritten, was
  <2> QED
    BY <1>1, <1>2, <1>3, <2>1, <2>2 DEF was
<1>4. CASE was.qty > 0 /\ was.side = side
  <2>1. filled.qty = was.qty + qty /\ filled.side = side
    BY <1>4 DEF FilledPosition, Holding
  <2>2. position' = IF position.qty = 0 THEN Flat
                    ELSE [position EXCEPT !.qty = filled.qty, !.avg = filled.avg]
    BY <1>1, <1>2, <1>4, <2>1 DEF Overwritten, was
  <2> HIDE DEF filled
  <2>3. \/ position'.qty = 0
        \/ position.qty > 0 /\ position'.side = position.side /\ position'.qty = filled.qty
    BY <1>1, <2>2 DEF Flat, PositionRow
  <2> QED
    BY <1>4, <2>1, <2>3 DEF was
<1>5. CASE was.qty > 0 /\ was.side # side /\ qty < was.qty
  <2>1. filled.qty = was.qty - qty /\ filled.side = was.side
    BY <1>1, <1>5 DEF FilledPosition, Holding
  <2>2. position' = IF position.qty = 0 THEN Flat
                    ELSE [position EXCEPT !.qty = filled.qty,
                                          !.avg = IF side = was.side THEN filled.avg ELSE @]
    BY <1>1, <1>2, <1>5, <2>1 DEF Overwritten, was
  <2> HIDE DEF filled
  <2>3. \/ position'.qty = 0
        \/ position.qty > 0 /\ position'.side = position.side /\ position'.qty = filled.qty
    BY <1>1, <2>2 DEF Flat, PositionRow
  <2> QED
    BY <1>5, <2>1, <2>3 DEF was
<1>6. CASE was.qty > 0 /\ was.side # side /\ qty = was.qty
  <2>1. filled = Flat
    BY <1>6 DEF FilledPosition
  <2>2. position' = Flat
    BY <1>2, <2>1 DEF Overwritten, was, Flat
  <2> QED
    BY <2>2 DEF Flat
<1>7. CASE was.qty > 0 /\ was.side # side /\ qty > was.qty
  <2>1. filled.qty = qty - was.qty /\ filled.side = side
    BY <1>7 DEF FilledPosition, Opened, Holding
  <2>2. position' = filled
    BY <1>2, <1>7, <2>1 DEF Overwritten, was
  <2> QED
    BY <1>1, <1>7, <2>1, <2>2 DEF was
<1> QED
  BY <1>1, <1>3, <1>4, <1>5, <1>6, <1>7

\* The quantities the bound is about are numbers, and what a call works from has
\* a side.
LEMMA BoundNumbers ==
    ASSUME RacesInv
    PROVE  /\ position.qty \in Nat /\ Bought \in Int
           /\ jread.decided.qty \in Nat /\ jread.position.qty \in Nat
           /\ hread.decided.qty \in Nat /\ hread.position.qty \in Nat /\ hread.qty \in Nat
           /\ jread \in Read /\ hread \in Read
BY BoughtType DEF RacesInv, TypeOK, Read, PositionRow

\* A fill by the job.
LEMMA BoundRowWrite == ASSUME RacesInv, RacesInv', TicketsKept, BoundInv, RowWrite PROVE BoundInv'
<1> DEFINE t == intents[Row].ticket
           at == ExecutedPrice(t, RowPrice)
           B == Bought
           more == t.qty
           was == jread.position
<1>1. /\ Row \in Intents /\ at \in Nat \ {0} /\ t.side \in Sides /\ more \in Nat \ {0}
      /\ TypeOK /\ TypeOK'
  BY RowFacts, IntentFacts DEF RowWrite, RacesInv, JobControl
<1>2. /\ ApplyFill(was, jread, t.side, more, at) /\ fills' = Append(fills, Row)
      /\ jpc = "write" /\ jpc' = "rows" /\ jread' = NothingRead /\ UNCHANGED <<hpc, hread>>
  BY DEF RowWrite, handler
<1>3. Bought' = B + more /\ B \in Int
  BY <1>1, <1>2, BoughtGrows, BoughtType
<1>4. /\ position.qty \in Nat /\ position'.qty \in Nat /\ was.qty \in Nat
      /\ hread.decided.qty \in Nat /\ hread.position.qty \in Nat /\ hread.qty \in Nat
      /\ jread'.decided.qty = 0 /\ jread'.position.qty = 0
  BY <1>1, <1>2, BoundNumbers DEF NothingRead, Flat, TypeOK, PositionRow
<1>5. /\ position.qty <= B /\ was.qty <= B /\ hread.decided.qty <= B /\ hread.position.qty <= B
  BY DEF BoundInv, ReadsBounded
<1>6. hpc \in Closes =>
         /\ hread.decided.side \in Sides /\ hread.qty <= hread.decided.qty
         /\ \/ Same(position, was)
            \/ Same(position, hread.decided)
               /\ (hpc = "write" => Same(hread.position, hread.decided))
  BY <1>2, ClosingFacts DEF BoundInv, JobReadsLast, HandlerFresh, Same
<1>7. \/ position'.qty = 0
      \/ position'.qty <= more
      \/ /\ was.qty > 0 /\ position.qty > 0
         /\ position'.side = position.side /\ position'.qty <= was.qty + more
  <2>1. jread \in Read
    BY BoundNumbers
  <2> HIDE DEF t, at
  <2> QED
    BY <1>1, <1>2, <1>4, <2>1, WrittenPosition
<1> HIDE DEF B, more, was, t, at
<1>8. ReadsBounded'
  <2>1. more \in Nat /\ B \in Int /\ Bought' = B + more
    BY <1>1, <1>3
  <2>2. 0 <= B
    BY <2>1, <1>4, <1>5
  <2>3. position'.qty <= B + more
    <3>1. CASE position'.qty = 0
      BY <3>1, <2>1, <2>2
    <3>2. CASE position'.qty <= more
      BY <3>2, <2>1, <2>2, <1>4
    <3>3. CASE position'.qty <= was.qty + more
      BY <3>3, <2>1, <1>4, <1>5
    <3> QED BY <1>7, <3>1, <3>2, <3>3
  <2>4. jread'.decided.qty <= B + more /\ jread'.position.qty <= B + more
    BY <1>4, <2>1, <2>2
  <2>5. hread' = hread
    BY <1>2
  <2>6. hread'.decided.qty <= B + more /\ hread'.position.qty <= B + more
    BY <1>4, <1>5, <2>1, <2>5
  <2> QED BY <2>1, <2>3, <2>4, <2>6 DEF ReadsBounded
<1>9. JobReadsLast' /\ ExitReads'
  BY <1>2 DEF JobReadsLast, ExitReads, Exits
<1>10. RoomLeft'
  <2>1. ASSUME hpc \in {"account", "position"}
        PROVE  Room(position, hread.decided, hread.qty)'
    <3>1. Room(position, hread.decided, hread.qty) /\ hpc \in Closes
      BY <2>1 DEF BoundInv, RoomLeft, Closes
    <3> DEFINE asked == hread.qty
    <3>2. asked \in Nat /\ asked <= B
      BY <1>3, <1>4, <1>5, <1>6, <3>1
    <3>3. ASSUME position'.qty > 0, position'.side = Opposite(hread.decided.side)
          PROVE  position'.qty + asked <= B + more
      <4>1. CASE position'.qty <= more
        <5> HIDE DEF asked
        <5> QED
          BY <1>1, <1>3, <1>4, <3>2, <4>1
      <4>2. CASE /\ position.qty > 0 /\ position'.side = position.side
                 /\ position'.qty <= was.qty + more
        <5>1. position.side # hread.decided.side
          BY <1>6, <3>1, <3>3, <4>2, SideFacts
        <5>2. position.qty = was.qty
          BY <1>6, <3>1, <5>1 DEF Same
        <5>3. position.qty + asked <= B
          BY <3>1, <3>3, <4>2 DEF Room, B
        <5> HIDE DEF asked
        <5> QED
          BY <1>1, <1>3, <1>4, <3>2, <4>2, <5>2, <5>3
      <4> QED
        BY <1>1, <1>4, <1>7, <3>3, <4>1, <4>2
    <3> QED
      BY <1>2, <1>3, <3>3 DEF Room
  <2>2. ASSUME hpc = "write"
        PROVE  /\ Room(hread.position, hread.decided, hread.qty)'
               /\ (/\ position'.qty > 0 /\ position'.side = hread.decided.side
                   /\ hread.position.side = hread.decided.side
                   /\ hread.position.qty < hread.qty)
                  => position'.qty + (hread.qty - hread.position.qty) <= B + more
    <3>1. Room(hread.position, hread.decided, hread.qty) /\ hpc \in Closes
      BY <2>2 DEF BoundInv, RoomLeft, Closes
    <3>2. (/\ position.qty > 0 /\ position.side = hread.decided.side
           /\ hread.position.side = hread.decided.side /\ hread.position.qty < hread.qty)
          => position.qty + (hread.qty - hread.position.qty) <= B
      BY <2>2 DEF BoundInv, RoomLeft, B
    <3>3. Room(hread.position, hread.decided, hread.qty)'
      BY <1>1, <1>2, <1>3, <1>4, <3>1 DEF Room, B
    <3>4. (/\ position'.qty > 0 /\ position'.side = hread.decided.side
           /\ hread.position.side = hread.decided.side
           /\ hread.position.qty < hread.qty)
          => position'.qty + (hread.qty - hread.position.qty) <= B + more
      <4> SUFFICES ASSUME position'.qty > 0, position'.side = hread.decided.side,
                          hread.position.side = hread.decided.side,
                          hread.position.qty < hread.qty
                   PROVE  position'.qty + (hread.qty - hread.position.qty) <= B + more
        OBVIOUS
      <4> DEFINE over == hread.qty - hread.position.qty
      <4>1. over \in Int /\ over <= B /\ over > 0
        BY <1>3, <1>4, <1>5, <1>6, <3>1
      <4>2. CASE position'.qty <= more
        <5> HIDE DEF over
        <5>1. position'.qty + over <= B + more
          BY <1>1, <1>3, <1>4, <4>1, <4>2
        <5> QED
          BY <5>1 DEF over
      <4>3. CASE /\ position.qty > 0 /\ position'.side = position.side
                 /\ position'.qty <= was.qty + more
        <5>1. position.qty = was.qty
          BY <1>4, <1>6, <2>2, <3>1 DEF Same
        <5>2. position.qty + over <= B
          BY <3>2, <4>3
        <5> HIDE DEF over
        <5>3. position'.qty + over <= B + more
          BY <1>1, <1>3, <1>4, <4>1, <4>3, <5>1, <5>2
        <5> QED
          BY <5>3 DEF over
      <4> QED
        BY <1>1, <1>4, <1>7, <4>2, <4>3
    <3> QED
      BY <3>3, <3>4
  <2> QED
    BY <1>2, <1>3, <2>1, <2>2 DEF RoomLeft, Exits
<1> QED
  BY <1>8, <1>9, <1>10 DEF BoundInv

\* An exit by the job.
LEMMA BoundExitWrite == ASSUME RacesInv, RacesInv', TicketsKept, BoundInv, ExitWrite PROVE BoundInv'
<1> DEFINE B == Bought
           was == jread.position
           held == jread.decided
<1>1. /\ ApplyFill(held, jread, Opposite(held.side), held.qty, Exit.price) /\ UNCHANGED fills
      /\ jpc = "exitWrite" /\ jpc' = "idle" /\ jread' = NothingRead /\ UNCHANGED <<hpc, hread>>
  BY DEF ExitWrite, JobEnds, handler, Held
<1>2. Bought' = B /\ B \in Int
  BY <1>1, BoughtStays, BoughtType DEF RacesInv
<1>3. /\ position.qty \in Nat /\ position'.qty \in Nat /\ was.qty \in Nat
      /\ hread.decided.qty \in Nat /\ hread.position.qty \in Nat /\ hread.qty \in Nat
      /\ jread'.decided.qty = 0 /\ jread'.position.qty = 0
      /\ held.side \in Sides /\ held.qty \in Nat \ {0} /\ jread \in Read /\ Exit.price \in Int
  <2>1. position'.qty \in Nat
    BY DEF RacesInv, TypeOK, PositionRow
  <2>2. jpc \in Exits
    BY <1>1 DEF Exits
  <2> QED
    BY <1>1, <2>1, <2>2, BoundNumbers, ClosingFacts DEF NothingRead, Flat, Held
<1>4. /\ position.qty <= B /\ was.qty <= B /\ hread.decided.qty <= B /\ hread.position.qty <= B
      /\ held.qty <= B
  BY DEF BoundInv, ReadsBounded
<1>5. \/ Same(was, held)
      \/ /\ HandlerFresh
         /\ position.qty > 0 => position.side = was.side /\ position.qty <= was.qty
  BY <1>1 DEF BoundInv, ExitReads
<1>6. was.qty > 0 /\ was.side = Opposite(held.side) => was.qty + held.qty <= B
  BY <1>1 DEF BoundInv, RoomLeft, Room
<1>7. Opposite(held.side) \in Sides /\ Opposite(held.side) # held.side
  BY <1>3, SideFacts
<1>8. \/ position'.qty = 0
      \/ was.qty = 0 /\ position.qty = 0 /\ position'.qty = held.qty
      \/ /\ was.qty > 0 /\ was.side # Opposite(held.side) /\ was.qty < held.qty
         /\ position'.qty = held.qty - was.qty /\ position'.side = Opposite(held.side)
      \/ /\ was.qty > 0 /\ position.qty > 0 /\ was.side = Opposite(held.side)
         /\ position'.side = position.side /\ position'.qty = was.qty + held.qty
      \/ /\ was.qty > 0 /\ position.qty > 0 /\ was.side # Opposite(held.side)
         /\ held.qty < was.qty /\ position'.side = position.side
         /\ position'.qty = was.qty - held.qty
  <2>1. TypeOK
    BY DEF RacesInv
  <2> QED
    BY <1>1, <1>3, <1>7, <2>1, WrittenPosition

\* What is left of a position that was read as it was held is nothing.
<1>9. position'.qty = 0 \/ ~Same(was, held)
  <2>1. ASSUME Same(was, held) PROVE position'.qty = 0
    <3>1. was.qty = held.qty /\ was.side # Opposite(held.side) /\ was.qty > 0
      BY <1>3, <1>7, <2>1 DEF Same
    <3> HIDE DEF was, held
    <3> QED
      BY <1>3, <1>8, <3>1
  <2> QED
    BY <2>1
<1>10. position'.qty <= B
  <2> HIDE DEF B, was, held
  <2> QED
    BY <1>2, <1>3, <1>4, <1>6, <1>8
<1>11. ReadsBounded'
  <2> HIDE DEF B
  <2> QED
    BY <1>1, <1>2, <1>3, <1>4, <1>10 DEF ReadsBounded
<1>12. JobReadsLast' /\ ExitReads'
  BY <1>1 DEF JobReadsLast, ExitReads, Exits
<1>13. ASSUME hpc \in {"account", "position"}
       PROVE  Room(position, hread.decided, hread.qty)'
  <2> DEFINE asked == hread.qty
             side == hread.decided.side
  <2>1. ASSUME position'.qty > 0, position'.side = Opposite(side)
        PROVE  position'.qty + asked <= B
    <3>1. /\ position.qty = hread.decided.qty /\ position.side = side
          /\ position.qty > 0 => position.side = was.side /\ position.qty <= was.qty
      BY <1>5, <1>9, <1>13, <2>1 DEF HandlerFresh, Same, Closes
    <3>2. side \in Sides /\ asked <= position.qty /\ position.qty > 0
      BY <1>3, <1>13, <3>1, ClosingFacts DEF Closes
    <3>3. position'.side # position.side /\ position.qty <= was.qty /\ was.side = side
      BY <2>1, <3>1, <3>2, SideFacts
    <3>4. position'.qty = held.qty - was.qty
      BY <1>3, <1>8, <2>1, <3>2, <3>3
    <3> HIDE DEF asked, B, was, held
    <3> QED
      BY <1>2, <1>3, <1>4, <3>2, <3>3, <3>4 DEF asked
  <2> QED
    BY <1>1, <1>2, <2>1 DEF Room
<1>14. ASSUME hpc = "write"
       PROVE  /\ Room(hread.position, hread.decided, hread.qty)'
              /\ (/\ position'.qty > 0 /\ position'.side = hread.decided.side
                  /\ hread.position.side = hread.decided.side
                  /\ hread.position.qty < hread.qty)
                 => position'.qty + (hread.qty - hread.position.qty) <= B
  <2>1. Room(hread.position, hread.decided, hread.qty)'
    BY <1>1, <1>2, <1>14 DEF BoundInv, RoomLeft, Room
  <2>2. ASSUME position'.qty > 0, hread.position.qty < hread.qty PROVE FALSE
    <3>1. HandlerFresh
      BY <1>5, <1>9, <2>2
    <3>2. hread.position.qty = hread.decided.qty
      BY <1>14, <3>1 DEF HandlerFresh, Same, Closes
    <3>3. hread.qty <= hread.decided.qty
      BY <1>14, ClosingFacts DEF Closes
    <3> QED
      BY <1>3, <2>2, <3>2, <3>3
  <2> QED
    BY <2>1, <2>2
<1>15. RoomLeft'
  BY <1>1, <1>2, <1>13, <1>14 DEF RoomLeft, Exits
<1> QED
  BY <1>11, <1>12, <1>15 DEF BoundInv

\* A close by a handler.
LEMMA BoundCloseWrite ==
    ASSUME RacesInv, RacesInv', TicketsKept, BoundInv, CloseWrite PROVE BoundInv'
<1> DEFINE B == Bought
           was == hread.position
           side == hread.decided.side
           asked == hread.qty
<1>1. /\ ApplyFill(hread.decided, hread, Opposite(side), asked, hread.price) /\ UNCHANGED fills
      /\ hpc = "write" /\ hpc' = "idle" /\ hread' = NothingRead
      /\ UNCHANGED <<jpc, jread, jseen, jrows, lock>>
  BY DEF CloseWrite, HandlerEnds, job
<1>2. Bought' = B /\ B \in Int
  BY <1>1, BoughtStays, BoughtType DEF RacesInv
<1>3. /\ position.qty \in Nat /\ position'.qty \in Nat /\ was.qty \in Nat
      /\ jread.decided.qty \in Nat /\ jread.position.qty \in Nat
      /\ hread'.decided.qty = 0 /\ hread'.position.qty = 0
      /\ side \in Sides /\ asked \in Nat \ {0} /\ hread \in Read /\ hread.price \in Int
      /\ asked <= hread.decided.qty /\ hread.decided.qty \in Nat
  <2>1. position'.qty \in Nat
    BY DEF RacesInv, TypeOK, PositionRow
  <2>2. hpc \in Closes
    BY <1>1 DEF Closes
  <2> QED
    BY <1>1, <2>1, <2>2, BoundNumbers, ClosingFacts DEF NothingRead, Flat
<1>4. /\ position.qty <= B /\ was.qty <= B /\ hread.decided.qty <= B
      /\ jread.decided.qty <= B /\ jread.position.qty <= B
  BY DEF BoundInv, ReadsBounded
<1>5. was.qty > 0 /\ was.side = Opposite(side) => was.qty + asked <= B
  BY <1>1 DEF BoundInv, RoomLeft, Room
<1>6. Opposite(side) \in Sides /\ Opposite(side) # side
      /\ \A x \in Sides : x # Opposite(side) => x = side
  BY <1>3, SideFacts DEF Sides, Opposite
<1>7. \/ position'.qty = 0
      \/ /\ was.qty = 0 /\ position.qty = 0
         /\ position'.side = Opposite(side) /\ position'.qty = asked
      \/ /\ was.qty > 0 /\ was.side # Opposite(side) /\ was.qty < asked
         /\ position'.qty = asked - was.qty /\ position'.side = Opposite(side)
      \/ /\ was.qty > 0 /\ position.qty > 0 /\ was.side = Opposite(side)
         /\ position'.side = position.side /\ position'.qty = was.qty + asked
      \/ /\ was.qty > 0 /\ position.qty > 0 /\ was.side # Opposite(side)
         /\ asked < was.qty /\ position'.side = position.side
         /\ position'.qty = was.qty - asked
  <2>1. TypeOK
    BY DEF RacesInv
  <2> QED
    BY <1>1, <1>3, <1>6, <2>1, WrittenPosition
<1>8. position'.qty <= B
  <2> HIDE DEF B, was, asked
  <2> QED
    BY <1>2, <1>3, <1>4, <1>5, <1>7
<1>9. ReadsBounded'
  <2> HIDE DEF B
  <2> QED
    BY <1>1, <1>2, <1>3, <1>4, <1>8 DEF ReadsBounded
<1>10. HandlerFresh' /\ JobReadsLast'
  BY <1>1 DEF JobReadsLast, HandlerFresh, Closes

\* A handler with fresh rows only reduces.
<1>11. HandlerFresh => /\ position'.qty <= position.qty
                       /\ position'.qty > 0 => position'.side = position.side
  <2> SUFFICES ASSUME HandlerFresh
               PROVE  /\ position'.qty <= position.qty
                      /\ position'.qty > 0 => position'.side = position.side
    OBVIOUS
  <2>1. /\ position.qty = hread.decided.qty /\ position.side = side
        /\ position.qty = was.qty /\ was.side = side
    BY <1>1 DEF HandlerFresh, Closes, Same
  <2> HIDE DEF was, side, asked
  <2> QED
    BY <1>3, <1>6, <1>7, <2>1 DEF side, asked
<1>12. ExitReads'
  <2>1. ASSUME jpc = "exitWrite", HandlerFresh,
               position.qty > 0 => /\ position.side = jread.position.side
                                   /\ position.qty <= jread.position.qty
        PROVE  position'.qty > 0 => /\ position'.side = jread.position.side
                                    /\ position'.qty <= jread.position.qty
    BY <1>3, <1>11, <2>1
  <2>2. jpc = "exitWrite" => \/ Same(jread.position, jread.decided)
                             \/ /\ HandlerFresh
                                /\ position.qty > 0 => /\ position.side = jread.position.side
                                                       /\ position.qty <= jread.position.qty
    BY DEF BoundInv, ExitReads
  <2> QED
    BY <1>1, <1>10, <2>1, <2>2 DEF ExitReads, Same
<1>13. ASSUME jpc \in {"governing", "exitAccount", "exitPosition"},
              position'.qty > 0, position'.side = Opposite(jread.decided.side)
       PROVE  position'.qty + jread.decided.qty <= B
  <2> DEFINE held == jread.decided
  <2>1. held.side \in Sides /\ held.side # Opposite(held.side) /\ held.qty > 0
    <3>1. jpc \in Exits \cup {"governing"}
      BY <1>13 DEF Exits
    <3>2. held.qty > 0 /\ Sided(held)
      BY <3>1 DEF RacesInv, JobControl
    <3>3. held.side \in Sides
      BY <3>2 DEF Sided
    <3> HIDE DEF held
    <3> QED
      BY <3>2, <3>3, SideFacts
  <2>2. CASE HandlerFresh
    <3>1. position.qty > 0 /\ position.side = Opposite(held.side)
          /\ position'.qty <= position.qty
      BY <1>3, <1>11, <1>13, <2>2
    <3>2. position.qty + held.qty <= B
      BY <1>13, <3>1 DEF BoundInv, RoomLeft, Room
    <3> HIDE DEF B, held
    <3> QED
      BY <1>2, <1>3, <3>1, <3>2 DEF held
  <2>3. CASE ~HandlerFresh
    <3>1. position.qty = held.qty /\ position.side = held.side
      BY <1>13, <2>3 DEF BoundInv, ExitReads, Same, Exits
    <3>2. /\ was.qty > 0 /\ was.side # Opposite(side) /\ was.qty < asked
          /\ position'.qty = asked - was.qty /\ position'.side = Opposite(side)
      <4> HIDE DEF was, asked, side, held
      <4> QED
        BY <1>3, <1>7, <1>13, <2>1, <3>1 DEF held
    <3>3. was.side = side /\ side = held.side
      <4>1. was.side \in Sides
        BY <1>3, <3>2 DEF RacesInv, HandlerControl, Sided
      <4> QED
        BY <1>3, <1>6, <1>13, <2>1, <3>2, <4>1 DEF Sides, Opposite
    <3>4. position.qty + (asked - was.qty) <= B
      BY <1>1, <2>1, <3>1, <3>2, <3>3 DEF BoundInv, RoomLeft
    <3> HIDE DEF B, was, asked, held
    <3> QED
      BY <1>2, <1>3, <3>1, <3>2, <3>4 DEF held, was, asked
  <2> QED
    BY <2>2, <2>3
<1>14. RoomLeft'
  <2>1. jpc \in {"governing", "exitAccount", "exitPosition"} =>
           Room(position, jread.decided, jread.decided.qty)'
    BY <1>1, <1>2, <1>13 DEF Room
  <2>2. jpc = "exitWrite" => Room(jread.position, jread.decided, jread.decided.qty)'
    BY <1>1, <1>2 DEF BoundInv, RoomLeft, Room
  <2> QED
    BY <1>1, <2>1, <2>2 DEF RoomLeft
<1> QED
  BY <1>9, <1>10, <1>12, <1>14 DEF BoundInv

\* What the job reads, and the best price it notes.
LEMMA BoundJobReads ==
    ASSUME RacesInv, RacesInv', BoundInv, UNCHANGED handler, Bought' = Bought,
           \/ JobPrices \/ JobSelect \/ RowSkip \/ RowReadAccount \/ RowReadPosition
           \/ RowConflict \/ RowsCommit \/ BracketSelect \/ BracketDecide
           \/ ExitReadAccount \/ ExitReadPosition
    PROVE  BoundInv'
<1> DEFINE free == {"idle", "select", "rows", "position", "brackets"}
           exiting == {"governing", "exitAccount", "exitPosition", "exitWrite"}
<1>1. /\ jread \in Read /\ hread' = hread /\ hpc' = hpc
      /\ position.qty \in Nat /\ position.side \in Sides \cup {"none"} /\ Sided(position)
  BY DEF RacesInv, TypeOK, handler, PositionRow
<1>2. position'.qty = position.qty /\ position'.side = position.side
  <2>1. position' = position \/ position' = [position EXCEPT !.best = Best]
    BY DEF JobPrices, JobSelect, RowSkip, RowReadAccount, RowReadPosition, RowConflict,
           RowsCommit, BracketSelect, BracketDecide, ExitReadAccount, ExitReadPosition, store
  <2>2. position \in PositionRow
    BY DEF RacesInv, TypeOK
  <2> HIDE DEF Best
  <2> QED
    BY <2>1, <2>2 DEF PositionRow

\* Where the job goes, with what it has read.
<1>3. \/ /\ jpc' \in free
         /\ \/ jread' = jread
            \/ jread'.decided = Flat /\ jread'.position = Flat
      \/ jpc' = "write" /\ jread' = [jread EXCEPT !.position = position]
      \/ jpc' = "governing" /\ jread' = [NothingRead EXCEPT !.decided = position]
      \/ jpc = "governing" /\ jpc' = "exitAccount" /\ jread' = jread
      \/ /\ jpc = "exitAccount" /\ jpc' = "exitPosition"
         /\ jread' = [jread EXCEPT !.account = account]
      \/ /\ jpc = "exitPosition" /\ jpc' = "exitWrite"
         /\ jread' = [jread EXCEPT !.position = position]
  <2>1. CASE JobPrices \/ JobSelect \/ RowsCommit \/ RowSkip
    BY <2>1 DEF JobPrices, JobSelect, RowsCommit, RowSkip
  <2>2. CASE RowConflict \/ RowReadAccount
    BY <2>2 DEF RowConflict, RowReadAccount, NothingRead
  <2>3. CASE RowReadPosition \/ ExitReadPosition \/ ExitReadAccount
    BY <2>3 DEF RowReadPosition, ExitReadPosition, ExitReadAccount
  <2>4. CASE BracketSelect
    BY <2>4 DEF BracketSelect, JobEnds, NothingRead
  <2>5. CASE BracketDecide
    BY <2>5 DEF BracketDecide, JobEnds, NothingRead
  <2> QED
    BY <2>1, <2>2, <2>3, <2>4, <2>5
<1>4. /\ jread'.decided \in {jread.decided, Flat, position}
      /\ jread'.position \in {jread.position, Flat, position}
  BY <1>1, <1>3 DEF NothingRead, Read
<1>5. ReadsBounded'
  <2>1. /\ position.qty <= Bought /\ jread.decided.qty <= Bought /\ jread.position.qty <= Bought
        /\ hread.decided.qty <= Bought /\ hread.position.qty <= Bought /\ Flat.qty <= Bought
    BY <1>1, BoundNumbers DEF BoundInv, ReadsBounded, Flat
  <2> QED
    BY <1>1, <1>2, <1>4, <2>1 DEF ReadsBounded
<1>6. HandlerFresh' = HandlerFresh
  BY <1>1, <1>2 DEF HandlerFresh, Same
<1>7. JobReadsLast'
  <2>1. jpc' = "write" => jread'.position = position
    BY <1>1, <1>3 DEF Read
  <2> QED
    BY <1>2, <2>1 DEF JobReadsLast, Same
<1>8. jpc' \in exiting => \/ jread'.decided = position
                          \/ jread'.decided = jread.decided /\ jpc \in exiting \ {"exitWrite"}
  BY <1>1, <1>3 DEF Read, NothingRead
<1>9. jpc' = "exitWrite" => jread'.position = position /\ jread'.decided = jread.decided
                            /\ jpc = "exitPosition"
  BY <1>1, <1>3 DEF Read
<1>10. jpc' \in exiting => Same(position, jread'.decided) \/ HandlerFresh
  BY <1>8 DEF BoundInv, ExitReads, Exits, Same
<1>11. ExitReads'
  <2>1. jpc' \in exiting => Same(position, jread.decided)' \/ HandlerFresh'
    BY <1>2, <1>6, <1>10 DEF Same
  <2>2. ASSUME jpc' = "exitWrite"
        PROVE  \/ Same(jread.position, jread.decided)'
               \/ /\ HandlerFresh'
                  /\ position'.side = jread'.position.side
                  /\ position'.qty <= jread'.position.qty
    BY <1>1, <1>2, <1>9, <2>1, <2>2 DEF Same
  <2> QED
    BY <2>1, <2>2 DEF ExitReads, Exits

\* A position leaves itself room: it is not on the other side of itself.
<1>12. jpc' \in exiting => Room(position, jread'.decided, jread'.decided.qty)
  <2>1. Room(position, position, position.qty)
    BY <1>1, SideFacts DEF Room, Sided
  <2> QED
    BY <1>8, <2>1 DEF BoundInv, RoomLeft
<1>13. RoomLeft'
  <2>1. jpc' \in {"governing", "exitAccount", "exitPosition"} =>
           Room(position, jread.decided, jread.decided.qty)'
    BY <1>2, <1>12 DEF Room
  <2>2. jpc' = "exitWrite" => Room(jread.position, jread.decided, jread.decided.qty)'
    BY <1>9, <1>12 DEF Room
  <2>3. /\ hpc' \in {"account", "position"} => Room(position, hread.decided, hread.qty)'
        /\ hpc' = "write" =>
             /\ Room(hread.position, hread.decided, hread.qty)'
             /\ (/\ position'.qty > 0 /\ position'.side = hread'.decided.side
                 /\ hread'.position.side = hread'.decided.side
                 /\ hread'.position.qty < hread'.qty)
                => position'.qty + (hread'.qty - hread'.position.qty) <= Bought'
    BY <1>1, <1>2 DEF BoundInv, RoomLeft, Room
  <2> QED
    BY <2>1, <2>2, <2>3 DEF RoomLeft
<1> QED
  BY <1>5, <1>7, <1>11, <1>13 DEF BoundInv

\* What a handler reads: of a position it is about to close, and otherwise
\* nothing that is later closed.
LEMMA BoundHandlerReads ==
    ASSUME RacesInv, RacesInv', BoundInv, UNCHANGED <<job, position>>, Bought' = Bought,
           \/ hpc' \notin Closes /\ hread'.decided = Flat /\ hread'.position = Flat
           \/ \E asked \in 1..position.qty : CloseSelect(asked)
           \/ CloseReadAccount \/ CloseReadPosition
    PROVE  BoundInv'
<1>1. /\ hread \in Read /\ jread' = jread /\ jpc' = jpc /\ position' = position
      /\ position.qty \in Nat /\ Sided(position)
  BY DEF RacesInv, TypeOK, job, PositionRow
<1>2. \/ hpc' \notin Closes /\ hread'.decided = Flat /\ hread'.position = Flat
      \/ /\ hpc' = "account" /\ hread'.decided = position /\ hread'.position = Flat
         /\ hread'.qty \in 1..position.qty
      \/ /\ hpc = "account" /\ hpc' = "position" /\ hread'.decided = hread.decided
         /\ hread'.position = hread.position /\ hread'.qty = hread.qty
      \/ /\ hpc = "position" /\ hpc' = "write" /\ hread'.decided = hread.decided
         /\ hread'.position = position /\ hread'.qty = hread.qty
  BY <1>1 DEF CloseSelect, CloseReadAccount, CloseReadPosition, NothingRead, Read
<1>3. ReadsBounded'
  <2>1. /\ position.qty <= Bought /\ jread.decided.qty <= Bought /\ jread.position.qty <= Bought
        /\ hread.decided.qty <= Bought /\ hread.position.qty <= Bought /\ Flat.qty <= Bought
    BY <1>1, BoundNumbers DEF BoundInv, ReadsBounded, Flat
  <2> QED
    BY <1>1, <1>2, <2>1 DEF ReadsBounded
<1>4. HandlerFresh => HandlerFresh'
  BY <1>1, <1>2 DEF HandlerFresh, Same, Closes
<1>5. HandlerFresh' \/ hpc \in Closes
  BY <1>1, <1>2 DEF HandlerFresh, Same, Closes
<1>6. JobReadsLast'
  BY <1>1, <1>4, <1>5 DEF BoundInv, JobReadsLast, Same
<1>7. ExitReads'
  BY <1>1, <1>4 DEF BoundInv, ExitReads, Same
<1>8. hpc' \in {"account", "position"} => Room(position, hread.decided, hread.qty)'
  <2>1. ASSUME hread'.decided = position
        PROVE  Room(position, hread.decided, hread.qty)'
    BY <1>1, <2>1, SideFacts DEF Room, Sided
  <2>2. ASSUME hpc = "account", hread'.decided = hread.decided, hread'.qty = hread.qty
        PROVE  Room(position, hread.decided, hread.qty)'
    BY <1>1, <2>2 DEF BoundInv, RoomLeft, Room
  <2> QED
    BY <1>2, <2>1, <2>2 DEF Closes
<1>9. ASSUME hpc' = "write"
      PROVE  /\ Room(hread.position, hread.decided, hread.qty)'
             /\ (/\ position'.qty > 0 /\ position'.side = hread'.decided.side
                 /\ hread'.position.side = hread'.decided.side
                 /\ hread'.position.qty < hread'.qty)
                => position'.qty + (hread'.qty - hread'.position.qty) <= Bought'
  <2>1. /\ hpc = "position" /\ hread'.decided = hread.decided
        /\ hread'.position = position /\ hread'.qty = hread.qty
    BY <1>2, <1>9 DEF Closes
  <2>2. Room(hread.position, hread.decided, hread.qty)'
    BY <1>1, <2>1 DEF BoundInv, RoomLeft, Room
  <2>3. hread.qty \in Nat /\ hread.qty <= Bought /\ Bought \in Int
    <3>1. hread.qty \in Nat /\ hread.qty <= hread.decided.qty
      BY <2>1, ClosingFacts DEF Closes
    <3>2. hread.decided.qty <= Bought /\ hread.decided.qty \in Nat /\ Bought \in Int
      BY BoundNumbers DEF BoundInv, ReadsBounded
    <3> HIDE DEF Bought
    <3> QED
      BY <3>1, <3>2
  <2> QED
    BY <1>1, <2>1, <2>2, <2>3
<1>10. RoomLeft'
  <2>1. /\ jpc' \in {"governing", "exitAccount", "exitPosition"} =>
              Room(position, jread.decided, jread.decided.qty)'
        /\ jpc' = "exitWrite" => Room(jread.position, jread.decided, jread.decided.qty)'
    BY <1>1 DEF BoundInv, RoomLeft, Room
  <2> QED
    BY <1>8, <1>9, <2>1 DEF RoomLeft
<1> QED
  BY <1>3, <1>6, <1>7, <1>10 DEF BoundInv

\* Every step keeps the bound.
LEMMA BoundStep == ASSUME RacesInv, BoundInv, [Next]_vars PROVE BoundInv'
<1>1. RacesInv' /\ TicketsKept /\ TypeOK
  BY RacesStep, TicketsStay DEF RacesInv
<1>2. UNCHANGED fills => Bought' = Bought
  BY <1>1, BoughtStays
<1>3. CASE RowWrite
  BY <1>1, <1>3, BoundRowWrite
<1>4. CASE ExitWrite
  BY <1>1, <1>4, BoundExitWrite
<1>5. CASE CloseWrite
  BY <1>1, <1>5, BoundCloseWrite
<1>6. CASE \/ JobPrices \/ JobSelect \/ RowSkip \/ RowReadAccount \/ RowReadPosition
           \/ RowConflict \/ RowsCommit \/ BracketSelect \/ BracketDecide
           \/ ExitReadAccount \/ ExitReadPosition
  <2>1. UNCHANGED fills /\ UNCHANGED handler
    BY <1>6 DEF JobPrices, JobSelect, RowSkip, RowReadAccount, RowReadPosition, RowConflict,
                RowsCommit, BracketSelect, BracketDecide, ExitReadAccount, ExitReadPosition, store
  <2> QED
    BY <1>1, <1>2, <1>6, <2>1, BoundJobReads
<1>7. CASE CloseReadAccount \/ CloseReadPosition \/ \E asked \in 1..position.qty : CloseSelect(asked)
  <2>1. UNCHANGED fills /\ UNCHANGED <<job, position>>
    BY <1>7 DEF CloseReadAccount, CloseReadPosition, CloseSelect, store
  <2> QED
    BY <1>1, <1>2, <1>7, <2>1, BoundHandlerReads

\* An order submitted, or a handler that ends.
<1>8. ASSUME UNCHANGED <<fills, job, position>>, hpc' \notin Closes,
             hread'.decided = Flat /\ hread'.position = Flat
      PROVE  BoundInv'
  BY <1>1, <1>2, <1>8, BoundHandlerReads
<1>9. CASE CloseConflict \/ HandlerTimeout
  BY <1>8, <1>9 DEF CloseConflict, HandlerTimeout, HandlerEnds, NothingRead, Closes, store
<1>10. UNCHANGED <<fills, position, job, handler>> => BoundInv'
  <2> SUFFICES ASSUME UNCHANGED <<fills, position, job, handler>> PROVE BoundInv'
    OBVIOUS
  <2>1. Bought' = Bought /\ position' = position /\ jread' = jread /\ hread' = hread
        /\ jpc' = jpc /\ hpc' = hpc
    BY <1>2 DEF job, handler
  <2> QED
    BY <2>1 DEF BoundInv, ReadsBounded, JobReadsLast, ExitReads, RoomLeft, HandlerFresh, Same, Room
<1>11. ASSUME NEW t \in Tickets, SubmitReadAccount(t) \/ SubmitReadPosition(t) \/ SubmitInsert(t)
       PROVE  BoundInv'
  <2>1. CASE SubmitReadAccount(t) \/ SubmitInsert(t)
    BY <1>8, <2>1 DEF SubmitReadAccount, SubmitInsert, HandlerEnds, NothingRead, Closes, store
  <2>2. CASE SubmitReadPosition(t) /\ hpc' = "idle"
    BY <1>8, <2>2 DEF SubmitReadPosition, HandlerEnds, NothingRead, Closes, store
  <2>3. CASE SubmitReadPosition(t) /\ hpc' = "insert"
    <3>1. UNCHANGED <<fills, job, position, hread>> /\ hpc = "guard"
      BY <2>3 DEF SubmitReadPosition, HandlerEnds, store
    <3>2. Bought' = Bought /\ position' = position /\ jread' = jread /\ hread' = hread
          /\ jpc' = jpc
      BY <1>2, <3>1 DEF job
    <3> QED
      BY <2>3, <3>1, <3>2 DEF BoundInv, ReadsBounded, JobReadsLast, ExitReads, RoomLeft,
         HandlerFresh, Same, Room, Closes
  <2> QED
    BY <1>11, <2>1, <2>2, <2>3 DEF SubmitReadPosition, HandlerEnds
<1>12. ASSUME NEW i \in Intents, Cancel(i) PROVE BoundInv'
  BY <1>10, <1>12 DEF Cancel
<1>13. ASSUME NEW p \in Prices, NewCandle(p) PROVE BoundInv'
  BY <1>10, <1>13 DEF NewCandle, store
<1>14. CASE UNCHANGED vars
  BY <1>10, <1>14 DEF vars, store
<1> QED
  BY <1>3, <1>4, <1>5, <1>6, <1>7, <1>9, <1>11, <1>12, <1>13, <1>14 DEF Next

\* Nothing is bought, held or read at the start.
LEMMA BoundInit == Init => BoundInv
<1> SUFFICES ASSUME Init PROVE BoundInv
  OBVIOUS
<1>1. Bought = 0
  <2> DEFINE f == [k \in DOMAIN fills |-> intents[fills[k]].ticket.qty]
  <2>1. DOMAIN fills = {}
    BY DEF Init
  <2>2. f \in [{} -> Int] /\ IsFiniteSet({}) /\ Bought = SumFunction(f)
    BY <2>1, FS_EmptySet DEF Bought
  <2> HIDE DEF f
  <2> QED
    BY <2>2, SumType
<1> QED
  BY <1>1 DEF Init, BoundInv, ReadsBounded, JobReadsLast, ExitReads, RoomLeft, Closes, Exits,
              NothingRead, Flat

\* Whatever stale rows the two threads compute from, the venue never holds more
\* than the executed orders asked for: the UPDATE of a row that has turned to the
\* other side meanwhile cannot add up to more.
THEOREM ExposureStaysBounded == Spec => []ExposureBounded
<1>1. BoundInv => ExposureBounded
  BY DEF BoundInv, ReadsBounded, ExposureBounded
<1> QED
  BY <1>1, BoundInit, BoundStep, RacesInvariant, PTL DEF Spec
-----------------------------------------------------------------------------
(* The books balance until something is overwritten.                       *)

Results == LedgerSum(ClosurePnl)
CashResults == LedgerSum(LAMBDA row : SideSign(row.side) * ClosurePnl(row))

\* The result of a closure is a number, and so is what the ledger adds up to.
LEMMA ClosureNumbers ==
    ASSUME NEW row \in Closure
    PROVE  ClosurePnl(row) \in Int /\ SideSign(row.side) * ClosurePnl(row) \in Int
<1>1. row.qty \in Int /\ row.entry \in Int /\ row.exit \in Int /\ row.side \in Sides
  BY DEF Closure
<1>2. (row.exit - row.entry) * row.qty \in Int
  BY <1>1
<1>3. SideSign(row.side) \in {1, -1} /\ ClosurePnl(row) \in Int
  BY <1>1, <1>2, SideFacts DEF ClosurePnl, Pnl, SideSign
<1> QED
  BY <1>3

\* The sums over the ledger are integers.
LEMMA ResultsType == ASSUME TypeOK PROVE Results \in Int /\ CashResults \in Int
<1> DEFINE n == Len(ledger)
           f == [k \in DOMAIN ledger |-> ClosurePnl(ledger[k])]
           g == [k \in DOMAIN ledger |-> SideSign(ledger[k].side) * ClosurePnl(ledger[k])]
<1>1. n \in Nat /\ DOMAIN ledger = 1..n /\ \A k \in 1..n : ledger[k] \in Closure
  BY DEF TypeOK
<1> HIDE DEF n
<1>2. f \in [1..n -> Int] /\ g \in [1..n -> Int] /\ IsFiniteSet(1..n)
  BY <1>1, ClosureNumbers, FS_Interval
<1>3. Results = SumFunction(f) /\ CashResults = SumFunction(g)
  BY DEF Results, CashResults, LedgerSum
<1> HIDE DEF f, g
<1> QED
  BY <1>2, <1>3, SumType

\* A row appended to the ledger adds its result.
LEMMA ResultsGrow ==
    ASSUME TypeOK, NEW row \in Closure, ledger' = Append(ledger, row)
    PROVE  /\ Results' = Results + ClosurePnl(row)
           /\ CashResults' = CashResults + SideSign(row.side) * ClosurePnl(row)
<1> DEFINE n == Len(ledger)
           f == [k \in DOMAIN ledger |-> ClosurePnl(ledger[k])]
           g == [k \in DOMAIN ledger |-> SideSign(ledger[k].side) * ClosurePnl(ledger[k])]
           F == [k \in DOMAIN ledger' |-> ClosurePnl(ledger'[k])]
           G == [k \in DOMAIN ledger' |-> SideSign(ledger'[k].side) * ClosurePnl(ledger'[k])]
<1>1. /\ n \in Nat /\ DOMAIN ledger = 1..n /\ DOMAIN ledger' = 1..(n + 1)
      /\ ledger'[n + 1] = row /\ \A k \in 1..n : ledger'[k] = ledger[k] /\ ledger[k] \in Closure
  BY DEF TypeOK
<1> HIDE DEF n
<1>2. \A k \in 1..(n + 1) : ledger'[k] \in Closure
  BY <1>1
<1>3. /\ f \in [1..n -> Int] /\ g \in [1..n -> Int]
      /\ F \in [1..(n + 1) -> Int] /\ G \in [1..(n + 1) -> Int]
  BY <1>1, <1>2, ClosureNumbers
<1>4. /\ \A k \in 1..n : F[k] = f[k] /\ G[k] = g[k]
      /\ F[n + 1] = ClosurePnl(row) /\ G[n + 1] = SideSign(row.side) * ClosurePnl(row)
  BY <1>1
<1>5. /\ Results = SumFunction(f) /\ CashResults = SumFunction(g)
      /\ Results' = SumFunction(F) /\ CashResults' = SumFunction(G)
  BY DEF Results, CashResults, LedgerSum, ClosurePnl
<1> HIDE DEF f, g, F, G
<1> QED
  BY <1>1, <1>3, <1>4, <1>5, SumAppend

\* A call that goes by rows that are still there leaves the fill it computed.
LEMMA FreshFill ==
    ASSUME TypeOK, NEW decided \in PositionRow, NEW read \in Read, NEW side \in Sides,
           NEW qty \in Nat \ {0}, NEW at \in Int, ApplyFill(decided, read, side, qty, at), ~torn'
    PROVE  LET was == read.position
               filled == FilledPosition(was, side, qty, at)
           IN  /\ ~torn /\ read.account = account
               /\ position.qty = was.qty /\ position.avg = was.avg /\ position.side = was.side
               /\ decided.qty = was.qty /\ decided.avg = was.avg /\ decided.side = was.side
               /\ position'.qty = filled.qty /\ position'.avg = filled.avg
<1> DEFINE was == read.position
           filled == FilledPosition(was, side, qty, at)
<1>1. was \in PositionRow /\ position \in PositionRow
  BY DEF Read, TypeOK
<1>2. ~torn /\ ~Stale(decided, read) /\ position' = Overwritten(read, side, qty, at)
  BY DEF ApplyFill, TypeOK
<1>3. /\ [position EXCEPT !.best = NoPrice] = [was EXCEPT !.best = NoPrice]
      /\ [position EXCEPT !.best = NoPrice] = [decided EXCEPT !.best = NoPrice]
      /\ read.account = account
  BY <1>2 DEF Stale
<1> HIDE DEF was
<1>4. /\ position.qty = was.qty /\ position.avg = was.avg /\ position.side = was.side
      /\ decided.qty = was.qty /\ decided.avg = was.avg /\ decided.side = was.side
  BY <1>1, <1>3 DEF PositionRow
<1>a. side # was.side /\ filled.qty > 0 /\ was.qty > 0 /\ filled.side = was.side => filled.avg = was.avg
  BY <1>1 DEF FilledPosition, Opened, Holding, Flat, PositionRow, was
<1>5. \/ position' = filled
      \/ /\ position.qty # 0
         /\ \E avg \in {filled.avg, position.avg} :
               position' = [position EXCEPT !.qty = filled.qty, !.avg = avg] /\ avg = filled.avg
  <2>1. \/ position' = filled
        \/ /\ position.qty # 0 /\ was.qty > 0 /\ filled.qty > 0 /\ filled.side = was.side
           /\ position' = [position EXCEPT !.qty = filled.qty,
                                           !.avg = IF side = was.side THEN filled.avg ELSE @]
    BY <1>1, <1>2, <1>4 DEF Overwritten, was, PositionRow
  <2> HIDE DEF filled
  <2> QED BY <1>4, <1>a, <2>1
<1> HIDE DEF filled
<1>6. position'.qty = filled.qty /\ position'.avg = filled.avg
  BY <1>1, <1>5 DEF PositionRow
<1> QED
  BY <1>2, <1>3, <1>4, <1>6 DEF was, filled

\* The closing of what is held, or of a part of it, is as much as was asked for.
LEMMA ClosesAll ==
    ASSUME NEW pos \in PositionRow, pos.side \in Sides, NEW qty \in Nat \ {0}, qty <= pos.qty
    PROVE  /\ Closing(pos, Opposite(pos.side), qty) = qty
           /\ Opening(pos, Opposite(pos.side), qty) = 0
BY SideFacts DEF Closing, Opening, PositionRow

\* What an exit of the job and a close of a handler book when their rows are
\* still there: the position read is the position decided on.
Books(pos, read, qty, at) ==
    /\ pos \in PositionRow /\ pos.side \in Sides /\ qty \in Nat \ {0} /\ at \in Int
    /\ qty <= pos.qty /\ read \in Read /\ Sided(read.position)
    /\ ApplyFill(pos, read, Opposite(pos.side), qty, at)
    /\ \E kind \in {"stop", "target", "manual"} : ledger' = Append(ledger, Closed(pos, qty, at, kind))
    /\ UNCHANGED offbook

\* A handler's close books the position it read.
LEMMA CloseBooks ==
    ASSUME RacesInv, CloseWrite
    PROVE  Books(hread.decided, hread, hread.qty, hread.price)
<1>1. /\ hread.decided \in PositionRow /\ hread.decided.side \in Sides
      /\ hread.qty \in Nat \ {0} /\ hread.price \in Nat \ {0}
      /\ hread.qty <= hread.decided.qty /\ hread \in Read /\ Sided(hread.position)
  BY ClosingFacts DEF CloseWrite, Closes, RacesInv, TypeOK, HandlerControl
<1>2. /\ ApplyFill(hread.decided, hread, Opposite(hread.decided.side), hread.qty, hread.price)
      /\ ledger' = Append(ledger, Closed(hread.decided, hread.qty, hread.price, "manual"))
      /\ UNCHANGED offbook
  BY DEF CloseWrite
<1> QED
  BY <1>1, <1>2 DEF Books

\* The job's exit books the position it read.
LEMMA ExitBooks ==
    ASSUME RacesInv, ExitWrite
    PROVE  Books(Held, jread, Held.qty, Exit.price)
<1>1. /\ Held \in PositionRow /\ Held.side \in Sides /\ Held.qty \in Nat \ {0}
      /\ Exit.price \in Int /\ Exit.kind \in {"stop", "target"}
      /\ jread \in Read /\ Sided(jread.position)
  <2>1. jpc \in Exits
    BY DEF ExitWrite, Exits
  <2>2. /\ Held \in PositionRow /\ Held.side \in Sides /\ Held.qty \in Nat \ {0}
        /\ Exit.price \in Int /\ Exit.kind \in {"stop", "target"}
    BY <2>1, ClosingFacts
  <2>3. jread \in Read /\ Sided(jread.position)
    BY DEF RacesInv, TypeOK, JobControl
  <2> HIDE DEF Exit, Held
  <2> QED
    BY <2>2, <2>3
<1>2. /\ ApplyFill(Held, jread, Opposite(Held.side), Held.qty, Exit.price)
      /\ ledger' = Append(ledger, Closed(Held, Held.qty, Exit.price, Exit.kind))
      /\ UNCHANGED offbook
  BY DEF ExitWrite
<1> HIDE DEF Held, Exit
<1> QED
  BY <1>1, <1>2 DEF Books, PositionRow

\* A closure books what the account realizes.
LEMMA LedgerCloses ==
    ASSUME TypeOK, LedgerBalances, NEW pos, NEW read, NEW qty, NEW at, Books(pos, read, qty, at)
    PROVE  LedgerBalances'
<1> SUFFICES ASSUME ~torn' PROVE account'.realizedPnl = offbook'.pnl + Results'
  BY DEF LedgerBalances, Results
<1> DEFINE was == read.position
           side == Opposite(pos.side)
           netted == Pnl(was.side, Closing(was, side, qty), was.avg, at)
<1>1. /\ pos \in PositionRow /\ pos.side \in Sides /\ qty \in Nat \ {0} /\ at \in Int
      /\ qty <= pos.qty /\ read \in Read /\ was \in PositionRow /\ side \in Sides
      /\ ApplyFill(pos, read, side, qty, at) /\ offbook' = offbook
  BY SideFacts DEF Books, Read
<1>2. PICK kind \in {"stop", "target", "manual"} : ledger' = Append(ledger, Closed(pos, qty, at, kind))
  BY DEF Books
<1> DEFINE row == Closed(pos, qty, at, kind)
<1>3. /\ ~torn /\ read.account = account
      /\ pos.qty = was.qty /\ pos.avg = was.avg /\ pos.side = was.side
  <2> HIDE DEF was, side
  <2> QED
    BY <1>1, FreshFill DEF was
<1>4. Closing(was, side, qty) = qty
  <2>1. side = Opposite(was.side) /\ was.side \in Sides /\ qty <= was.qty
    BY <1>1, <1>3
  <2> HIDE DEF side, was
  <2> QED
    BY <1>1, <2>1, ClosesAll
<1>5. netted = ClosurePnl(row)
  BY <1>3, <1>4 DEF ClosurePnl, Closed
<1>6. account'.realizedPnl = account.realizedPnl + netted
  BY <1>1, <1>3 DEF ApplyFill, FilledRealized
<1>7. Results' = Results + ClosurePnl(row) /\ ClosurePnl(row) \in Int
  <2>1. row \in Closure
    BY <1>1, ClosedType
  <2> HIDE DEF row
  <2> QED
    BY <1>2, <2>1, ResultsGrow, ClosureNumbers DEF row
<1>8. account.realizedPnl = offbook.pnl + Results
  BY <1>3 DEF LedgerBalances, Results
<1>9. Results \in Int /\ offbook.pnl \in Int
  BY ResultsType DEF TypeOK
<1> HIDE DEF netted, row
<1> QED
  BY <1>1, <1>5, <1>6, <1>7, <1>8, <1>9

\* A fill of an order books outside the ledger what it nets.
LEMMA LedgerFills == ASSUME RacesInv, LedgerBalances, RowWrite PROVE LedgerBalances'
<1> SUFFICES ASSUME ~torn' PROVE account'.realizedPnl = offbook'.pnl + Results'
  BY DEF LedgerBalances, Results
<1> DEFINE t == intents[Row].ticket
           at == ExecutedPrice(t, RowPrice)
           was == jread.position
           netted == Pnl(was.side, Closing(was, t.side, t.qty), was.avg, at)
<1>1. /\ Row \in Intents /\ at \in Nat \ {0} /\ t.side \in Sides /\ t.qty \in Nat \ {0}
      /\ TypeOK
  BY RowFacts, IntentFacts DEF RowWrite, RacesInv, JobControl
<1>2. jread \in Read /\ was \in PositionRow
  BY BoundNumbers DEF Read
<1>3. /\ ApplyFill(was, jread, t.side, t.qty, at) /\ NotedOffBook(jread, t.side, t.qty, at)
      /\ ledger' = ledger
  BY DEF RowWrite
<1> HIDE DEF t, at
<1>4. ~torn /\ jread.account = account
  <2> HIDE DEF was
  <2> QED
    BY <1>1, <1>2, <1>3, FreshFill
<1>5. account'.realizedPnl = account.realizedPnl + netted /\ offbook'.pnl = offbook.pnl + netted
  BY <1>3, <1>4 DEF ApplyFill, FilledRealized, NotedOffBook
<1>6. netted \in Int
  <2>1. Closing(was, t.side, t.qty) \in Nat
    <3> HIDE DEF was
    <3> QED
      BY <1>1, <1>2, ClosingOpening
  <2>2. (at - was.avg) * Closing(was, t.side, t.qty) \in Int
    BY <1>1, <1>2, <2>1 DEF PositionRow
  <2> QED
    BY <1>1, <1>2, <2>1, <2>2 DEF Pnl, SideSign, PositionRow
<1>7. account.realizedPnl = offbook.pnl + Results /\ Results' = Results
  BY <1>3, <1>4 DEF LedgerBalances, Results, LedgerSum, ClosurePnl
<1>8. Results \in Int /\ offbook.pnl \in Int
  BY <1>1, ResultsType DEF TypeOK
<1> HIDE DEF netted
<1> QED
  BY <1>5, <1>6, <1>7, <1>8

\* Three actions move money, and the others leave it alone.
LEMMA MoneyMoves ==
    ASSUME [Next]_vars
    PROVE  \/ RowWrite \/ ExitWrite \/ CloseWrite
           \/ UNCHANGED <<account, ledger, torn, offbook>>
BY Writers DEF store, BracketDecide, SubmitInsert, Cancel

\* Every step keeps the balance of the ledger with the account.
LEMMA LedgerStep == ASSUME RacesInv, LedgerBalances, [Next]_vars PROVE LedgerBalances'
<1>1. CASE UNCHANGED <<account, ledger, torn, offbook>>
  BY <1>1 DEF LedgerBalances, LedgerSum, ClosurePnl
<1>2. CASE ExitWrite
  BY <1>2, ExitBooks, LedgerCloses DEF RacesInv
<1>3. CASE CloseWrite
  BY <1>3, CloseBooks, LedgerCloses DEF RacesInv
<1> QED
  BY <1>1, <1>2, <1>3, LedgerFills, MoneyMoves

\* An empty ledger sums to nothing.
LEMMA NothingBooked ==
    ASSUME Init PROVE Results = 0 /\ CashResults = 0
<1> DEFINE f == [k \in DOMAIN ledger |-> ClosurePnl(ledger[k])]
           g == [k \in DOMAIN ledger |-> SideSign(ledger[k].side) * ClosurePnl(ledger[k])]
<1>1. DOMAIN ledger = {}
  BY DEF Init
<1>2. f \in [{} -> Int] /\ g \in [{} -> Int] /\ IsFiniteSet({})
  BY <1>1, FS_EmptySet
<1>3. Results = SumFunction(f) /\ CashResults = SumFunction(g)
  BY DEF Results, CashResults, LedgerSum
<1> HIDE DEF f, g
<1> QED
  BY <1>2, <1>3, SumType

\* Realized PnL is what the ledger explains, until some call has written over
\* rows it had not read: no other interleaving of the statements separates them.
THEOREM LedgerExplainsPnl == Spec => []LedgerBalances
<1>1. ASSUME Init PROVE LedgerBalances
  <2>1. account.realizedPnl = 0 /\ offbook.pnl = 0 /\ Results = 0
    BY <1>1, NothingBooked DEF Init
  <2> QED
    BY <2>1 DEF LedgerBalances, Results
<1> QED
  BY <1>1, LedgerStep, RacesInvariant, PTL DEF Spec
-----------------------------------------------------------------------------
(* Cash.                                                                   *)

\* Positions are held and read at positive prices: no exit is booked below zero,
\* where the clamp of the buying power would swallow it.
Priced(pos) == pos.qty > 0 => pos.avg > 0 /\ pos.best >= 0
RowsPriced ==
    /\ Priced(position) /\ Priced(jread.decided) /\ Priced(jread.position)
    /\ Priced(hread.decided) /\ Priced(hread.position)
CashInv == CashBalances /\ RowsPriced

\* A fill that adds to a position averages to a whole price.
AveragesExact ==
    RowWrite => LET t == intents[Row].ticket
                IN  AverageExact(jread.position, t.side, t.qty, ExecutedPrice(t, RowPrice))

\* Both threads read the position that is there, or keep what they have read.
LEMMA Reads ==
    ASSUME RacesInv, [Next]_vars
    PROVE  /\ jread'.decided \in {jread.decided, Flat, position}
           /\ jread'.position \in {jread.position, Flat, position}
           /\ hread'.decided \in {hread.decided, Flat, position}
           /\ hread'.position \in {hread.position, Flat, position}
<1>1. jread \in Read /\ hread \in Read
  BY DEF RacesInv, TypeOK
<1>2. UNCHANGED jread => /\ jread'.decided \in {jread.decided, Flat, position}
                         /\ jread'.position \in {jread.position, Flat, position}
  OBVIOUS
<1>3. UNCHANGED hread => /\ hread'.decided \in {hread.decided, Flat, position}
                         /\ hread'.position \in {hread.position, Flat, position}
  OBVIOUS
<1>4. CASE JobPrices \/ JobSelect \/ RowsCommit \/ RowSkip \/ UNCHANGED vars
  BY <1>2, <1>3, <1>4 DEF JobPrices, JobSelect, RowsCommit, RowSkip, vars, job, handler
<1>5. CASE RowWrite \/ RowConflict \/ RowReadAccount \/ BracketSelect
  <2>1. CASE RowWrite
    BY <1>3, <2>1 DEF RowWrite, NothingRead, handler
  <2>2. CASE RowConflict
    BY <1>3, <2>2 DEF RowConflict, JobEnds, NothingRead, handler
  <2>3. CASE RowReadAccount
    BY <1>3, <2>3 DEF RowReadAccount, NothingRead, handler
  <2>4. CASE BracketSelect
    BY <1>3, <2>4 DEF BracketSelect, JobEnds, NothingRead, handler
  <2> QED
    BY <1>5, <2>1, <2>2, <2>3, <2>4
<1>6. CASE BracketDecide \/ ExitWrite
  BY <1>2, <1>3, <1>6 DEF BracketDecide, ExitWrite, JobEnds, NothingRead, handler
<1>7. CASE RowReadPosition \/ ExitReadPosition \/ ExitReadAccount
  BY <1>1, <1>3, <1>7 DEF RowReadPosition, ExitReadPosition, ExitReadAccount, Read, handler
<1>8. CASE CloseWrite \/ CloseConflict \/ HandlerTimeout
  BY <1>2, <1>8 DEF CloseWrite, CloseConflict, HandlerTimeout, HandlerEnds, NothingRead, job
<1>9. CASE CloseReadAccount \/ CloseReadPosition
  BY <1>1, <1>2, <1>9 DEF CloseReadAccount, CloseReadPosition, Read, job
<1>10. ASSUME NEW asked \in 1..position.qty, CloseSelect(asked)
       PROVE  /\ UNCHANGED jread
              /\ hread'.decided \in {hread.decided, Flat, position}
              /\ hread'.position \in {hread.position, Flat, position}
  BY <1>10 DEF CloseSelect, NothingRead, job
<1>11. ASSUME NEW x \in Tickets, SubmitReadAccount(x) \/ SubmitReadPosition(x) \/ SubmitInsert(x)
       PROVE  /\ UNCHANGED jread
              /\ \/ UNCHANGED hread
                 \/ hread'.decided = Flat /\ hread'.position = Flat
  BY <1>11 DEF SubmitReadAccount, SubmitReadPosition, SubmitInsert, HandlerEnds, NothingRead, job
<1>12. ASSUME NEW i \in Intents, Cancel(i) PROVE UNCHANGED <<jread, hread>>
  BY <1>12 DEF Cancel, job, handler
<1>13. ASSUME NEW x \in Prices, NewCandle(x) PROVE UNCHANGED <<jread, hread>>
  BY <1>13 DEF NewCandle, job, handler
<1> QED
  BY <1>2, <1>3, <1>4, <1>5, <1>6, <1>7, <1>8, <1>9, <1>10, <1>11, <1>12, <1>13 DEF Next

\* The exit of the job is booked above zero.
LEMMA BestPositive ==
    ASSUME RacesInv, RowsPriced, jpc \in Exits \cup {"governing"}
    PROVE  Best \in Nat \ {0}
<1>1. jread.decided \in PositionRow /\ jread.decided.qty > 0 /\ jseen \in Nat \ {0}
  BY PricesAreNumbers DEF RacesInv, TypeOK, JobControl, Read, NoPrice
<1>2. jread.decided.avg > 0 /\ jread.decided.best >= 0
  BY <1>1 DEF RowsPriced, Priced
<1> QED
  BY <1>1, <1>2, RatchetPositive DEF Best, Held

\* The price of an exit that is about to be written is positive.
LEMMA ExitPositive == ASSUME RacesInv, RowsPriced, jpc \in Exits PROVE Exit.price \in Nat \ {0}
<1>1. Governing(Held.side) # 0 /\ Exit # NoExit /\ Held.side \in Sides
  BY ClosingFacts DEF RacesInv, JobControl
<1>2. Ticketed \in Ticket
  BY <1>1, GoverningFacts, IntentFacts DEF Ticketed, RacesInv
<1>3. jseen \in Int /\ Best \in Nat \ {0}
  BY BestPositive, PricesAreNumbers DEF RacesInv, TypeOK
<1>4. Exit.price > 0
  BY <1>1, <1>2, <1>3, ExitAboveZero DEF Exit
<1>5. Exit.price \in Int
  BY ClosingFacts
<1> HIDE DEF Exit
<1> QED
  BY <1>4, <1>5

\* A write at a positive price leaves a positive average.
LEMMA WrittenPriced ==
    ASSUME TypeOK, Priced(position), NEW decided, NEW read \in Read, Priced(read.position),
           NEW side \in Sides, NEW qty \in Nat \ {0}, NEW at \in Nat \ {0},
           ApplyFill(decided, read, side, qty, at)
    PROVE  Priced(position')
<1> DEFINE was == read.position
           filled == FilledPosition(was, side, qty, at)
<1>1. was \in PositionRow /\ position \in PositionRow
  BY DEF Read, TypeOK
<1>2. filled.qty > 0 => filled.avg > 0 /\ filled.best >= 0
  BY <1>1, FilledAverage DEF Priced
<1>3. \/ position' = filled \/ position' = Flat
      \/ /\ position.qty # 0
         /\ \/ position' = [position EXCEPT !.qty = filled.qty, !.avg = filled.avg]
            \/ position' = [position EXCEPT !.qty = filled.qty, !.avg = position.avg]
  BY DEF ApplyFill, Overwritten
<1> HIDE DEF filled, was
<1>4. CASE position' = filled
  BY <1>2, <1>4 DEF Priced
<1>5. CASE position' = Flat
  BY <1>5 DEF Priced, Flat
<1>6. CASE position.qty # 0 /\ position' = [position EXCEPT !.qty = filled.qty, !.avg = position.avg]
  <2>1. position.qty > 0 /\ position.best >= 0 /\ position.avg > 0
    BY <1>1, <1>6 DEF Priced, PositionRow
  <2>2. position'.qty = filled.qty /\ position'.avg = position.avg /\ position'.best = position.best
    BY <1>1, <1>6 DEF PositionRow
  <2> QED
    BY <2>1, <2>2 DEF Priced
<1>7. CASE position.qty # 0 /\ position' = [position EXCEPT !.qty = filled.qty, !.avg = filled.avg]
  <2>1. position.qty > 0 /\ position.best >= 0
    BY <1>1, <1>7 DEF Priced, PositionRow
  <2>2. position'.qty = filled.qty /\ position'.avg = filled.avg /\ position'.best = position.best
    BY <1>1, <1>7 DEF PositionRow
  <2> QED
    BY <1>2, <2>1, <2>2 DEF Priced
<1> QED
  BY <1>3, <1>4, <1>5, <1>6, <1>7

\* Every step keeps the rows read and written positively priced.
LEMMA PricedStep == ASSUME RacesInv, RowsPriced, [Next]_vars PROVE RowsPriced'
<1>1. TypeOK /\ jread \in Read /\ hread \in Read /\ Priced(Flat)
      /\ Priced(position) /\ Priced(jread.decided) /\ Priced(jread.position)
      /\ Priced(hread.decided) /\ Priced(hread.position)
  BY DEF RacesInv, TypeOK, RowsPriced, Priced, Flat
<1>2. Priced(position')
  <2>1. CASE RowWrite
    <3> DEFINE t == intents[Row].ticket
               at == ExecutedPrice(t, RowPrice)
    <3>1. /\ at \in Nat \ {0} /\ t.side \in Sides /\ t.qty \in Nat \ {0}
          /\ ApplyFill(jread.position, jread, t.side, t.qty, at)
      BY <1>1, <2>1, RowFacts, IntentFacts DEF RowWrite, RacesInv, JobControl
    <3> HIDE DEF t, at
    <3> QED
      BY <1>1, <3>1, WrittenPriced
  <2>2. CASE ExitWrite
    <3>1. Exit.price \in Nat \ {0}
      BY <2>2, ExitPositive DEF ExitWrite, Exits
    <3>2. /\ Opposite(Held.side) \in Sides /\ Held.qty \in Nat \ {0}
          /\ ApplyFill(Held, jread, Opposite(Held.side), Held.qty, Exit.price)
      BY <2>2, ClosingFacts, SideFacts DEF ExitWrite, Exits
    <3> HIDE DEF Held, Exit
    <3> QED
      BY <1>1, <3>1, <3>2, WrittenPriced
  <2>3. CASE CloseWrite
    <3>1. /\ Opposite(hread.decided.side) \in Sides /\ hread.qty \in Nat \ {0}
          /\ hread.price \in Nat \ {0}
          /\ ApplyFill(hread.decided, hread, Opposite(hread.decided.side), hread.qty, hread.price)
      BY <2>3, ClosingFacts, SideFacts DEF CloseWrite, Closes
    <3> QED
      BY <1>1, <3>1, WrittenPriced
  <2>4. CASE BracketDecide
    <3>1. Best \in Nat \ {0}
      BY <2>4, BestPositive DEF BracketDecide
    <3>2. position' = position \/ position' = [position EXCEPT !.best = Best]
      BY <2>4 DEF BracketDecide
    <3>3. position \in PositionRow
      BY <1>1 DEF TypeOK
    <3> HIDE DEF Best
    <3> QED
      BY <1>1, <3>1, <3>2, <3>3 DEF Priced, PositionRow
  <2>5. CASE UNCHANGED position
    BY <1>1, <2>5
  <2> QED
    BY <2>1, <2>2, <2>3, <2>4, <2>5, Writers DEF store, SubmitInsert, Cancel
<1>3. /\ Priced(jread'.decided) /\ Priced(jread'.position)
      /\ Priced(hread'.decided) /\ Priced(hread'.position)
  BY <1>1, Reads
<1> QED
  BY <1>2, <1>3 DEF RowsPriced, Priced

\* Cash and notional after a fill that went by rows still there: they move by the
\* result of what was closed and by what the clamp forgave.
LEMMA CashOfFill ==
    ASSUME TypeOK, NEW decided \in PositionRow, NEW read \in Read, Sided(read.position),
           NEW side \in Sides, NEW qty \in Nat \ {0}, NEW at \in Nat \ {0},
           ApplyFill(decided, read, side, qty, at), ~torn',
           AverageExact(read.position, side, qty, at)
    PROVE  LET was == read.position
               closed == Closing(was, side, qty)
               result == SideSign(was.side) * Pnl(was.side, closed, was.avg, at)
               forgiven == AtLeastZero((Opening(was, side, qty) - closed) * at
                                         - read.account.buyingPower)
           IN  /\ result \in Int /\ forgiven \in Int
               /\ account.buyingPower + position.qty * position.avg \in Int
               /\ account'.buyingPower + position'.qty * position'.avg
                    = account.buyingPower + position.qty * position.avg + result + forgiven
<1> DEFINE was == read.position
           filled == FilledPosition(was, side, qty, at)
           closed == Closing(was, side, qty)
           opened == Opening(was, side, qty)
           bp == account.buyingPower
           result == SideSign(was.side) * Pnl(was.side, closed, was.avg, at)
           forgiven == AtLeastZero((opened - closed) * at - bp)
<1>1. was \in PositionRow /\ was.qty \in Nat /\ was.avg \in Int /\ bp \in Nat
      /\ (was.qty > 0 => was.side \in Sides)
  BY DEF Read, PositionRow, TypeOK, Accounts, Sided
<1>2. /\ read.account = account /\ position.qty = was.qty /\ position.avg = was.avg
      /\ position'.qty = filled.qty /\ position'.avg = filled.avg
  BY FreshFill
<1>3. account'.buyingPower = AtLeastZero(bp + (closed - opened) * at)
  BY <1>2 DEF ApplyFill, FilledBuyingPower
<1>4. closed \in Nat /\ opened \in Nat
  <2> HIDE DEF was
  <2> QED
    BY <1>1, ClosingOpening
<1>5. filled.qty * filled.avg = was.qty * was.avg + opened * at - closed * was.avg
  <2> HIDE DEF was
  <2>1. AverageExact(was, side, qty, at)
    BY DEF was
  <2> QED
    BY <1>1, <2>1, FillMovesTiedUp
<1> HIDE DEF was, filled, closed, opened, bp
<1>6. result = closed * at - closed * was.avg
  BY <1>1, <1>4 DEF Pnl, SideSign
<1>7. forgiven \in Int /\ account'.buyingPower = bp + closed * at - opened * at + forgiven
  <2> DEFINE x == bp + (closed - opened) * at
  <2>1. x \in Int /\ x = bp + closed * at - opened * at
    BY <1>1, <1>4
  <2>2. forgiven = AtLeastZero(-x)
    <3>1. (opened - closed) * at - bp = -x
      BY <1>1, <1>4
    <3> QED
      BY <3>1
  <2> HIDE DEF x, forgiven
  <2>3. account'.buyingPower = x + forgiven /\ forgiven \in Int
    BY <1>3, <2>1, <2>2, ClampAdds DEF x, AtLeastZero
  <2> QED
    BY <2>1, <2>3
<1> HIDE DEF result, forgiven
<1>8. /\ closed * at \in Int /\ opened * at \in Int /\ closed * was.avg \in Int
      /\ was.qty * was.avg \in Int
  BY <1>1, <1>4
<1> DEFINE sold == closed * at
           bought == opened * at
           cost == closed * was.avg
           before == was.qty * was.avg
           after == filled.qty * filled.avg
           b == account'.buyingPower
<1>9. /\ after = before + bought - cost /\ result = sold - cost
      /\ b = bp + sold - bought + forgiven
      /\ sold \in Int /\ bought \in Int /\ cost \in Int /\ before \in Int
  BY <1>5, <1>6, <1>7, <1>8
<1> HIDE DEF sold, bought, cost, before, after, b
<1>10. b + after = bp + before + result + forgiven /\ result \in Int /\ bp + before \in Int
  BY <1>1, <1>7, <1>9
<1>11. /\ position.qty * position.avg = before /\ position'.qty * position'.avg = after
       /\ account.buyingPower = bp /\ account'.buyingPower = b
  BY <1>2 DEF before, after, bp, b
<1>12. forgiven = AtLeastZero((opened - closed) * at - read.account.buyingPower)
  BY <1>2 DEF forgiven, bp
<1> QED
  BY <1>7, <1>10, <1>11, <1>12 DEF was, closed, opened, result

\* A closure books in the ledger what cash and notional move by.
LEMMA CashCloses ==
    ASSUME TypeOK, CashBalances, NEW pos, NEW read, NEW qty, NEW at \in Nat \ {0},
           Books(pos, read, qty, at)
    PROVE  CashBalances'
<1> DEFINE was == read.position
           side == Opposite(pos.side)
           closed == Closing(was, side, qty)
           result == SideSign(was.side) * Pnl(was.side, closed, was.avg, at)
           forgiven == AtLeastZero((Opening(was, side, qty) - closed) * at
                                     - read.account.buyingPower)
           cash == account.buyingPower + position.qty * position.avg
<1> SUFFICES ASSUME ~torn'
             PROVE  cash' = StartCash + offbook'.cash + CashResults'
  BY DEF CashBalances, CashResults
<1>1. /\ pos \in PositionRow /\ pos.side \in Sides /\ qty \in Nat \ {0}
      /\ qty <= pos.qty /\ read \in Read /\ was \in PositionRow /\ side \in Sides
      /\ ApplyFill(pos, read, side, qty, at) /\ offbook' = offbook /\ Sided(was)
  BY SideFacts DEF Books, Read
<1>2. PICK kind \in {"stop", "target", "manual"} : ledger' = Append(ledger, Closed(pos, qty, at, kind))
  BY DEF Books
<1> DEFINE row == Closed(pos, qty, at, kind)
<1>3. /\ ~torn /\ read.account = account
      /\ pos.qty = was.qty /\ pos.avg = was.avg /\ pos.side = was.side
  <2> HIDE DEF was, side
  <2> QED
    BY <1>1, FreshFill DEF was
<1>4. closed = qty /\ Opening(was, side, qty) = 0
  <2>1. side = Opposite(was.side) /\ was.side \in Sides /\ qty <= was.qty
    BY <1>1, <1>3
  <2> HIDE DEF side, was
  <2> QED
    BY <1>1, <2>1, ClosesAll
<1>5. result = SideSign(row.side) * ClosurePnl(row)
  BY <1>3, <1>4 DEF ClosurePnl, Closed
<1>6. forgiven = 0
  <2>1. account.buyingPower \in Nat
    BY DEF TypeOK, Accounts
  <2>2. (0 - qty) * at < 0
    BY <1>1
  <2> QED
    BY <1>3, <1>4, <1>1, <2>1, <2>2 DEF AtLeastZero
<1>7. cash' = cash + result + forgiven /\ result \in Int /\ cash \in Int
  <2>1. AverageExact(was, side, qty, at)
    <3>1. was.side # side
      BY <1>1, <1>3, SideFacts
    <3> QED
      BY <3>1 DEF AverageExact
  <2> QED
    BY <1>1, <2>1, CashOfFill
<1>8. CashResults' = CashResults + SideSign(row.side) * ClosurePnl(row)
  <2>1. row \in Closure
    BY <1>1, ClosedType
  <2> HIDE DEF row
  <2> QED
    BY <1>2, <2>1, ResultsGrow DEF row
<1>9. cash = StartCash + offbook.cash + CashResults
  BY <1>3 DEF CashBalances, CashResults
<1>10. CashResults \in Int /\ offbook.cash \in Int /\ StartCash \in Int
  BY ResultsType, RacesAssumption DEF TypeOK
<1> DEFINE c == cash'
           delta == SideSign(row.side) * ClosurePnl(row)
<1>11. c = cash + delta /\ delta \in Int
  BY <1>5, <1>6, <1>7
<1> HIDE DEF cash, delta, c
<1>12. c = StartCash + offbook.cash + CashResults + delta
  BY <1>9, <1>10, <1>11
<1> QED
  <2>1. CashResults' = CashResults + delta /\ offbook' = offbook
    BY <1>1, <1>8 DEF delta
  <2> HIDE DEF CashResults
  <2>2. c = StartCash + offbook.cash + (CashResults + delta)
    BY <1>10, <1>11, <1>12
  <2> QED
    BY <2>1, <2>2 DEF c

\* A fill notes off the books what it nets and what the clamp forgives.
LEMMA CashFills == ASSUME RacesInv, CashBalances, AveragesExact, RowWrite PROVE CashBalances'
<1> DEFINE t == intents[Row].ticket
           at == ExecutedPrice(t, RowPrice)
           was == jread.position
           closed == Closing(was, t.side, t.qty)
           result == SideSign(was.side) * Pnl(was.side, closed, was.avg, at)
           forgiven == AtLeastZero((Opening(was, t.side, t.qty) - closed) * at
                                     - jread.account.buyingPower)
           cash == account.buyingPower + position.qty * position.avg
<1> SUFFICES ASSUME ~torn'
             PROVE  cash' = StartCash + offbook'.cash + CashResults'
  BY DEF CashBalances, CashResults
<1>1. /\ at \in Nat \ {0} /\ t.side \in Sides /\ t.qty \in Nat \ {0} /\ TypeOK
  BY RowFacts, IntentFacts DEF RowWrite, RacesInv, JobControl
<1>2. jread \in Read /\ was \in PositionRow /\ Sided(was)
  BY BoundNumbers DEF Read, RacesInv, JobControl
<1>3. /\ ApplyFill(was, jread, t.side, t.qty, at) /\ NotedOffBook(jread, t.side, t.qty, at)
      /\ ledger' = ledger /\ AverageExact(was, t.side, t.qty, at)
  BY DEF RowWrite, AveragesExact
<1> HIDE DEF t, at
<1>4. ~torn
  <2> HIDE DEF was
  <2> QED
    BY <1>1, <1>2, <1>3, FreshFill
<1>5. offbook'.cash = offbook.cash + result + forgiven
  BY <1>3 DEF NotedOffBook
<1>6. cash' = cash + result + forgiven /\ result \in Int /\ forgiven \in Int /\ cash \in Int
  BY <1>1, <1>2, <1>3, CashOfFill
<1>7. CashResults' = CashResults
  BY <1>3 DEF CashResults, LedgerSum, ClosurePnl
<1>8. cash = StartCash + offbook.cash + CashResults
  BY <1>4 DEF CashBalances, CashResults
<1>9. CashResults \in Int /\ offbook.cash \in Int /\ StartCash \in Int
  BY <1>1, ResultsType, RacesAssumption DEF TypeOK
<1> DEFINE c == cash'
<1>10. c = cash + result + forgiven
  BY <1>6
<1> HIDE DEF cash, result, forgiven, c
<1>11. c = StartCash + (offbook.cash + result + forgiven) + CashResults
  BY <1>6, <1>8, <1>9, <1>10
<1> QED
  BY <1>5, <1>7, <1>11 DEF c

\* Every step that averages exactly keeps the cash balance.
LEMMA CashStep == ASSUME RacesInv, CashInv, AveragesExact, [Next]_vars PROVE CashInv'
<1>0. TypeOK /\ CashBalances /\ RowsPriced /\ RowsPriced'
  BY PricedStep DEF RacesInv, CashInv
<1>1. CashBalances'
  <2>1. CASE UNCHANGED <<account, ledger, torn, offbook>> /\ UNCHANGED position
    BY <1>0, <2>1 DEF CashBalances, LedgerSum, ClosurePnl
  <2>2. CASE BracketDecide
    <3>1. position'.qty = position.qty /\ position'.avg = position.avg
      <4>1. position' = position \/ position' = [position EXCEPT !.best = Best]
        BY <2>2 DEF BracketDecide
      <4>2. position \in PositionRow
        BY <1>0 DEF TypeOK
      <4> HIDE DEF Best
      <4> QED
        BY <4>1, <4>2 DEF PositionRow
    <3>2. UNCHANGED <<account, ledger, torn, offbook>>
      BY <2>2 DEF BracketDecide
    <3> QED
      BY <1>0, <3>1, <3>2 DEF CashBalances, LedgerSum, ClosurePnl
  <2>3. CASE ExitWrite
    <3>1. Exit.price \in Nat \ {0}
      BY <1>0, <2>3, ExitPositive DEF ExitWrite, Exits
    <3> QED
      BY <1>0, <2>3, <3>1, ExitBooks, CashCloses
  <2>4. CASE CloseWrite
    <3>1. hread.price \in Nat \ {0}
      BY <2>4, ClosingFacts DEF CloseWrite, Closes
    <3> QED
      BY <1>0, <2>4, <3>1, CloseBooks, CashCloses
  <2>5. CASE RowWrite
    BY <1>0, <2>5, CashFills
  <2> QED
    BY <2>1, <2>2, <2>3, <2>4, <2>5, Writers DEF store, SubmitInsert, Cancel
<1> QED
  BY <1>0, <1>1 DEF CashInv

\* An account that has not traded balances.
LEMMA CashInit == ASSUME Init PROVE CashInv
<1>1. account.buyingPower = StartCash /\ offbook.cash = 0 /\ CashResults = 0 /\ position = Flat
      /\ jread = NothingRead /\ hread = NothingRead
  BY NothingBooked DEF Init
<1>2. CashBalances
  <2>1. StartCash \in Int
    BY RacesAssumption
  <2>2. position.qty * position.avg = 0
    BY <1>1 DEF Flat
  <2> HIDE DEF CashResults
  <2>3. account.buyingPower + position.qty * position.avg = StartCash + offbook.cash + CashResults
    BY <1>1, <2>1, <2>2
  <2> QED
    BY <2>3 DEF CashBalances, CashResults
<1> QED
  BY <1>1, <1>2 DEF CashInv, RowsPriced, Priced, NothingRead, Flat

\* In a behaviour whose averages come out whole, cash and notional are the start,
\* the closed results and what came off the books, until some call has written
\* over rows it had not read.
THEOREM CashExplained == Spec /\ [][AveragesExact]_vars => []CashBalances
<1>1. RacesInv /\ CashInv /\ [AveragesExact]_vars /\ [Next]_vars => CashInv'
  <2>1. ASSUME UNCHANGED vars, CashInv PROVE CashInv'
    BY <2>1 DEF vars, store, job, handler, CashInv, CashBalances, RowsPriced, Priced, LedgerSum,
                ClosurePnl
  <2> QED
    BY <2>1, CashStep
<1>2. CashInv => CashBalances
  BY DEF CashInv
<1> QED
  BY <1>1, <1>2, CashInit, RacesInvariant, PTL DEF Spec
=============================================================================
